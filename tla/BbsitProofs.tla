---------------------------- MODULE BbsitProofs ----------------------------
(***************************************************************************)
(* Bbsit, proved for every set of services, digests and request goroutines *)
(* and for every value of the bounds: its types, its inductive invariant   *)
(* IInv, and from IInv that records in progress are owned, that recorded   *)
(* digests were deployed, and that the history refines DeploymentLog; and  *)
(* what the polling loop guarantees when no request competes with it.      *)
(***************************************************************************)
EXTENDS Bbsit, TLAPS

USE StoreAssumption, DeployerAssumption, BbsitAssumption

\* The row of a new project, and the empty digest map, have their types.
LEMMA NewRowType == EmptyMap \in DigestMap /\ NewRow \in ProjectState
  BY DEF EmptyMap, DigestMap, NewRow, ProjectState, ProjectStatus

\* buildImageOverrides pins only services, to digests.
LEMMA OverridesType ==
  ASSUME NEW m \in DigestMap
  PROVE  buildImageOverrides(m) \in Overrides
<1> DEFINE S == {t \in Services : m[t] # NoDigest}
<1>1. buildImageOverrides(m) \in [S -> Digests]
  BY DEF buildImageOverrides, DigestMap
<1>2. [S -> Digests] \in {[T -> Digests] : T \in SUBSET Services}
  OBVIOUS
<1> QED BY <1>1, <1>2 DEF Overrides

\* compose runs some image for every service.
LEMMA ImageType ==
  ASSUME DeployerTypeOK, NEW s \in Services
  PROVE  Image(s) \in Digests
<1>1. PICK S \in SUBSET Services : override \in [S -> Digests]
  BY DEF DeployerTypeOK, Overrides
<1> QED BY <1>1 DEF Image, DeployerTypeOK

\* What InsertDeployment does to the history.
LEMMA InsertEffect ==
  ASSUME StoreTypeOK, NEW f \in DigestMap, NEW t \in DigestMap,
         InsertDeployment(f, t)
  PROVE  /\ deployments' \in Seq(Deployment)
         /\ Len(deployments') = Len(deployments) + 1
         /\ DOMAIN deployments' = DOMAIN deployments \cup {Len(deployments) + 1}
         /\ \A i \in DOMAIN deployments : deployments'[i] = deployments[i]
         /\ deployments'[Len(deployments) + 1] =
              [from |-> f, to |-> t, status |-> "in_progress"]
  BY DEF StoreTypeOK, InsertDeployment, Deployment, DeployStatus

\* What FinishDeployment does to the history.
LEMMA FinishEffect ==
  ASSUME StoreTypeOK, NEW id \in DOMAIN deployments, NEW s \in DeployStatus,
         FinishDeployment(id, s)
  PROVE  /\ deployments' \in Seq(Deployment)
         /\ Len(deployments') = Len(deployments)
         /\ DOMAIN deployments' = DOMAIN deployments
         /\ \A i \in DOMAIN deployments : i # id => deployments'[i] = deployments[i]
         /\ deployments'[id] = [deployments[id] EXCEPT !.status = s]
         /\ deployments'[id].status = s
         /\ deployments'[id].from = deployments[id].from
         /\ deployments'[id].to = deployments[id].to
<1>1. deployments[id] \in Deployment /\ DOMAIN deployments = 1..Len(deployments)
      /\ Len(deployments) \in Nat
  BY DEF StoreTypeOK
<1> DEFINE r == [deployments[id] EXCEPT !.status = s]
<1>2. r \in Deployment /\ r.status = s /\ r.from = deployments[id].from
      /\ r.to = deployments[id].to
  BY <1>1 DEF Deployment
<1>3. deployments' = [deployments EXCEPT ![id] = r]
  BY DEF FinishDeployment
<1> HIDE DEF r
<1>4. /\ deployments' \in Seq(Deployment)
      /\ Len(deployments') = Len(deployments)
      /\ DOMAIN deployments' = DOMAIN deployments
      /\ \A i \in DOMAIN deployments : i # id => deployments'[i] = deployments[i]
      /\ deployments'[id] = r
  BY <1>1, <1>2, <1>3 DEF StoreTypeOK
<1> QED BY <1>2, <1>4 DEF r

\* What the boot's second statement does to the history.
LEMMA ResetEffect ==
  ASSUME StoreTypeOK, ResetStaleDeployments
  PROVE  /\ deployments' \in Seq(Deployment)
         /\ Len(deployments') = Len(deployments)
         /\ DOMAIN deployments' = DOMAIN deployments
         /\ \A i \in DOMAIN deployments :
              /\ deployments'[i].status # "in_progress"
              /\ deployments[i].status # "in_progress" =>
                   deployments'[i] = deployments[i]
              /\ deployments[i].status = "in_progress" =>
                   deployments'[i] = [deployments[i] EXCEPT !.status = "failed"]
<1>1. \A i \in DOMAIN deployments : deployments[i] \in Deployment
  BY DEF StoreTypeOK
<1>2. DOMAIN deployments = 1..Len(deployments) /\ Len(deployments) \in Nat
  BY DEF StoreTypeOK
<1>3. \A i \in DOMAIN deployments : deployments'[i] \in Deployment
  BY <1>1 DEF ResetStaleDeployments, Deployment, DeployStatus
<1>4. DOMAIN deployments' = DOMAIN deployments
  BY DEF ResetStaleDeployments
<1>5. deployments' = [i \in 1..Len(deployments) |-> deployments'[i]]
  BY <1>2, <1>4 DEF ResetStaleDeployments
<1>6. deployments' \in Seq(Deployment) /\ Len(deployments') = Len(deployments)
  BY <1>2, <1>3, <1>4, <1>5
<1>7. \A i \in DOMAIN deployments :
         /\ deployments'[i].status # "in_progress"
         /\ deployments[i].status # "in_progress" => deployments'[i] = deployments[i]
         /\ deployments[i].status = "in_progress" =>
              deployments'[i] = [deployments[i] EXCEPT !.status = "failed"]
  BY <1>1 DEF ResetStaleDeployments, Deployment
<1> QED BY <1>4, <1>6, <1>7

-----------------------------------------------------------------------------
\* The mutex and the program counters go together (TryLock, deferred Unlock).
LEMMA LockStep ==
  ASSUME TypeOK, LockInv, [Next]_vars
  PROVE  LockInv'
<1> USE DEF TypeOK, DeployerTypeOK, SchedulerTypeOK, LockInv, DeployPC, StopPC,
            StartPC, ReconcilePC, Goto, Step, Return
<1>1. ASSUME NEW w \in Workers, DeployStep(w), UNCHANGED daemonVars
      PROVE  LockInv'
  <2>1. CASE DeployTryLock(w)
    BY <1>1, <2>1 DEF DeployTryLock, daemonVars
  <2>2. CASE DeploySave(w) \/ DeploySaveFailed(w)
    BY <1>1, <2>2 DEF DeploySave, DeploySaveFailed, daemonVars
  <2>3. CASE DeployInsert(w) \/ DeployMark(w) \/ DeployWrite(w) \/ DeployUp(w) \/ DeployHealth(w)
    BY <1>1, <2>3 DEF DeployInsert, DeployMark, DeployWrite, DeployUp, DeployHealth, daemonVars
  <2>4. CASE DeployFinishFailed(w) \/ RollbackWrite(w) \/ RollbackUp(w) \/ RollbackHealth(w)
    BY <1>1, <2>4 DEF DeployFinishFailed, RollbackWrite, RollbackUp, RollbackHealth, daemonVars
  <2> QED BY <1>1, <2>1, <2>2, <2>3, <2>4 DEF DeployStep
<1>2. ASSUME NEW w \in Workers, StopStartStep(w), UNCHANGED daemonVars
      PROVE  LockInv'
  BY <1>2 DEF StopStartStep, StopMark, StopDown, StopSave, StartMark, StartWrite,
     StartUp, StartSave, daemonVars
<1>3. ASSUME NEW w \in Workers, ReconcileStep(w), UNCHANGED daemonVars
      PROVE  LockInv'
  BY <1>3 DEF ReconcileStep, ReconcileCheck, ReconcilePoll, ReconcileDecide,
     daemonVars
<1>4. ASSUME NEW w \in Workers, Api(w) PROVE LockInv'
  BY <1>4 DEF Api, apiDeploy, apiRollback, apiStop, apiStart, Request,
     ReconcileBegin, ManualRollback, Stop, Start
<1>5. CASE Tick
  BY <1>5 DEF Tick, ReconcileBegin, daemonVars
<1>6. CASE Push \/ Crash \/ Boot
  BY <1>6 DEF Push, Crash, Boot, BootResetStatus, BootResetDeployments
<1>7. CASE UNCHANGED vars
  BY <1>7 DEF vars, deployerVars, daemonVars
<1> QED BY <1>1, <1>2, <1>3, <1>4, <1>5, <1>6, <1>7 DEF Next, Work

-----------------------------------------------------------------------------
\* A failing or succeeding compose command leaves well-typed containers.
LEMMA ComposeTypes ==
  ASSUME DeployerTypeOK,
         composeUp \/ composeUpFails \/ composeDown \/ composeDownFails
  PROVE  containers' \in [Services -> Digests \cup {Down}]
<1>1. \A s \in Services : Image(s) \in Digests
  BY ImageType
<1> QED BY <1>1 DEF composeUp, composeUpFails, composeDown, composeDownFails

\* WriteComposeFiles leaves a well-typed override, even when it fails.
LEMMA OverrideWrites ==
  ASSUME DeployerTypeOK, NEW m \in DigestMap,
         \/ WriteComposeFiles(buildImageOverrides(m))
         \/ WriteComposeFilesFails(buildImageOverrides(m))
  PROVE  override' \in Overrides
<1>1. buildImageOverrides(m) \in Overrides
  BY OverridesType
<1>2. << >> \in Overrides
  <2>1. << >> \in [{} -> Digests]
    OBVIOUS
  <2> QED BY <2>1 DEF Overrides
<1> QED BY <1>1, <1>2 DEF WriteComposeFiles, WriteComposeFilesFails, DeployerTypeOK

\* TypeOK in five parts, proved one by one.
CountersTyped ==
    /\ phase \in {"up", "down", "booting"} /\ requests \in 0..MaxRequests
    /\ pushes \in 0..MaxPushes /\ crashes \in 0..MaxCrashes
    /\ faults \in 0..MaxFaults

ControlTyped == lock \in Workers \cup {NoWorker} /\ SchedulerTypeOK

StatesTyped ==
    /\ row \in ProjectState /\ st \in [Workers -> ProjectState]
    /\ target \in [Workers -> DigestMap]

HostTyped ==
    /\ override \in Overrides /\ remote \in [Services -> Digests]
    /\ containers \in [Services -> Digests \cup {Down}]

HistoryTyped == deployments \in Seq(Deployment) /\ dep \in [Workers -> Nat]

\* The bounded counters and the daemon's phase.
LEMMA CounterTypes ==
  ASSUME TypeOK, [Next]_vars
  PROVE  CountersTyped'
<1> USE DEF CountersTyped, Goto, Step, Return, ReadState, SetStatus, Fault, NoFault,
            UpdateState, storeVars, localVars, hostVars,
            daemonVars, TypeOK, DeployerTypeOK,
            WriteComposeFilesFails, composeUpFails,
            composeDownFails
<1>1. ASSUME NEW w \in Workers, DeployStep(w), UNCHANGED <<daemonVars, todo>>
      PROVE  CountersTyped'
  BY <1>1 DEF DeployStep, DeployTryLock, DeployInsert, DeployMark,
     DeployWrite, DeployUp, DeployHealth, DeploySave, DeployFinishFailed,
     RollbackWrite, RollbackUp, RollbackHealth, DeploySaveFailed
<1>2. ASSUME NEW w \in Workers, StopStartStep(w), UNCHANGED <<daemonVars, todo>>
      PROVE  CountersTyped'
  BY <1>2 DEF StopStartStep, StopMark, StopDown, StopSave, StartMark,
     StartWrite, StartUp, StartSave
<1>3. ASSUME NEW w \in Workers, ReconcileStep(w), UNCHANGED daemonVars
      PROVE  CountersTyped'
  BY <1>3 DEF ReconcileStep, ReconcileCheck, ReconcilePoll, ReconcileDecide
<1>4. ASSUME NEW w \in Workers, Api(w)
      PROVE  CountersTyped'
  BY <1>4 DEF Api, apiDeploy, apiRollback, apiStop, apiStart, Request,
     ReconcileBegin, ManualRollback, Stop, Start
<1>5. CASE Tick
  BY <1>5 DEF Tick, ReconcileBegin
<1>6. CASE Push
  BY <1>6 DEF Push
<1>7. CASE Crash
  BY <1>7 DEF Crash
<1>8. CASE Boot
  BY <1>8 DEF Boot, BootResetStatus, BootResetDeployments
<1>9. CASE UNCHANGED vars
  BY <1>9 DEF vars, deployerVars
<1> QED BY <1>1, <1>2, <1>3, <1>4, <1>5, <1>6, <1>7, <1>8, <1>9 DEF Next, Work

\* Program counters, the poll loops and the mutex.
LEMMA ControlTypes ==
  ASSUME TypeOK, [Next]_vars
  PROVE  ControlTyped'
<1> USE DEF ControlTyped, Goto, Step, Return, ReadState, SetStatus, Fault, NoFault,
            UpdateState, storeVars, localVars, hostVars,
            daemonVars, TypeOK, DeployerTypeOK, SchedulerTypeOK,
            DeployPC, StopPC, StartPC, ReconcilePC
<1>1. ASSUME NEW w \in Workers, DeployStep(w), UNCHANGED <<daemonVars, todo>>
      PROVE  ControlTyped'
  BY <1>1 DEF DeployStep, DeployTryLock, DeployInsert, DeployMark,
     DeployWrite, DeployUp, DeployHealth, DeploySave, DeployFinishFailed,
     RollbackWrite, RollbackUp, RollbackHealth, DeploySaveFailed
<1>2. ASSUME NEW w \in Workers, StopStartStep(w), UNCHANGED <<daemonVars, todo>>
      PROVE  ControlTyped'
  BY <1>2 DEF StopStartStep, StopMark, StopDown, StopSave, StartMark,
     StartWrite, StartUp, StartSave
<1>3. ASSUME NEW w \in Workers, ReconcileStep(w), UNCHANGED daemonVars
      PROVE  ControlTyped'
  BY <1>3 DEF ReconcileStep, ReconcileCheck, ReconcilePoll, ReconcileDecide
<1>4. ASSUME NEW w \in Workers, Api(w)
      PROVE  ControlTyped'
  BY <1>4 DEF Api, apiDeploy, apiRollback, apiStop, apiStart, Request,
     ReconcileBegin, ManualRollback, Stop, Start
<1>5. CASE Tick
  BY <1>5 DEF Tick, ReconcileBegin
<1>6. CASE Push
  BY <1>6 DEF Push
<1>7. CASE Crash
  BY <1>7 DEF Crash
<1>8. CASE Boot
  BY <1>8 DEF Boot, BootResetStatus, BootResetDeployments
<1>9. CASE UNCHANGED vars
  BY <1>9 DEF vars, deployerVars
<1> QED BY <1>1, <1>2, <1>3, <1>4, <1>5, <1>6, <1>7, <1>8, <1>9 DEF Next, Work

\* The digest maps of a *types.ProjectState.
LEMMA StateFields ==
  ASSUME NEW r \in ProjectState
  PROVE  r.current \in DigestMap /\ r.previous \in DigestMap /\ r.desired \in DigestMap
  BY DEF ProjectState

\* state.Status = x.
LEMMA StatusUpdate ==
  ASSUME NEW r \in ProjectState, NEW x \in ProjectStatus
  PROVE  [r EXCEPT !.status = x] \in ProjectState
  BY DEF ProjectState

\* The updates of DeployMark and DeploySave.
LEMMA DeployUpdates ==
  ASSUME NEW r \in ProjectState, NEW m \in DigestMap
  PROVE  /\ [r EXCEPT !.status = "deploying", !.desired = m] \in ProjectState
         /\ Succeeded(r, m) \in ProjectState
  BY DEF ProjectState, ProjectStatus, Succeeded

\* state.DesiredDigests[s] = d.
LEMMA PollUpdate ==
  ASSUME NEW r \in ProjectState, NEW s \in Services, NEW d \in Digests
  PROVE  [r EXCEPT !.desired[s] = d] \in ProjectState
<1>1. [r.desired EXCEPT ![s] = d] \in DigestMap
  BY StateFields DEF DigestMap
<1> QED BY <1>1 DEF ProjectState

\* The state row, the workers' copies of it and their targets.
LEMMA StateTypes ==
  ASSUME TypeOK, [Next]_vars
  PROVE  StatesTyped'
<1> USE DEF StatesTyped, Goto, Step, ReadState, Fault, NoFault, storeVars, localVars,
            hostVars, daemonVars, TypeOK, DeployerTypeOK,
            UpdateState, StoreTypeOK
<1> USE NewRowType
<1>a. ASSUME NEW w \in Workers
      PROVE  /\ st[w] \in ProjectState /\ target[w] \in DigestMap
             /\ st[w].desired \in DigestMap /\ row.previous \in DigestMap
             /\ [st[w] EXCEPT !.status = "deploying", !.desired = target[w]]
                   \in ProjectState
             /\ Succeeded(st[w], target[w]) \in ProjectState
  BY StateFields, DeployUpdates
<1>b. \A w \in Workers : Return(w) => st' \in [Workers -> ProjectState]
                                     /\ target' \in [Workers -> DigestMap]
  BY DEF Return
<1>c. \A w \in Workers : \A x \in ProjectStatus :
         SetStatus(w, x) => st' \in [Workers -> ProjectState]
  BY StatusUpdate DEF SetStatus
<1>d. {"failed", "rolled_back", "stopping", "stopped", "starting", "running"}
         \subseteq ProjectStatus
  BY DEF ProjectStatus
<1>e. \A w \in Workers : \A s \in Services :
         st' = [st EXCEPT ![w].desired[s] = remote[s]] =>
           st' \in [Workers -> ProjectState]
  BY PollUpdate
<1>1. ASSUME NEW w \in Workers, DeployStep(w), UNCHANGED <<daemonVars, todo>>
      PROVE  StatesTyped'
  <2>1. CASE DeployTryLock(w) \/ DeployWrite(w) \/ DeployUp(w) \/ DeployHealth(w)
    BY <2>1, <1>b DEF DeployTryLock, DeployWrite, DeployUp, DeployHealth
  <2>2. CASE DeployInsert(w)
    BY <2>2 DEF DeployInsert
  <2>3. CASE DeployMark(w)
    BY <2>3, <1>a DEF DeployMark
  <2>4. CASE DeploySave(w) \/ DeploySaveFailed(w)
    BY <2>4, <1>a, <1>b DEF DeploySave, DeploySaveFailed
  <2>5. CASE DeployFinishFailed(w) \/ RollbackWrite(w) \/ RollbackUp(w)
               \/ RollbackHealth(w)
    BY <2>5, <1>c, <1>d DEF DeployFinishFailed, RollbackWrite, RollbackUp, RollbackHealth
  <2> QED BY <1>1, <2>1, <2>2, <2>3, <2>4, <2>5 DEF DeployStep
<1>2. ASSUME NEW w \in Workers, StopStartStep(w), UNCHANGED <<daemonVars, todo>>
      PROVE  StatesTyped'
  <2>1. CASE StopMark(w) \/ StartMark(w)
    <3>1. row' = st'[w] /\ target' = target /\ st' \in [Workers -> ProjectState]
      BY <2>1, <1>c, <1>d DEF StopMark, StartMark
    <3> QED BY <3>1
  <2>2. CASE StopDown(w) \/ StartWrite(w) \/ StartUp(w)
    BY <2>2, <1>c, <1>d DEF StopDown, StartWrite, StartUp
  <2>3. CASE StopSave(w) \/ StartSave(w)
    BY <2>3, <1>a, <1>b DEF StopSave, StartSave
  <2> QED BY <1>2, <2>1, <2>2, <2>3 DEF StopStartStep
<1>3. ASSUME NEW w \in Workers, ReconcileStep(w), UNCHANGED daemonVars
      PROVE  StatesTyped'
  <2>1. CASE ReconcileCheck(w)
    BY <1>3, <2>1, <1>a, <1>b, <1>e DEF ReconcileCheck
  <2>2. CASE ReconcilePoll(w)
    <3>1. PICK s \in todo[w] :
            \/ st' = [st EXCEPT ![w].desired[s] = remote[s]] /\ UNCHANGED <<target, row>>
            \/ UpdateState(st[w]) /\ Return(w)
      BY <2>2 DEF ReconcilePoll
    <3>2. s \in Services
      BY <3>1 DEF SchedulerTypeOK
    <3>3. CASE st' = [st EXCEPT ![w].desired[s] = remote[s]] /\ UNCHANGED <<target, row>>
      BY <3>2, <3>3, <1>e
    <3>4. CASE UpdateState(st[w]) /\ Return(w)
      BY <3>4, <1>a, <1>b
    <3> QED BY <3>1, <3>3, <3>4
  <2>3. CASE ReconcileDecide(w)
    <3>1. row' = st[w]
      BY <2>3 DEF ReconcileDecide
    <3>2. CASE Return(w)
      BY <3>1, <3>2, <1>a, <1>b
    <3>3. CASE target' = [target EXCEPT ![w] = st[w].desired]
               /\ st' = [st EXCEPT ![w] = NewRow]
      BY <3>1, <3>3, <1>a
    <3> QED BY <2>3, <3>2, <3>3 DEF ReconcileDecide
  <2> QED BY <1>3, <2>1, <2>2, <2>3 DEF ReconcileStep
<1>4. ASSUME NEW w \in Workers, Api(w)
      PROVE  StatesTyped'
  <2>1. CASE apiDeploy(w)
    BY <1>4, <2>1, <1>a DEF apiDeploy, Request, ReconcileBegin
  <2>2. CASE apiRollback(w)
    BY <1>4, <2>2, <1>a DEF apiRollback, Request, ManualRollback
  <2>3. CASE apiStop(w)
    BY <1>4, <2>3, <1>a DEF apiStop, Request, Stop
  <2>4. CASE apiStart(w)
    BY <1>4, <2>4, <1>a DEF apiStart, Request, Start
  <2> QED BY <1>4, <2>1, <2>2, <2>3, <2>4 DEF Api
<1>5. CASE Tick
  BY <1>5 DEF Tick, ReconcileBegin
<1>6. CASE Push
  BY <1>6 DEF Push
<1>7. CASE Crash
  BY <1>7 DEF Crash
<1>8. CASE Boot
  <2>1. CASE BootResetStatus
    BY <1>8, <2>1, StatusUpdate, <1>d DEF BootResetStatus, ResetStaleStatus
  <2>2. CASE BootResetDeployments
    BY <1>8, <2>2 DEF BootResetDeployments
  <2> QED BY <1>8, <2>1, <2>2 DEF Boot
<1>9. CASE UNCHANGED vars
  BY <1>9 DEF vars, deployerVars
<1> QED BY <1>1, <1>2, <1>3, <1>4, <1>5, <1>6, <1>7, <1>8, <1>9 DEF Next, Work

\* The override file, the containers and the registry.
LEMMA HostTypesStep ==
  ASSUME TypeOK, [Next]_vars
  PROVE  HostTyped'
<1> USE DEF HostTyped, Goto, Step, ReadState, Fault, NoFault, storeVars, localVars,
            hostVars, daemonVars, TypeOK, DeployerTypeOK
<1>a. \A m \in DigestMap :
         WriteComposeFiles(buildImageOverrides(m))
           \/ WriteComposeFilesFails(buildImageOverrides(m)) => override' \in Overrides
  BY OverrideWrites
<1>b. EmptyMap \in DigestMap
      /\ \A w \in Workers : target[w] \in DigestMap /\ st[w].current \in DigestMap
  BY NewRowType, StateFields
<1>c. composeUp \/ composeUpFails \/ composeDown \/ composeDownFails =>
         containers' \in [Services -> Digests \cup {Down}]
  BY ComposeTypes
<1>1. ASSUME NEW w \in Workers, DeployStep(w), UNCHANGED <<daemonVars, todo>>
      PROVE  HostTyped'
  <2>1. CASE DeployWrite(w) \/ RollbackWrite(w)
    BY <2>1, <1>a, <1>b DEF DeployWrite, RollbackWrite
  <2>2. CASE DeployUp(w) \/ RollbackUp(w)
    BY <2>2, <1>c DEF DeployUp, RollbackUp
  <2>3. CASE DeployTryLock(w) \/ DeployInsert(w) \/ DeployMark(w) \/ DeployHealth(w)
    BY <2>3 DEF DeployTryLock, DeployInsert, DeployMark, DeployHealth
  <2>4. CASE DeploySave(w) \/ DeployFinishFailed(w) \/ RollbackHealth(w)
               \/ DeploySaveFailed(w)
    BY <2>4 DEF DeploySave, DeployFinishFailed, RollbackHealth, DeploySaveFailed
  <2> QED BY <1>1, <2>1, <2>2, <2>3, <2>4 DEF DeployStep
<1>2. ASSUME NEW w \in Workers, StopStartStep(w), UNCHANGED <<daemonVars, todo>>
      PROVE  HostTyped'
  <2>1. CASE StopDown(w) \/ StartUp(w)
    BY <2>1, <1>c DEF StopDown, StartUp
  <2>2. CASE StartWrite(w)
    BY <2>2, <1>a, <1>b DEF StartWrite
  <2>3. CASE StopMark(w) \/ StopSave(w) \/ StartMark(w) \/ StartSave(w)
    BY <2>3 DEF StopMark, StopSave, StartMark, StartSave
  <2> QED BY <1>2, <2>1, <2>2, <2>3 DEF StopStartStep
<1>3. ASSUME NEW w \in Workers, ReconcileStep(w), UNCHANGED daemonVars
      PROVE  HostTyped'
  BY <1>3 DEF ReconcileStep, ReconcileCheck, ReconcilePoll, ReconcileDecide
<1>4. ASSUME NEW w \in Workers, Api(w)
      PROVE  HostTyped'
  BY <1>4 DEF Api, apiDeploy, apiRollback, apiStop, apiStart, Request,
     ReconcileBegin, ManualRollback, Stop, Start
<1>5. CASE Tick
  BY <1>5 DEF Tick, ReconcileBegin
<1>6. CASE Push
  BY <1>6 DEF Push
<1>7. CASE Crash
  BY <1>7 DEF Crash
<1>8. CASE Boot
  BY <1>8 DEF Boot, BootResetStatus, BootResetDeployments
<1>9. CASE UNCHANGED vars
  BY <1>9 DEF vars, deployerVars
<1> QED BY <1>1, <1>2, <1>3, <1>4, <1>5, <1>6, <1>7, <1>8, <1>9 DEF Next, Work

\* The deployments table and the ids workers hold.
LEMMA HistoryTypes ==
  ASSUME TypeOK, RecordInv, [Next]_vars
  PROVE  HistoryTyped'
<1> USE DEF HistoryTyped, Goto, Step, ReadState, Fault, NoFault, storeVars, localVars,
            hostVars, daemonVars, TypeOK, DeployerTypeOK, Return,
            SetStatus, StoreTypeOK
<1>a. \A w \in Workers :
         /\ target[w] \in DigestMap /\ row.current \in DigestMap
         /\ pc[w] \in DeployPC \ {"insert"} => dep[w] \in DOMAIN deployments
  BY StateFields DEF RecordInv, RecordOf
<1>i. \A w \in Workers : InsertDeployment(row.current, target[w]) =>
         deployments' \in Seq(Deployment)
  BY <1>a, InsertEffect
<1>b. {"success", "failed", "rolled_back"} \subseteq DeployStatus
  BY DEF DeployStatus
<1>c. Len(deployments) \in Nat
  OBVIOUS
<1>1. ASSUME NEW w \in Workers, DeployStep(w), UNCHANGED <<daemonVars, todo>>
      PROVE  HistoryTyped'
  <2>1. CASE DeployInsert(w)
    BY <2>1, <1>c, <1>i DEF DeployInsert
  <2>2. CASE DeployHealth(w) \/ DeployFinishFailed(w) \/ RollbackHealth(w)
    <3>1. pc[w] \in DeployPC \ {"insert"} /\ dep' = dep
      BY <2>2 DEF DeployHealth, DeployFinishFailed, RollbackHealth, DeployPC
    <3> QED BY <2>2, <3>1, <1>a, <1>b, FinishEffect
               DEF DeployHealth, DeployFinishFailed, RollbackHealth
  <2>3. CASE DeployTryLock(w) \/ DeployMark(w) \/ DeployWrite(w) \/ DeployUp(w)
               \/ RollbackWrite(w) \/ RollbackUp(w)
    BY <2>3 DEF DeployTryLock, DeployMark, DeployWrite, DeployUp, RollbackWrite,
       RollbackUp
  <2>4. CASE DeploySave(w) \/ DeploySaveFailed(w)
    BY <2>4 DEF DeploySave, DeploySaveFailed
  <2> QED BY <1>1, <2>1, <2>2, <2>3, <2>4 DEF DeployStep
<1>2. ASSUME NEW w \in Workers, StopStartStep(w), UNCHANGED <<daemonVars, todo>>
      PROVE  HistoryTyped'
  BY <1>2 DEF StopStartStep, StopMark, StopDown, StopSave, StartMark, StartWrite,
     StartUp, StartSave
<1>3. ASSUME NEW w \in Workers, ReconcileStep(w), UNCHANGED daemonVars
      PROVE  HistoryTyped'
  <2>1. CASE ReconcilePoll(w)
    BY <2>1 DEF ReconcilePoll
  <2>2. CASE ReconcileCheck(w) \/ ReconcileDecide(w)
    BY <2>2 DEF ReconcileCheck, ReconcileDecide
  <2> QED BY <1>3, <2>1, <2>2 DEF ReconcileStep
<1>4. ASSUME NEW w \in Workers, Api(w)
      PROVE  HistoryTyped'
  BY <1>4 DEF Api, apiDeploy, apiRollback, apiStop, apiStart, Request,
     ReconcileBegin, ManualRollback, Stop, Start
<1>5. CASE Tick
  BY <1>5 DEF Tick, ReconcileBegin
<1>6. CASE Push
  BY <1>6 DEF Push
<1>7. CASE Crash
  BY <1>7 DEF Crash
<1>8. CASE Boot
  BY <1>8, ResetEffect DEF Boot, BootResetStatus, BootResetDeployments
<1>9. CASE UNCHANGED vars
  BY <1>9 DEF vars, deployerVars
<1> QED BY <1>1, <1>2, <1>3, <1>4, <1>5, <1>6, <1>7, <1>8, <1>9 DEF Next, Work

\* Every step keeps the types.
LEMMA TypeStep ==
  ASSUME TypeOK, RecordInv, [Next]_vars
  PROVE  TypeOK'
<1>1. StoreTypeOK'
  BY StateTypes, HistoryTypes DEF StoreTypeOK, StatesTyped, HistoryTyped
<1>2. DeployerTypeOK'
  BY CounterTypes, ControlTypes, StateTypes, HostTypesStep, HistoryTypes
     DEF DeployerTypeOK, CountersTyped, ControlTyped, StatesTyped, HostTyped, HistoryTyped
<1> QED BY <1>1, <1>2, CounterTypes, ControlTypes
        DEF TypeOK, CountersTyped, ControlTyped

-----------------------------------------------------------------------------
\* A worker that sets the status of its copy leaves the digests in it alone.
LEMMA SetStatusEffect ==
  ASSUME DeployerTypeOK, NEW w \in Workers, NEW x, SetStatus(w, x)
  PROVE  /\ st'[w].current = st[w].current /\ st'[w].previous = st[w].previous
         /\ st'[w].desired = st[w].desired
         /\ \A v \in Workers : v # w => st'[v] = st[v]
  BY DEF DeployerTypeOK, SetStatus, ProjectState



\* A step of worker w leaves the other workers' locals alone.
LEMMA StepIsLocal ==
  ASSUME TypeOK, NEW w \in Workers, NEW v \in Workers, v # w,
         \/ DeployStep(w) \/ StopStartStep(w) \/ ReconcileStep(w) \/ Api(w)
         \/ w = Poller /\ Tick
  PROVE  pc'[v] = pc[v] /\ st'[v] = st[v] /\ target'[v] = target[v] /\ dep'[v] = dep[v]
<1> USE DEF TypeOK, DeployerTypeOK, SchedulerTypeOK, Goto, Step, Return, ReadState,
            SetStatus, localVars
<1>1. CASE DeployStep(w)
  BY <1>1 DEF DeployStep, DeployTryLock, DeployInsert, DeployMark, DeployWrite,
     DeployUp, DeployHealth, DeploySave, DeployFinishFailed, RollbackWrite,
     RollbackUp, RollbackHealth, DeploySaveFailed
<1>2. CASE StopStartStep(w)
  BY <1>2 DEF StopStartStep, StopMark, StopDown, StopSave, StartMark, StartWrite,
     StartUp, StartSave
<1>3. CASE ReconcileStep(w)
  BY <1>3 DEF ReconcileStep, ReconcileCheck, ReconcilePoll, ReconcileDecide
<1>4. CASE Api(w) \/ (w = Poller /\ Tick)
  BY <1>4 DEF Api, apiDeploy, apiRollback, apiStop, apiStart, Tick, ReconcileBegin,
     ManualRollback, Stop, Start
<1> QED BY <1>1, <1>2, <1>3, <1>4

\* Outside Deploy a step neither touches the history nor enters Deploy's middle.
LEMMA StepOutsideDeploy ==
  ASSUME TypeOK, NEW w \in Workers,
         \/ DeployTryLock(w) \/ DeploySave(w) \/ DeploySaveFailed(w)
         \/ StopStartStep(w) \/ ReconcileStep(w) \/ Api(w)
         \/ w = Poller /\ Tick
  PROVE  deployments' = deployments /\ pc'[w] \notin DeployPC \ {"insert"}
<1> USE DEF TypeOK, SchedulerTypeOK, Goto, Step, Return, storeVars, DeployPC
<1>1. CASE DeployTryLock(w) \/ DeploySave(w) \/ DeploySaveFailed(w)
  BY <1>1 DEF DeployTryLock, DeploySave, DeploySaveFailed
<1>2. CASE StopStartStep(w)
  BY <1>2 DEF StopStartStep, StopMark, StopDown, StopSave, StartMark, StartWrite,
     StartUp, StartSave
<1>3. CASE ReconcileStep(w)
  BY <1>3 DEF ReconcileStep, ReconcileCheck, ReconcilePoll, ReconcileDecide
<1>4. CASE Api(w) \/ (w = Poller /\ Tick)
  BY <1>4 DEF Api, apiDeploy, apiRollback, apiStop, apiStart, Tick, ReconcileBegin,
     ManualRollback, Stop, Start
<1> QED BY <1>1, <1>2, <1>3, <1>4

\* Deploy's record follows Deploy's progress.
LEMMA RecordStep ==
  ASSUME TypeOK, LockInv, RecordInv, [Next]_vars
  PROVE  RecordInv'
<1>a. DeployerTypeOK /\ StoreTypeOK /\ SchedulerTypeOK
  BY DEF TypeOK
<1>b. ASSUME NEW w \in Workers, deployments' = deployments,
             pc'[w] \notin DeployPC \ {"insert"},
             \A v \in Workers : v # w => /\ pc'[v] = pc[v] /\ st'[v] = st[v]
                                         /\ target'[v] = target[v] /\ dep'[v] = dep[v]
      PROVE  RecordInv'
  BY <1>b DEF RecordInv, RecordOf
<1>1. ASSUME NEW w \in Workers,
             \/ DeployTryLock(w) \/ DeploySave(w) \/ DeploySaveFailed(w)
             \/ StopStartStep(w) \/ ReconcileStep(w) \/ Api(w)
             \/ w = Poller /\ Tick
      PROVE  RecordInv'
  BY <1>1, <1>b, StepOutsideDeploy, StepIsLocal DEF DeployStep
<1>2. ASSUME NEW w \in Workers, DeployStep(w), pc[w] \in DeployPC, RecordOf(w)'
      PROVE  RecordInv'
  <2>1. \A v \in Workers : v # w => pc[v] \notin DeployPC
    BY <1>2 DEF LockInv
  <2>2. \A v \in Workers : v # w => pc'[v] = pc[v]
    BY <1>2, StepIsLocal
  <2> QED BY <1>2, <2>1, <2>2 DEF RecordInv
<1>3. ASSUME NEW w \in Workers, DeployInsert(w)
      PROVE  RecordInv'
  <2>1. row.current \in DigestMap /\ target[w] \in DigestMap
    BY <1>a, StateFields DEF StoreTypeOK, DeployerTypeOK
  <2>2. InsertDeployment(row.current, target[w]) /\ pc[w] = "insert"
        /\ pc'[w] = "mark" /\ dep'[w] = Len(deployments) + 1
        /\ st'[w] = row /\ target' = target
    BY <1>a, <1>3 DEF DeployInsert, Step, Goto, ReadState, DeployerTypeOK,
       SchedulerTypeOK
  <2>i. /\ Len(deployments') = Len(deployments) + 1
        /\ Len(deployments) + 1 \in DOMAIN deployments'
        /\ deployments'[Len(deployments) + 1] =
             [from |-> row.current, to |-> target[w], status |-> "in_progress"]
    BY <2>1, <2>2, <1>a, InsertEffect
  <2>3. RecordOf(w)'
    BY <2>2, <2>i DEF RecordOf
  <2> QED BY <1>2, <1>3, <2>2, <2>3 DEF DeployStep, DeployPC
<1>4. ASSUME NEW w \in Workers,
             DeployMark(w) \/ DeployWrite(w) \/ DeployUp(w) \/ RollbackWrite(w)
               \/ RollbackUp(w)
      PROVE  RecordInv'
  <2>1. /\ deployments' = deployments /\ dep' = dep /\ target' = target
        /\ st'[w].current = st[w].current
    BY <1>4, <1>a, SetStatusEffect
       DEF DeployMark, DeployWrite, DeployUp, RollbackWrite, RollbackUp,
       localVars, storeVars, DeployerTypeOK, ProjectState
  <2>2. pc[w] \in DeployPC \ {"insert"} /\ RecordOf(w)
    BY <1>4 DEF DeployMark, DeployWrite, DeployUp, RollbackWrite, RollbackUp, Step,
       DeployPC, RecordInv
  <2>3. \/ /\ pc[w] \in {"mark", "write", "up"}
           /\ pc'[w] \in {"write", "up", "health", "finishFailed"}
        \/ /\ pc[w] \in {"rbWrite", "rbUp"}
           /\ pc'[w] \in {"rbUp", "rbHealth", "saveFailed"}
    BY <1>4, <1>a DEF DeployMark, DeployWrite, DeployUp, RollbackWrite, RollbackUp,
       Step, Goto, SchedulerTypeOK
  <2>4. RecordOf(w)'
    BY <2>1, <2>2, <2>3 DEF RecordOf
  <2> QED BY <1>2, <1>4, <2>2, <2>4 DEF DeployStep
<1>5. ASSUME NEW w \in Workers,
             DeployHealth(w) \/ DeployFinishFailed(w) \/ RollbackHealth(w)
      PROVE  RecordInv'
  <2>1. /\ dep' = dep /\ target' = target /\ st'[w].current = st[w].current
    BY <1>5, <1>a, SetStatusEffect
       DEF DeployHealth, DeployFinishFailed, RollbackHealth, localVars
  <2>2. pc[w] \in DeployPC \ {"insert"} /\ RecordOf(w)
    BY <1>5 DEF DeployHealth, DeployFinishFailed, RollbackHealth, Step, DeployPC,
       RecordInv
  <2>3. dep[w] \in DOMAIN deployments
    BY <2>2 DEF RecordOf
  <2>4. \/ /\ pc[w] = "health" /\ pc'[w] = "save"
           /\ FinishDeployment(dep[w], "success")
        \/ /\ pc[w] = "health" /\ pc'[w] = "finishFailed"
           /\ deployments' = deployments
        \/ /\ pc[w] = "finishFailed" /\ pc'[w] \in {"saveFailed", "rbWrite"}
           /\ pc'[w] = "rbWrite" => st[w].current # EmptyMap
           /\ FinishDeployment(dep[w], "failed")
        \/ /\ pc[w] = "rbHealth" /\ pc'[w] = "saveFailed"
           /\ FinishDeployment(dep[w], "rolled_back")
        \/ /\ pc[w] = "rbHealth" /\ pc'[w] = "saveFailed"
           /\ deployments' = deployments
    BY <1>5, <1>a DEF DeployHealth, DeployFinishFailed, RollbackHealth, Step, Goto,
       SchedulerTypeOK
  <2>5. ASSUME NEW x \in DeployStatus, FinishDeployment(dep[w], x)
        PROVE  /\ deployments'[dep[w]].status = x
               /\ deployments'[dep[w]].from = deployments[dep[w]].from
               /\ deployments'[dep[w]].to = deployments[dep[w]].to
               /\ Len(deployments') = Len(deployments)
               /\ DOMAIN deployments' = DOMAIN deployments
    BY <2>3, <2>5, <1>a, FinishEffect
  <2>6. {"success", "failed", "rolled_back"} \subseteq DeployStatus
    BY DEF DeployStatus
  <2>7. RecordOf(w)'
    BY <2>1, <2>2, <2>4, <2>5, <2>6 DEF RecordOf
  <2> QED BY <1>2, <1>5, <2>2, <2>7 DEF DeployStep
<1>6. CASE Push
  BY <1>6 DEF Push, localVars, storeVars, RecordInv, RecordOf
<1>7. CASE Crash
  BY <1>7 DEF Crash, RecordInv, DeployPC
<1>8. CASE Boot
  BY <1>8 DEF Boot, BootResetStatus, BootResetDeployments, RecordInv, LockInv, DeployPC
<1>9. CASE UNCHANGED vars
  BY <1>9 DEF vars, deployerVars, RecordInv, RecordOf
<1> QED BY <1>1, <1>3, <1>4, <1>5, <1>6, <1>7, <1>8, <1>9 DEF Next, Work, DeployStep

-----------------------------------------------------------------------------
\* No target is empty, because a finished poll has a digest for every service.
LEMMA TargetStep ==
  ASSUME TypeOK, TargetInv, [Next]_vars
  PROVE  TargetInv'
<1>a. DeployerTypeOK /\ StoreTypeOK /\ SchedulerTypeOK
  BY DEF TypeOK
<1>b. ASSUME NEW w \in Workers, TargetOf(w)',
             \A v \in Workers : v # w =>
               /\ pc'[v] = pc[v] /\ st'[v] = st[v] /\ target'[v] = target[v]
               /\ todo'[v] = todo[v]
      PROVE  TargetInv'
  BY <1>b DEF TargetInv, TargetOf
<1>1. ASSUME NEW w \in Workers, DeployStep(w), UNCHANGED todo
      PROVE  TargetInv'
  <2>1. /\ pc[w] \in DeployPC \cup {"tryLock"}
        /\ \/ pc'[w] = "idle"
           \/ pc'[w] \in DeployPC /\ target' = target
    BY <1>1, <1>a DEF DeployStep, DeployTryLock, DeployInsert, DeployMark, DeployWrite,
       DeployUp, DeployHealth, DeploySave, DeployFinishFailed, RollbackWrite,
       RollbackUp, RollbackHealth, DeploySaveFailed, Step, Goto, Return, localVars,
       DeployPC, SchedulerTypeOK
  <2>2. TargetOf(w)'
    BY <2>1 DEF TargetOf, TargetInv, DeployPC
  <2> QED BY <1>b, <1>1, <2>2, StepIsLocal
<1>2. ASSUME NEW w \in Workers, StopStartStep(w), UNCHANGED todo
      PROVE  TargetInv'
  <2>1. pc'[w] \in StopPC \cup StartPC \cup {"idle"}
    BY <1>2, <1>a DEF StopStartStep, StopMark, StopDown, StopSave, StartMark,
       StartWrite, StartUp, StartSave, Step, Goto, Return, StopPC, StartPC,
       SchedulerTypeOK
  <2>2. TargetOf(w)'
    BY <2>1 DEF TargetOf, DeployPC, StopPC, StartPC
  <2> QED BY <1>b, <1>2, <2>2, StepIsLocal
<1>3. ASSUME NEW w \in Workers, ReconcileStep(w)
      PROVE  TargetInv'
  <2>1. \A v \in Workers : v # w => todo'[v] = todo[v]
    BY <1>3, <1>a DEF ReconcileStep, ReconcileCheck, ReconcilePoll, ReconcileDecide,
       SchedulerTypeOK
  <2>2. ASSUME ReconcileCheck(w)
        PROVE  TargetOf(w)'
    BY <2>2, <1>a DEF ReconcileCheck, Step, Goto, TargetOf, DeployPC, SchedulerTypeOK
  <2>3. ASSUME ReconcilePoll(w)
        PROVE  TargetOf(w)'
    <3>1. pc[w] = "poll"
      BY <2>3 DEF ReconcilePoll
    <3>2. CASE Return(w)
      BY <3>2, <1>a DEF Return, Goto, TargetOf, DeployPC, SchedulerTypeOK
    <3>3. CASE ~Return(w)
      <4>1. PICK s \in todo[w] :
               /\ st' = [st EXCEPT ![w].desired[s] = remote[s]]
               /\ todo' = [todo EXCEPT ![w] = @ \ {s}]
               /\ pc' = pc
        BY <2>3, <3>3 DEF ReconcilePoll
      <4>2. s \in Services /\ remote[s] \in Digests /\ st[w] \in ProjectState
        BY <4>1, <1>a DEF SchedulerTypeOK, DeployerTypeOK
      <4>3. st'[w].desired = [st[w].desired EXCEPT ![s] = remote[s]]
        BY <4>1, <4>2, <1>a DEF DeployerTypeOK, ProjectState
      <4>4. \A t \in Services \ todo'[w] : st'[w].desired[t] \in Digests
        BY <4>1, <4>2, <4>3, <3>1, <1>a, StateFields
           DEF TargetInv, TargetOf, DigestMap, SchedulerTypeOK
      <4> QED BY <4>1, <4>4, <3>1 DEF TargetOf, DeployPC
    <3> QED BY <3>2, <3>3
  <2>4. ASSUME ReconcileDecide(w)
        PROVE  TargetOf(w)'
    <3>1. \A s \in Services : st[w].desired[s] \in Digests
      BY <2>4 DEF ReconcileDecide, TargetInv, TargetOf
    <3>2. st[w].desired # EmptyMap
      BY <3>1 DEF EmptyMap
    <3> QED BY <2>4, <3>2, <1>a DEF ReconcileDecide, Return, Goto, TargetOf, DeployPC,
               SchedulerTypeOK, DeployerTypeOK
  <2> QED BY <1>b, <1>3, <2>1, <2>2, <2>3, <2>4, StepIsLocal DEF ReconcileStep
<1>4. ASSUME NEW w \in Workers, Api(w) \/ (w = Poller /\ Tick)
      PROVE  TargetInv'
  <2>1. /\ UNCHANGED todo
        /\ \/ pc'[w] \in {"check", "stopMark", "startMark"}
           \/ pc'[w] = "tryLock" /\ target'[w] # EmptyMap
    <3>1. CASE apiDeploy(w) \/ (w = Poller /\ Tick)
      BY <3>1, <1>a DEF apiDeploy, Tick, ReconcileBegin, Step, Goto, SchedulerTypeOK
    <3>2. CASE apiRollback(w)
      BY <3>2, <1>a DEF apiRollback, ManualRollback, Goto, SchedulerTypeOK,
         DeployerTypeOK
    <3>3. CASE apiStop(w) \/ apiStart(w)
      BY <3>3, <1>a DEF apiStop, apiStart, Stop, Start, Step, Goto, SchedulerTypeOK
    <3> QED BY <1>4, <3>1, <3>2, <3>3 DEF Api
  <2>2. TargetOf(w)'
    BY <2>1 DEF TargetOf, DeployPC
  <2> QED BY <1>b, <1>4, <2>1, <2>2, StepIsLocal
<1>5. CASE Push
  BY <1>5 DEF Push, localVars, TargetInv, TargetOf
<1>6. CASE Crash
  BY <1>6 DEF Crash, TargetInv, TargetOf, DeployPC
<1>7. CASE Boot
  BY <1>7 DEF Boot, BootResetStatus, BootResetDeployments, localVars, TargetInv, TargetOf
<1>8. CASE UNCHANGED vars
  BY <1>8 DEF vars, deployerVars, TargetInv, TargetOf
<1> QED BY <1>1, <1>2, <1>3, <1>4, <1>5, <1>6, <1>7, <1>8 DEF Next, Work

-----------------------------------------------------------------------------
\* Only three actions finish a record, each of them the worker's own, and none
\* that is already a success.
LEMMA FinishesOwnRecord ==
  ASSUME TypeOK, RecordInv, NEW w \in Workers,
         DeployHealth(w) \/ DeployFinishFailed(w) \/ RollbackHealth(w)
  PROVE  /\ dep[w] \in DOMAIN deployments /\ dep[w] = Len(deployments)
         /\ pc[w] \in DeployPC \ {"insert"}
         /\ \/ deployments' = deployments
            \/ /\ deployments[dep[w]].status = "in_progress"
               /\ \/ FinishDeployment(dep[w], "success")
                  \/ FinishDeployment(dep[w], "failed")
            \/ /\ deployments[dep[w]].status = "failed"
               /\ deployments[dep[w]].from # EmptyMap
               /\ FinishDeployment(dep[w], "rolled_back")
  BY DEF RecordInv, RecordOf, DeployHealth, DeployFinishFailed, RollbackHealth, Step,
     DeployPC

\* Any other step leaves the history alone, appends to it, or is the boot's.
LEMMA HistorySteps ==
  ASSUME TypeOK, [Next]_vars
  PROVE  \/ deployments' = deployments
         \/ \E w \in Workers : DeployInsert(w) \/ DeployHealth(w)
                               \/ DeployFinishFailed(w) \/ RollbackHealth(w)
         \/ BootResetDeployments
<1>1. ASSUME NEW w \in Workers, DeployStep(w)
      PROVE  \/ deployments' = deployments
             \/ DeployInsert(w) \/ DeployHealth(w)
             \/ DeployFinishFailed(w) \/ RollbackHealth(w)
  <2>1. CASE DeployMark(w) \/ DeployWrite(w) \/ DeployUp(w) \/ RollbackWrite(w)
               \/ RollbackUp(w)
    BY <2>1 DEF DeployMark, DeployWrite, DeployUp, RollbackWrite, RollbackUp, storeVars
  <2> QED BY <1>1, <2>1, StepOutsideDeploy DEF DeployStep
<1>2. CASE Push \/ Crash \/ BootResetStatus \/ UNCHANGED vars
  BY <1>2 DEF Push, Crash, BootResetStatus, storeVars, vars, deployerVars
<1> QED BY <1>1, <1>2, StepOutsideDeploy DEF Next, Work, Boot

\* Successful targets stay in the history.
LEMMA DeployedGrows ==
  ASSUME TypeOK, RecordInv, [Next]_vars
  PROVE  Deployed \subseteq Deployed'
<1>a. StoreTypeOK /\ \A w \in Workers : target[w] \in DigestMap
      /\ row.current \in DigestMap
  BY StateFields DEF TypeOK, StoreTypeOK, DeployerTypeOK
<1> SUFFICES ASSUME NEW i \in DOMAIN deployments, deployments[i].status = "success"
             PROVE  /\ i \in DOMAIN deployments'
                    /\ deployments'[i] = deployments[i]
  BY DEF Deployed
<1>1. CASE deployments' = deployments
  BY <1>1
<1>2. ASSUME NEW w \in Workers, DeployInsert(w)
      PROVE  i \in DOMAIN deployments' /\ deployments'[i] = deployments[i]
  BY <1>a, <1>2, InsertEffect DEF DeployInsert
<1>3. ASSUME NEW w \in Workers, NEW x \in DeployStatus, dep[w] \in DOMAIN deployments,
             deployments[dep[w]].status # "success", FinishDeployment(dep[w], x)
      PROVE  i \in DOMAIN deployments' /\ deployments'[i] = deployments[i]
  BY <1>a, <1>3, FinishEffect
<1>4. {"success", "failed", "rolled_back"} \subseteq DeployStatus
  BY DEF DeployStatus
<1>5. CASE BootResetDeployments
  BY <1>a, <1>5, ResetEffect DEF BootResetDeployments
<1> QED BY <1>1, <1>2, <1>3, <1>4, <1>5, HistorySteps, FinishesOwnRecord

\* Row and copies only ever hold digests from the row, a copy, or a Deploy that
\* has just recorded its success.
LEMMA CopiesStep ==
  ASSUME TypeOK, RecordInv, CopiesInv, [Next]_vars
  PROVE  CopiesInv'
<1>a. DeployerTypeOK /\ StoreTypeOK /\ SchedulerTypeOK /\ NewRow \in ProjectState
  BY NewRowType DEF TypeOK
<1> DEFINE Old(r) == /\ r \in ProjectState
                     /\ r.current \in Deployed /\ r.previous \in Deployed
<1>b. /\ Old(row) /\ Old(NewRow)
      /\ \A w \in Workers : Old(st[w])
  BY <1>a DEF CopiesInv, NewRow, Deployed, StoreTypeOK, DeployerTypeOK
<1>c. Deployed \subseteq Deployed'
  BY DeployedGrows
<1>d. ASSUME Old(row'), \A v \in Workers : Old(st'[v])
      PROVE  CopiesInv'
  BY <1>c, <1>d DEF CopiesInv
<1>e. ASSUME NEW r, Old(r), NEW x \in ProjectStatus, NEW m \in DigestMap
      PROVE  Old([r EXCEPT !.status = x]) /\ Old([r EXCEPT !.status = x, !.desired = m])
  BY <1>e DEF ProjectState
<1>f. \A w \in Workers : Return(w) => \A v \in Workers : Old(st'[v])
  BY <1>a, <1>b DEF Return, DeployerTypeOK
<1>g. \A w \in Workers, x \in ProjectStatus :
         SetStatus(w, x) => \A v \in Workers : Old(st'[v])
  <2> SUFFICES ASSUME NEW w \in Workers, NEW x \in ProjectStatus, SetStatus(w, x),
                      NEW v \in Workers
               PROVE  Old(st'[v])
    OBVIOUS
  <2>1. Old([st[w] EXCEPT !.status = x])
    BY <1>b, <1>e, NewRowType
  <2>2. st'[v] = IF v = w THEN [st[w] EXCEPT !.status = x] ELSE st[v]
    BY <1>a DEF SetStatus, DeployerTypeOK
  <2> HIDE DEF Old
  <2> QED BY <2>1, <2>2, <1>b
<1>h. \A w \in Workers : ReadState(w) => \A v \in Workers : Old(st'[v])
  BY <1>a, <1>b DEF ReadState, DeployerTypeOK
<1>i. st' = st => \A v \in Workers : Old(st'[v])
  BY <1>b
<1>j. {"failed", "rolled_back", "stopping", "stopped", "starting", "running", "deploying"}
         \subseteq ProjectStatus
  BY DEF ProjectStatus
<1> HIDE DEF Old
<1>1. ASSUME NEW w \in Workers, DeploySave(w)
      PROVE  CopiesInv'
  <2>1. target[w] \in Deployed
    BY <1>1 DEF DeploySave, RecordInv, RecordOf, DeployPC, Deployed
  <2>2. Old(Succeeded(st[w], target[w]))
    BY <2>1, <1>a, <1>b, DeployUpdates
       DEF Old, Succeeded, ProjectState, DeployerTypeOK
  <2> QED BY <1>1, <2>2, <1>d, <1>f DEF DeploySave, UpdateState
<1>2. ASSUME NEW w \in Workers, DeployMark(w)
      PROVE  CopiesInv'
  <2>1. \A v \in Workers : Old(st'[v])
    BY <1>2, <1>a, <1>b, <1>e, <1>j DEF DeployMark, DeployerTypeOK
  <2> QED BY <1>2, <2>1, <1>d DEF DeployMark, UpdateState
<1>3. ASSUME NEW w \in Workers, DeployTryLock(w) \/ DeployInsert(w) \/ DeployWrite(w)
               \/ DeployUp(w) \/ DeployHealth(w)
      PROVE  CopiesInv'
  BY <1>3, <1>b, <1>d, <1>f, <1>h, <1>i DEF DeployTryLock, DeployInsert, DeployWrite,
     DeployUp, DeployHealth, localVars, storeVars
<1>4. ASSUME NEW w \in Workers, DeployFinishFailed(w) \/ RollbackWrite(w)
               \/ RollbackUp(w) \/ RollbackHealth(w) \/ DeploySaveFailed(w)
      PROVE  CopiesInv'
  BY <1>4, <1>b, <1>d, <1>f, <1>g, <1>i, <1>j DEF DeployFinishFailed, RollbackWrite,
     RollbackUp, RollbackHealth, DeploySaveFailed, UpdateState, storeVars
<1>5. ASSUME NEW w \in Workers, StopStartStep(w)
      PROVE  CopiesInv'
  <2>1. CASE StopMark(w) \/ StartMark(w)
    BY <2>1, <1>d, <1>g, <1>j DEF StopMark, StartMark, UpdateState
  <2>2. CASE StopDown(w) \/ StartWrite(w) \/ StartUp(w)
    BY <2>2, <1>b, <1>d, <1>g, <1>i, <1>j DEF StopDown, StartWrite, StartUp, storeVars
  <2>3. CASE StopSave(w) \/ StartSave(w)
    BY <2>3, <1>b, <1>d, <1>f DEF StopSave, StartSave, UpdateState
  <2> QED BY <1>5, <2>1, <2>2, <2>3 DEF StopStartStep
<1>6. ASSUME NEW w \in Workers, ReconcileCheck(w) \/ ReconcileDecide(w)
      PROVE  CopiesInv'
  <2>1. row' = st[w]
    BY <1>6 DEF ReconcileCheck, ReconcileDecide, UpdateState
  <2>2. \A v \in Workers : Old(st'[v])
    <3>1. CASE st' = [st EXCEPT ![w] = NewRow]
      BY <3>1, <1>a, <1>b DEF DeployerTypeOK
    <3> QED BY <1>6, <3>1, <1>f, <1>i DEF ReconcileCheck, ReconcileDecide, localVars
  <2> QED BY <2>1, <2>2, <1>b, <1>d
<1>7. ASSUME NEW w \in Workers, ReconcilePoll(w)
      PROVE  CopiesInv'
  <2>1. CASE UpdateState(st[w]) /\ Return(w)
    BY <2>1, <1>b, <1>d, <1>f DEF UpdateState
  <2>2. CASE ~(UpdateState(st[w]) /\ Return(w))
    <3>1. PICK s \in todo[w] : st' = [st EXCEPT ![w].desired[s] = remote[s]] /\ row' = row
      BY <1>7, <2>2 DEF ReconcilePoll
    <3>2. s \in Services /\ remote[s] \in Digests
      BY <3>1, <1>a DEF SchedulerTypeOK, DeployerTypeOK
    <3>3. Old([st[w] EXCEPT !.desired[s] = remote[s]])
      BY <3>2, <1>a, <1>b, PollUpdate DEF Old, ProjectState
    <3>4. \A v \in Workers : Old(st'[v])
      BY <3>1, <3>3, <1>a, <1>b DEF DeployerTypeOK
    <3> QED BY <3>1, <3>4, <1>b, <1>d
  <2> QED BY <2>1, <2>2
<1>8. ASSUME NEW w \in Workers, Api(w) \/ (w = Poller /\ Tick)
      PROVE  CopiesInv'
  BY <1>8, <1>b, <1>d, <1>h, <1>i DEF Api, apiDeploy, apiRollback, apiStop, apiStart,
     Tick, ReconcileBegin, ManualRollback, Stop, Start, storeVars
<1>9. CASE Push \/ BootResetDeployments \/ UNCHANGED vars
  BY <1>9, <1>b, <1>d, <1>i DEF Push, BootResetDeployments, vars, deployerVars,
     storeVars, localVars
<1>10. CASE Crash
  BY <1>10, <1>b, <1>d DEF Crash, storeVars
<1>11. CASE BootResetStatus
  BY <1>11, <1>b, <1>d, <1>e, <1>i, <1>j, NewRowType DEF BootResetStatus,
     ResetStaleStatus, localVars
<1> QED BY <1>1, <1>2, <1>3, <1>4, <1>5, <1>6, <1>7, <1>8, <1>9, <1>10, <1>11
        DEF Next, Work, DeployStep, ReconcileStep, Boot

\* Only the newest record is in progress, and its owner holds the mutex.
LEMMA HistoryStep ==
  ASSUME TypeOK, LockInv, RecordInv, HistoryInv, [Next]_vars
  PROVE  HistoryInv'
<1>a. StoreTypeOK /\ DeployerTypeOK /\ SchedulerTypeOK
      /\ Len(deployments) \in Nat /\ DOMAIN deployments = 1..Len(deployments)
  BY DEF TypeOK, StoreTypeOK
<1>b. \A w \in Workers : pc[w] \in DeployPC => phase = "up" /\ lock = w
  BY DEF LockInv, DeployPC
<1>1. ASSUME NEW w \in Workers,
             StopStartStep(w) \/ ReconcileStep(w) \/ Api(w) \/ (w = Poller /\ Tick),
             phase' = phase
      PROVE  HistoryInv'
  <2>1. deployments' = deployments /\ lock' = lock
    BY <1>1, StepOutsideDeploy DEF StopStartStep, StopMark, StopDown, StopSave,
       StartMark, StartWrite, StartUp, StartSave, ReconcileStep, ReconcileCheck,
       ReconcilePoll, ReconcileDecide, Api, apiDeploy, apiRollback, apiStop, apiStart,
       Tick, ReconcileBegin, ManualRollback, Stop, Start
  <2>2. pc[w] \notin DeployPC
    BY <1>1 DEF StopStartStep, StopMark, StopDown, StopSave,
       StartMark, StartWrite, StartUp, StartSave, ReconcileStep, ReconcileCheck,
       ReconcilePoll, ReconcileDecide, Api, apiDeploy, apiRollback, apiStop, apiStart,
       Tick, ReconcileBegin, ManualRollback, Stop, Start, Step, DeployPC
  <2>3. lock # NoWorker => lock \in Workers /\ lock # w
    BY <1>a, <2>2 DEF LockInv, DeployerTypeOK
  <2>4. lock # NoWorker => dep'[lock] = dep[lock] /\ pc'[lock] = pc[lock]
    BY <1>1, <2>3, StepIsLocal
  <2> QED BY <1>1, <2>1, <2>4 DEF HistoryInv
<1>2. ASSUME NEW w \in Workers, DeployTryLock(w), phase' = phase
      PROVE  HistoryInv'
  <2>1. phase = "up" /\ deployments' = deployments
    BY <1>2, StepOutsideDeploy DEF DeployTryLock, LockInv
  <2>2. CASE lock = NoWorker
    BY <2>1, <2>2 DEF HistoryInv
  <2>3. CASE lock # NoWorker
    <3>1. lock' = lock /\ lock \in Workers /\ pc[lock] \in DeployPC
      BY <1>2, <2>3, <1>a DEF DeployTryLock, LockInv, DeployerTypeOK
    <3>2. lock # w
      BY <3>1, <1>2 DEF DeployTryLock, DeployPC
    <3>3. dep'[lock] = dep[lock] /\ pc'[lock] = pc[lock]
      BY <1>2, <3>1, <3>2, StepIsLocal DEF DeployStep
    <3> QED BY <1>2, <2>1, <3>1, <3>3 DEF HistoryInv
  <2> QED BY <2>2, <2>3
<1>3. ASSUME NEW w \in Workers, DeployInsert(w), phase' = phase
      PROVE  HistoryInv'
  <2>1. /\ row.current \in DigestMap /\ target[w] \in DigestMap
        /\ InsertDeployment(row.current, target[w])
        /\ pc[w] = "insert" /\ pc'[w] = "mark" /\ lock' = lock
        /\ dep'[w] = Len(deployments) + 1
    BY <1>3, <1>a, StateFields DEF DeployInsert, Step, Goto, StoreTypeOK,
       DeployerTypeOK, SchedulerTypeOK
  <2>2. phase = "up" /\ lock = w
    BY <2>1, <1>b DEF DeployPC
  <2>3. \A i \in DOMAIN deployments : deployments[i].status # "in_progress"
    BY <2>1, <2>2 DEF HistoryInv
  <2>4. /\ Len(deployments') = Len(deployments) + 1
        /\ DOMAIN deployments' = DOMAIN deployments \cup {Len(deployments) + 1}
        /\ \A i \in DOMAIN deployments : deployments'[i] = deployments[i]
    BY <2>1, <1>a, InsertEffect
  <2>5. \A i \in DOMAIN deployments' :
           deployments'[i].status = "in_progress" => i = Len(deployments')
    BY <2>3, <2>4
  <2> QED BY <1>a, <2>1, <2>2, <2>4, <2>5, <1>3 DEF HistoryInv
<1>4. ASSUME NEW w \in Workers, phase' = phase,
             DeployMark(w) \/ DeployWrite(w) \/ DeployUp(w) \/ RollbackWrite(w)
               \/ RollbackUp(w)
      PROVE  HistoryInv'
  <2>1. /\ deployments' = deployments /\ lock' = lock /\ dep' = dep
        /\ pc[w] \in DeployPC /\ pc'[w] # "insert"
    BY <1>4, <1>a DEF DeployMark, DeployWrite, DeployUp, RollbackWrite, RollbackUp,
       Step, Goto, localVars, storeVars, DeployPC, SchedulerTypeOK
  <2> QED BY <1>4, <1>b, <2>1 DEF HistoryInv
<1>5. ASSUME NEW w \in Workers, phase' = phase,
             DeployHealth(w) \/ DeployFinishFailed(w) \/ RollbackHealth(w)
      PROVE  HistoryInv'
  <2>1. /\ lock' = lock /\ dep' = dep /\ pc'[w] # "insert" /\ lock = w /\ phase = "up"
        /\ dep[w] \in DOMAIN deployments
    BY <1>5, <1>a, <1>b, FinishesOwnRecord DEF DeployHealth, DeployFinishFailed,
       RollbackHealth, Step, Goto, localVars, SchedulerTypeOK
  <2>2. CASE deployments' = deployments
    BY <1>5, <2>1, <2>2 DEF HistoryInv
  <2>3. ASSUME NEW x \in DeployStatus \ {"in_progress"}, FinishDeployment(dep[w], x)
        PROVE  HistoryInv'
    <3>1. /\ Len(deployments') = Len(deployments)
          /\ DOMAIN deployments' = DOMAIN deployments
          /\ \A i \in DOMAIN deployments : i # dep[w] => deployments'[i] = deployments[i]
          /\ deployments'[dep[w]].status = x
      BY <2>1, <2>3, <1>a, FinishEffect
    <3> QED BY <1>5, <2>1, <3>1 DEF HistoryInv
  <2>4. {"success", "failed", "rolled_back"} \subseteq DeployStatus \ {"in_progress"}
    BY DEF DeployStatus
  <2> QED BY <1>5, <2>2, <2>3, <2>4, FinishesOwnRecord
<1>6. ASSUME NEW w \in Workers, DeploySave(w) \/ DeploySaveFailed(w), phase' = phase
      PROVE  HistoryInv'
  <2>1. deployments' = deployments
    BY <1>6, StepOutsideDeploy
  <2>2. pc[w] \in {"save", "saveFailed"} /\ lock = w /\ phase = "up" /\ RecordOf(w)
    BY <1>6, <1>b DEF DeploySave, DeploySaveFailed, RecordInv, DeployPC
  <2>3. deployments[dep[w]].status # "in_progress"
    BY <2>2 DEF RecordOf
  <2> QED BY <2>1, <2>2, <2>3 DEF HistoryInv
<1>7. CASE Push \/ UNCHANGED vars
  BY <1>7 DEF Push, vars, deployerVars, daemonVars, storeVars, localVars, HistoryInv
<1>8. CASE Crash \/ BootResetStatus
  BY <1>8 DEF Crash, BootResetStatus, storeVars, HistoryInv
<1>9. CASE BootResetDeployments
  BY <1>9, <1>a, ResetEffect DEF BootResetDeployments, HistoryInv
<1> QED BY <1>1, <1>2, <1>3, <1>4, <1>5, <1>6, <1>7, <1>8, <1>9
        DEF Next, Work, DeployStep, Boot, Api, apiDeploy, apiRollback, apiStop, apiStart,
            Request, Tick, daemonVars
-----------------------------------------------------------------------------
\* The initial state satisfies the invariant.
LEMMA InitInv == Init => TypeOK /\ IInv
<1> SUFFICES ASSUME Init PROVE TypeOK /\ IInv
  OBVIOUS
<1> USE NewRowType DEF Init, CreateProject, DeployerInit, SchedulerInit
<1>1. StoreTypeOK
  BY DEF StoreTypeOK
<1>2. override \in Overrides
  <2>1. override \in [{} -> Digests]
    OBVIOUS
  <2> QED BY <2>1 DEF Overrides
<1>3. TypeOK
  BY <1>1, <1>2 DEF TypeOK, DeployerTypeOK, SchedulerTypeOK
<1>4. CopiesInv
  BY DEF CopiesInv, NewRow, Deployed
<1>5. LockInv /\ RecordInv /\ TargetInv /\ HistoryInv
  BY DEF LockInv, RecordInv, TargetInv, TargetOf, HistoryInv, DeployPC
<1> QED BY <1>3, <1>4, <1>5 DEF IInv

\* TypeOK and IInv hold in every reachable state of the daemon, whatever the
\* interleaving of polls, requests, failures, crashes and restarts.
THEOREM Invariance == Spec => [](TypeOK /\ IInv)
<1>1. TypeOK /\ IInv /\ [Next]_vars => (TypeOK /\ IInv)'
  BY TypeStep, LockStep, RecordStep, TargetStep, CopiesStep, HistoryStep DEF IInv
<1> QED BY <1>1, InitInv, PTL DEF Spec

\* A deployment record is in progress only while the worker that inserted it
\* holds the project's mutex, or until the next boot has reset it.
THEOREM Ownership == Spec => []InProgressIsOwned
<1>1. IInv => InProgressIsOwned
  BY DEF IInv, HistoryInv, InProgressIsOwned
<1> QED BY <1>1, Invariance, PTL

\* The row's current and previous digests were deployed successfully: stale
\* writes of the row and crashes between Deploy's two saves cannot break it.
THEOREM RecordedDigests == Spec => []DigestsWereDeployed
<1>1. IInv => DigestsWereDeployed
  BY DEF IInv, CopiesInv, DigestsWereDeployed
<1> QED BY <1>1, Invariance, PTL

\* A step of the daemon is a step of DeploymentLog, or leaves the history alone.
LEMMA HistoryRefines ==
  ASSUME TypeOK, IInv, [Next]_vars
  PROVE  [Log!LogNext]_deployments
<1>a. StoreTypeOK /\ row.current \in DigestMap /\ RecordInv
      /\ \A w \in Workers : target[w] \in DigestMap
  BY StateFields DEF TypeOK, StoreTypeOK, DeployerTypeOK, IInv
<1>1. ASSUME NEW w \in Workers, DeployInsert(w)
      PROVE  Log!LogNext
  <2>1. pc[w] = "insert" /\ lock = w /\ phase = "up"
    BY <1>1 DEF DeployInsert, Step, IInv, LockInv, DeployPC
  <2>2. \A i \in DOMAIN deployments : deployments[i].status # "in_progress"
    BY <2>1 DEF IInv, HistoryInv
  <2>3. row.current = EmptyMap \/ Log!Deployed(row.current)
    BY DEF IInv, CopiesInv, Deployed, Log!Deployed
  <2>4. target[w] # EmptyMap
    BY <2>1 DEF IInv, TargetInv, TargetOf, DeployPC
  <2>5. Log!Open(row.current, target[w])
    BY <1>1, <2>2, <2>3, <2>4 DEF DeployInsert, InsertDeployment, Log!Open
  <2> QED BY <1>a, <2>5 DEF Log!LogNext
<1>2. ASSUME NEW w \in Workers,
             DeployHealth(w) \/ DeployFinishFailed(w) \/ RollbackHealth(w)
      PROVE  Log!LogNext \/ deployments' = deployments
  <2>1. ASSUME FinishDeployment(dep[w], "success") \/ FinishDeployment(dep[w], "failed"),
               deployments[dep[w]].status = "in_progress"
        PROVE  \E s \in {"success", "failed"} : Log!Close(dep[w], s)
    BY <2>1 DEF FinishDeployment, Log!Close
  <2>2. ASSUME FinishDeployment(dep[w], "rolled_back"), dep[w] = Len(deployments),
               deployments[dep[w]].status = "failed",
               deployments[dep[w]].from # EmptyMap
        PROVE  Log!RollBack(dep[w])
    BY <2>2 DEF FinishDeployment, Log!RollBack
  <2> QED BY <1>2, <1>a, <2>1, <2>2, FinishesOwnRecord DEF Log!LogNext
<1>3. ASSUME BootResetDeployments
      PROVE  Log!LogNext \/ deployments' = deployments
  <2>1. /\ ResetStaleDeployments
        /\ \A i \in DOMAIN deployments :
             deployments[i].status = "in_progress" => i = Len(deployments)
    BY <1>3 DEF BootResetDeployments, IInv, HistoryInv
  <2>2. CASE \E i \in DOMAIN deployments : deployments[i].status = "in_progress"
    <3>1. PICK i \in DOMAIN deployments : deployments[i].status = "in_progress"
      BY <2>2
    <3>2. deployments' = [deployments EXCEPT ![i].status = "failed"]
      BY <2>1, <3>1, <1>a DEF ResetStaleDeployments, StoreTypeOK
    <3>3. Log!Close(i, "failed")
      BY <3>1, <3>2 DEF Log!Close
    <3> QED BY <3>1, <3>3 DEF Log!LogNext
  <2>3. CASE \A i \in DOMAIN deployments : deployments[i].status # "in_progress"
    BY <2>1, <2>3, <1>a DEF ResetStaleDeployments, StoreTypeOK
  <2> QED BY <2>2, <2>3
<1> QED BY <1>1, <1>2, <1>3, HistorySteps

\* The history of the daemon's deployments implements DeploymentLog: one record
\* in progress at a time, from digests deployed before, ended once, and rolled
\* back only as the newest failed one, across all interleavings and crashes.
THEOREM HistoryRefinement == Spec => LogRefinement
<1>1. Init => Log!LogInit
  BY DEF Init, CreateProject, Log!LogInit
<1>2. TypeOK /\ IInv /\ [Next]_vars => [Log!LogNext]_deployments
  BY HistoryRefines
<1> QED BY <1>1, <1>2, Invariance, PTL DEF Spec, LogRefinement, Log!LogSpec

-----------------------------------------------------------------------------
(* The polling loop by itself: no request competes with it, so that its    *)
(* copy of the row is never stale.                                         *)

\* Digests for every service: what a finished poll deploys.
Complete == [Services -> Digests]

\* Deploy has marked the row.
Marked == DeployPC \ {"insert", "mark"}

\* The row and the loop's copy of it.
RowInv ==
    /\ pc[Poller] \notin StopPC \cup StartPC
    /\ row.current \in {EmptyMap} \cup Complete
    /\ phase # "down" /\ row.status = "deploying" => pc[Poller] \in Marked
    /\ pc[Poller] \in Marked => row.status = "deploying"
    /\ pc[Poller] \in Marked \cup {"check", "poll", "mark"} => st[Poller].current = row.current
    /\ pc[Poller] \in {"check", "poll"} => st[Poller].status = row.status
    /\ pc[Poller] \in DeployPC \cup {"tryLock"} => target[Poller] \in Complete

\* The compose files and the containers follow Deploy's progress.
HostInv ==
    /\ row.status \in {"running", "rolled_back"} /\ row.current # EmptyMap =>
          containers = row.current
    /\ pc[Poller] = "up" => override = target[Poller]
    /\ pc[Poller] \in {"health", "save"} => containers = target[Poller]
    /\ pc[Poller] = "rbUp" => override = st[Poller].current
    /\ pc[Poller] = "rbHealth" => containers = st[Poller].current
    /\ pc[Poller] = "saveFailed" =>
          \/ st[Poller].status = "failed"
          \/ st[Poller].status = "rolled_back" /\ containers = st[Poller].current

AloneInv == RowInv /\ HostInv

\* A map with a digest for every service is its own override file.
LEMMA PinsAll ==
  ASSUME NEW m \in Complete
  PROVE  buildImageOverrides(m) = m
<1>1. {t \in Services : m[t] # NoDigest} = Services
  BY DEF Complete
<1> QED BY <1>1 DEF buildImageOverrides, Complete

\* compose up with every service pinned runs the pins.
LEMMA UpRunsPins ==
  ASSUME override \in Complete, composeUp
  PROVE  containers' = override
<1>1. \A s \in Services : Image(s) = override[s]
  BY DEF Image, Complete
<1> QED BY <1>1 DEF composeUp, Complete

\* A poll's steps do not touch the host, and write back what they read.
LEMMA AlonePoll ==
  ASSUME TypeOK, IInv, AloneInv, Tick \/ (ReconcileStep(Poller) /\ UNCHANGED daemonVars)
  PROVE  AloneInv'
<1> DEFINE p == Poller
<1>1. Poller \in Workers
  OBVIOUS
<1>2. /\ pc \in [Workers -> {"idle", "tryLock"} \cup DeployPC \cup StopPC \cup StartPC \cup ReconcilePC]
      /\ st \in [Workers -> ProjectState] /\ target \in [Workers -> DigestMap]
      /\ row \in ProjectState /\ todo \in [Workers -> SUBSET Services]
      /\ st[p] \in ProjectState /\ remote \in [Services -> Digests]
  BY DEF TypeOK, StoreTypeOK, DeployerTypeOK, SchedulerTypeOK
<1>3. UNCHANGED <<override, containers>> /\ phase' = phase
  BY DEF Tick, ReconcileBegin, ReconcileStep, ReconcileCheck, ReconcilePoll, ReconcileDecide,
         hostVars, daemonVars
<1>4. pc[p] # "idle" => phase = "up"
  BY <1>1 DEF IInv, LockInv
<1>5. CASE Tick
  <2>1. pc[p] = "idle" /\ pc'[p] = "check" /\ st'[p] = row /\ row' = row /\ target' = target
    BY <1>2, <1>5 DEF Tick, ReconcileBegin, Step, Goto, ReadState, storeVars
  <2> QED BY <1>3, <2>1 DEF AloneInv, RowInv, HostInv, Marked, DeployPC, StopPC, StartPC
<1>6. CASE ReconcileCheck(p)
  <2>1. pc[p] = "check" /\ pc'[p] = "poll" /\ st' = st /\ row' = st[p] /\ target' = target
    BY <1>2, <1>6 DEF ReconcileCheck, Step, Goto, UpdateState, localVars
  <2> QED BY <1>3, <1>4, <2>1 DEF AloneInv, RowInv, HostInv, Marked, DeployPC, StopPC, StartPC
<1>7. CASE ReconcilePoll(p)
  <2>1. PICK s \in todo[p] :
          \/ /\ st' = [st EXCEPT ![p].desired[s] = remote[s]]
             /\ UNCHANGED <<pc, target, dep, row, faults>>
          \/ /\ UpdateState(st[p]) /\ Return(p)
    BY <1>7 DEF ReconcilePoll
  <2>2. CASE /\ st' = [st EXCEPT ![p].desired[s] = remote[s]]
             /\ UNCHANGED <<pc, target, dep, row, faults>>
    <3>1. st'[p].current = st[p].current /\ st'[p].status = st[p].status /\ pc[p] = "poll"
      BY <1>2, <1>7, <2>2 DEF ReconcilePoll, ProjectState
    <3> QED BY <1>3, <2>2, <3>1 DEF AloneInv, RowInv, HostInv, Marked, DeployPC
  <2>3. CASE UpdateState(st[p]) /\ Return(p)
    <3>1. pc[p] = "poll" /\ pc'[p] = "idle" /\ row' = st[p]
      BY <1>2, <1>7, <2>3 DEF ReconcilePoll, UpdateState, Return, Goto
    <3> QED BY <1>3, <1>4, <3>1 DEF AloneInv, RowInv, HostInv, Marked, DeployPC, StopPC, StartPC
  <2> QED BY <2>1, <2>2, <2>3
<1>8. CASE ReconcileDecide(p)
  <2>1. pc[p] = "poll" /\ todo[p] = {} /\ row' = st[p]
    BY <1>8 DEF ReconcileDecide, UpdateState
  <2>2. CASE Return(p)
    <3>1. pc'[p] = "idle"
      BY <1>2, <2>2 DEF Return, Goto
    <3> QED BY <1>3, <1>4, <2>1, <3>1 DEF AloneInv, RowInv, HostInv, Marked, DeployPC, StopPC, StartPC
  <2>3. CASE Goto(p, "tryLock") /\ target' = [target EXCEPT ![p] = st[p].desired]
    <3>1. pc'[p] = "tryLock" /\ target'[p] = st[p].desired
      BY <1>2, <2>3 DEF Goto
    <3>2. st[p].desired \in Complete
      <4>1. \A s \in Services : st[p].desired[s] \in Digests
        BY <1>1, <2>1 DEF IInv, TargetInv, TargetOf
      <4>2. st[p].desired \in DigestMap
        BY <1>2 DEF ProjectState
      <4> QED BY <4>1, <4>2 DEF Complete, DigestMap
    <3> QED BY <1>3, <1>4, <2>1, <3>1, <3>2
            DEF AloneInv, RowInv, HostInv, Marked, DeployPC, StopPC, StartPC
  <2> QED BY <1>8, <2>2, <2>3 DEF ReconcileDecide
<1> QED BY <1>5, <1>6, <1>7, <1>8 DEF ReconcileStep

\* A deployment marks the row before it touches the host and unmarks it when
\* the containers run what it says.
LEMMA AloneDeploy ==
  ASSUME TypeOK, IInv, AloneInv, DeployStep(Poller), UNCHANGED daemonVars
  PROVE  AloneInv'
<1> DEFINE p == Poller
<1>1. Poller \in Workers
  OBVIOUS
<1>2. /\ pc \in [Workers -> {"idle", "tryLock"} \cup DeployPC \cup StopPC \cup StartPC \cup ReconcilePC]
      /\ st \in [Workers -> ProjectState] /\ target \in [Workers -> DigestMap]
      /\ row \in ProjectState /\ st[p] \in ProjectState
  BY DEF TypeOK, StoreTypeOK, DeployerTypeOK, SchedulerTypeOK
<1>3. phase' = phase /\ (pc[p] # "idle" => phase = "up")
  BY <1>1 DEF IInv, LockInv, daemonVars
<1>4. pc[p] \in {"rbWrite", "rbUp", "rbHealth"} => st[p].current \in Complete
  <2>1. pc[p] \in {"rbWrite", "rbUp", "rbHealth"} => st[p].current # EmptyMap
    BY <1>1 DEF IInv, RecordInv, RecordOf, DeployPC
  <2> QED BY <2>1 DEF AloneInv, RowInv, Marked, DeployPC
<1> USE DEF AloneInv, RowInv, HostInv, Marked, DeployPC, StopPC, StartPC
<1>5. CASE DeployTryLock(p)
  <2>1. /\ pc[p] = "tryLock" /\ UNCHANGED <<row, override, containers>>
        /\ \/ pc'[p] = "insert" /\ target' = target
           \/ pc'[p] = "idle"
    BY <1>2, <1>5 DEF DeployTryLock, Goto, Return, hostVars, storeVars, localVars
  <2> QED BY <1>3, <2>1
<1>6. CASE DeployInsert(p)
  <2>1. /\ pc[p] = "insert" /\ pc'[p] = "mark" /\ st'[p] = row /\ target' = target
        /\ UNCHANGED <<row, override, containers>>
    BY <1>2, <1>6 DEF DeployInsert, Step, Goto, ReadState, hostVars
  <2> QED BY <1>3, <2>1
<1>7. CASE DeployMark(p)
  <2>1. /\ pc[p] = "mark" /\ pc'[p] = "write" /\ target' = target /\ row' = st'[p]
        /\ UNCHANGED <<override, containers>>
    BY <1>2, <1>7 DEF DeployMark, Step, Goto, UpdateState, hostVars
  <2>2. st'[p].status = "deploying" /\ st'[p].current = st[p].current
    BY <1>2, <1>7 DEF DeployMark, ProjectState
  <2> QED BY <1>3, <2>1, <2>2
<1>8. CASE DeployWrite(p)
  <2>1. /\ pc[p] = "write" /\ UNCHANGED <<target, st, row, containers>>
        /\ \/ pc'[p] = "up" /\ override' = buildImageOverrides(target[p])
           \/ pc'[p] = "finishFailed"
    BY <1>2, <1>8 DEF DeployWrite, Step, Goto, WriteComposeFiles, localVars, storeVars
  <2>2. buildImageOverrides(target[p]) = target[p]
    BY <2>1, PinsAll
  <2> QED BY <1>3, <2>1, <2>2
<1>9. CASE DeployUp(p)
  <2>1. /\ pc[p] = "up" /\ UNCHANGED <<target, st, row, override>>
        /\ \/ pc'[p] = "health" /\ composeUp
           \/ pc'[p] = "finishFailed"
    BY <1>2, <1>9 DEF DeployUp, Step, Goto, localVars, storeVars
  <2>2. composeUp => containers' = target[p]
    BY <2>1, UpRunsPins
  <2> QED BY <1>3, <2>1, <2>2
<1>10. CASE DeployHealth(p)
  <2>1. /\ pc[p] = "health" /\ UNCHANGED <<target, st, row, override, containers>>
        /\ pc'[p] \in {"save", "finishFailed"}
    BY <1>2, <1>10 DEF DeployHealth, Step, Goto, localVars, hostVars
  <2> QED BY <1>3, <2>1
<1>11. CASE DeploySave(p)
  <2>1. /\ pc[p] = "save" /\ pc'[p] = "idle" /\ row' = Succeeded(st[p], target[p])
        /\ UNCHANGED <<override, containers>>
    BY <1>2, <1>11 DEF DeploySave, Return, Goto, UpdateState, hostVars
  <2>2. row'.status = "running" /\ row'.current = target[p]
    BY <1>2, <2>1 DEF Succeeded, ProjectState
  <2> QED BY <1>3, <2>1, <2>2
<1>12. CASE DeployFinishFailed(p)
  <2>1. /\ pc[p] = "finishFailed" /\ UNCHANGED <<target, row, override, containers>>
        /\ \/ pc'[p] = "saveFailed" /\ SetStatus(p, "failed")
           \/ pc'[p] = "rbWrite" /\ st' = st
    BY <1>2, <1>12 DEF DeployFinishFailed, Goto, hostVars
  <2>2. SetStatus(p, "failed") => st'[p].status = "failed" /\ st'[p].current = st[p].current
    BY <1>2 DEF SetStatus, ProjectState
  <2> QED BY <1>3, <2>1, <2>2
<1>13. CASE RollbackWrite(p)
  <2>1. /\ pc[p] = "rbWrite" /\ UNCHANGED <<target, row, containers>>
        /\ \/ pc'[p] = "rbUp" /\ st' = st /\ override' = buildImageOverrides(st[p].current)
           \/ pc'[p] = "saveFailed" /\ SetStatus(p, "failed")
    BY <1>2, <1>13 DEF RollbackWrite, Step, Goto, WriteComposeFiles, storeVars
  <2>2. SetStatus(p, "failed") => st'[p].status = "failed" /\ st'[p].current = st[p].current
    BY <1>2 DEF SetStatus, ProjectState
  <2>3. buildImageOverrides(st[p].current) = st[p].current
    BY <1>4, <2>1, PinsAll
  <2> QED BY <1>3, <2>1, <2>2, <2>3
<1>14. CASE RollbackUp(p)
  <2>1. /\ pc[p] = "rbUp" /\ UNCHANGED <<target, row, override>>
        /\ \/ pc'[p] = "rbHealth" /\ st' = st /\ composeUp
           \/ pc'[p] = "saveFailed" /\ SetStatus(p, "failed")
    BY <1>2, <1>14 DEF RollbackUp, Step, Goto, storeVars
  <2>2. SetStatus(p, "failed") => st'[p].status = "failed" /\ st'[p].current = st[p].current
    BY <1>2 DEF SetStatus, ProjectState
  <2>3. composeUp => containers' = st[p].current
    BY <1>4, <2>1, UpRunsPins
  <2> QED BY <1>3, <2>1, <2>2, <2>3
<1>15. CASE RollbackHealth(p)
  <2>1. /\ pc[p] = "rbHealth" /\ pc'[p] = "saveFailed" /\ UNCHANGED <<target, row, override, containers>>
        /\ SetStatus(p, "rolled_back") \/ SetStatus(p, "failed")
    BY <1>2, <1>15 DEF RollbackHealth, Step, Goto, hostVars
  <2>2. st'[p].status \in {"failed", "rolled_back"} /\ st'[p].current = st[p].current
    BY <1>2, <2>1 DEF SetStatus, ProjectState
  <2> QED BY <1>3, <2>1, <2>2
<1>16. CASE DeploySaveFailed(p)
  <2>1. /\ pc[p] = "saveFailed" /\ pc'[p] = "idle" /\ row' = st[p]
        /\ UNCHANGED <<override, containers>>
    BY <1>2, <1>16 DEF DeploySaveFailed, Return, Goto, UpdateState, hostVars
  <2> QED BY <1>3, <2>1
<1> QED BY <1>5, <1>6, <1>7, <1>8, <1>9, <1>10, <1>11, <1>12, <1>13, <1>14, <1>15, <1>16 DEF DeployStep

\* A restart resets the mark that a crash has left, before the loop runs again.
LEMMA AloneDaemon ==
  ASSUME TypeOK, IInv, AloneInv, Push \/ Crash \/ Boot \/ UNCHANGED vars
  PROVE  AloneInv'
<1>1. Poller \in Workers
  OBVIOUS
<1> USE DEF AloneInv, RowInv, HostInv, Marked, DeployPC, StopPC, StartPC
<1>2. CASE Push
  BY <1>2 DEF Push, storeVars, localVars, hostVars
<1>3. CASE Crash
  <2>1. pc'[Poller] = "idle" /\ phase' = "down" /\ UNCHANGED <<row, override, containers>>
    BY <1>1, <1>3 DEF Crash, storeVars, hostVars
  <2> QED BY <2>1
<1>4. CASE BootResetStatus
  <2>1. pc[Poller] = "idle" /\ UNCHANGED <<pc, override, containers>>
    BY <1>1, <1>4 DEF BootResetStatus, hostVars, IInv, LockInv
  <2>2. /\ row'.status # "deploying" /\ row'.current = row.current
        /\ row'.status \in {"failed", row.status}
    BY <1>4 DEF BootResetStatus, ResetStaleStatus, TypeOK, StoreTypeOK, ProjectState
  <2> QED BY <2>1, <2>2
<1>5. CASE BootResetDeployments
  BY <1>5 DEF BootResetDeployments, localVars, hostVars
<1>6. CASE UNCHANGED vars
  BY <1>6 DEF vars, deployerVars, daemonVars
<1> QED BY <1>2, <1>3, <1>4, <1>5, <1>6 DEF Boot

\* The loop's invariant holds throughout when there are no request goroutines.
LEMMA AloneInvariance == Requests = {} => (Spec => []AloneInv)
<1> SUFFICES ASSUME Requests = {}
             PROVE  Spec => []AloneInv
  OBVIOUS
<1>1. Init => AloneInv
  BY DEF Init, CreateProject, DeployerInit, NewRow, AloneInv, RowInv, HostInv, Marked, DeployPC,
         StopPC, StartPC
<1>2. TypeOK /\ IInv /\ AloneInv /\ [Next]_vars => AloneInv'
  <2> SUFFICES ASSUME TypeOK, IInv, AloneInv, [Next]_vars
               PROVE  AloneInv'
    OBVIOUS
  <2>1. Workers = {Poller}
    OBVIOUS
  <2>2. ~StopStartStep(Poller)
    BY DEF AloneInv, RowInv, StopPC, StartPC, StopStartStep, StopMark, StopDown, StopSave, StartMark,
           StartWrite, StartUp, StartSave, Step
  <2>3. \/ Tick \/ (ReconcileStep(Poller) /\ UNCHANGED daemonVars)
        \/ (DeployStep(Poller) /\ UNCHANGED daemonVars)
        \/ Push \/ Crash \/ Boot \/ UNCHANGED vars
    BY <2>1, <2>2 DEF Next, Work
  <2> QED BY <2>3, AlonePoll, AloneDeploy, AloneDaemon
<1> QED BY <1>1, <1>2, Invariance, PTL DEF Spec

\* When only the polling loop deploys, a row that says "deploying" is never
\* left over: whenever the daemon is up, somebody holds the mutex.
THEOREM MarkHasDeployer == Requests = {} => (Spec => []DeployingHasDeployer)
<1> SUFFICES ASSUME Requests = {}
             PROVE  Spec => []DeployingHasDeployer
  OBVIOUS
<1>1. TypeOK /\ IInv /\ AloneInv => DeployingHasDeployer
  <2> SUFFICES ASSUME TypeOK, IInv, AloneInv, phase = "up", row.status = "deploying"
               PROVE  lock # NoWorker
    BY DEF DeployingHasDeployer
  <2>1. pc[Poller] \in DeployPC
    BY DEF AloneInv, RowInv, Marked
  <2>2. lock = Poller
    BY <2>1 DEF IInv, LockInv
  <2> QED BY <2>2
<1> QED BY <1>1, AloneInvariance, Invariance, PTL

\* When only the polling loop deploys, a project at rest that is running or was
\* rolled back runs the recorded digests, after any failures and crashes.
THEOREM RunsWhatIsRecorded == Requests = {} => (Spec => []RecordedIsRunning)
<1> SUFFICES ASSUME Requests = {}
             PROVE  Spec => []RecordedIsRunning
  OBVIOUS
<1>1. AloneInv => RecordedIsRunning
  BY DEF AloneInv, HostInv, RecordedIsRunning
<1> QED BY <1>1, AloneInvariance, PTL
=============================================================================
