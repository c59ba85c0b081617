---------------------------- MODULE ProjectStore ----------------------------
(***************************************************************************)
(* The rows bbsit keeps in SQLite for ONE project (internal/db/db.go): its *)
(* project_state row and its deployments table.  Every operator below is   *)
(* one SQL statement, which SQLite runs atomically.                        *)
(*                                                                         *)
(* A Go map[string]string from service name to digest is a total function  *)
(* that is NoDigest on the keys the map lacks (reading a missing key gives *)
(* "" in Go too).  Timestamps, triggers and error texts are left out.      *)
(***************************************************************************)
EXTENDS Naturals, Sequences

CONSTANTS
    Services,   \* the project's polled services (types.Project.PolledServices)
    Digests,    \* image digests the registry can serve
    NoDigest    \* the empty string

ASSUME StoreAssumption == Services # {} /\ NoDigest \notin Digests

VARIABLES
    row,          \* the project's row of project_state
    deployments   \* the project's deployments rows, in order of their id

storeVars == <<row, deployments>>

DigestMap == [Services -> Digests \cup {NoDigest}]

\* len(m) == 0
EmptyMap == [s \in Services |-> NoDigest]

ProjectStatus == {"unknown", "running", "stopped", "stopping", "starting",
                  "deploying", "failed", "rolled_back"}

DeployStatus == {"in_progress", "success", "failed", "rolled_back"}

ProjectState == [status: ProjectStatus, desired: DigestMap,
                 current: DigestMap, previous: DigestMap]

Deployment == [from: DigestMap, to: DigestMap, status: DeployStatus]

StoreTypeOK ==
    /\ row \in ProjectState
    /\ deployments \in Seq(Deployment)

-----------------------------------------------------------------------------
\* CreateProject inserts the state row with the column defaults.
NewRow == [status |-> "unknown", desired |-> EmptyMap,
           current |-> EmptyMap, previous |-> EmptyMap]

CreateProject == row = NewRow /\ deployments = <<>>

\* UPDATE of every column of the row: whoever writes last wins.
UpdateState(s) == row' = s

InsertDeployment(from, to) ==
    deployments' = Append(deployments,
                          [from |-> from, to |-> to, status |-> "in_progress"])

\* Mutant: failures are not recorded.
MutFinishOnlySuccess(id, status) ==
    IF status = "failed" THEN UNCHANGED deployments
    ELSE deployments' = [deployments EXCEPT ![id].status = status]

FinishDeployment(id, status) ==
    deployments' = [deployments EXCEPT ![id].status = status]

\* Mutant: the status column is not reset.
MutResetNoStatus == UNCHANGED row

\* The two statements of ResetStaleStates, run one after the other at boot.
ResetStaleStatus ==
    row' = IF row.status = "deploying" THEN [row EXCEPT !.status = "failed"]
           ELSE row

\* Mutant: the second statement of ResetStaleStates is missing.
MutResetNoDeployments == UNCHANGED deployments

ResetStaleDeployments ==
    deployments' = [i \in DOMAIN deployments |->
        IF deployments[i].status = "in_progress"
        THEN [deployments[i] EXCEPT !.status = "failed"] ELSE deployments[i]]
=============================================================================
