----------------------------- MODULE Lifecycle -----------------------------
(***************************************************************************)
(* A project id that is created, deployed, started, stopped, deleted and   *)
(* created again: internal/web/api.go apiDeleteProject and the operations  *)
(* of internal/deployer/deployer.go it overlaps, when the row they         *)
(* read at their start is gone or belongs to a successor.  Digests are     *)
(* known by the generation of the project they were deployed for;          *)
(* Deployer has the digests themselves, and the rest of a poll is in       *)
(* Scheduler.                                                              *)
(***************************************************************************)
EXTENDS Naturals

CONSTANTS
    Procs,        \* goroutines
    MaxGen,       \* bound: times the project is created
    MaxOps,       \* bound: operations begun
    MaxFailures   \* bound: compose commands that fail

ASSUME LifecycleAssumption ==
    /\ MaxGen \in Nat /\ MaxOps \in Nat /\ MaxFailures \in Nat

VARIABLES
    gen,       \* generation of the row in projects, 0 if there is none
    state,     \* project_state: status and generation of current_digests
    recs,      \* deployments: ids in progress and ids that ended
    mu,        \* the deployer's mutex of the id: its holder, or free
    up,        \* generation whose configuration the containers run, 0 if none
    proc,      \* goroutines
    disturbed, \* history: "operation" if two ever overlapped, "deletion" if one of
               \* them deleted, or a deletion's compose down failed
    created, ops, failures, nextId

vars == <<gen, state, recs, mu, up, proc, disturbed, created, ops, failures, nextId>>
counters == <<created, ops, failures, nextId>>

Statuses == {"unknown", "deploying", "running", "failed", "rolled_back", "starting",
             "stopping", "stopped"}
NoState == [status |-> "unknown", cur |-> 0]
NoProc == [pc |-> "idle", kind |-> "none", gen |-> 0, has |-> FALSE, st |-> NoState, id |-> 0]

States == [status : Statuses, cur : 0..MaxGen]

TypeOK ==
    /\ gen \in 0..MaxGen /\ up \in 0..MaxGen
    /\ state \in States /\ (gen = 0 => state = NoState)
    /\ recs \in [active : SUBSET (1..MaxOps), ended : SUBSET (1..MaxOps)]
    /\ mu \subseteq Procs
    /\ \A p, q \in mu : p = q
    /\ proc \in [Procs -> [pc : {"idle", "lock", "get", "insert", "mark", "compose", "failed",
                                 "rollback", "finish", "save", "delete"},
                           kind : {"none", "deploy", "start", "stop", "delete"},
                           gen : 0..MaxGen, has : BOOLEAN, st : States, id : 0..MaxOps]]
    /\ disturbed \subseteq {"deletion", "operation"}
    /\ created \in 0..MaxGen /\ ops \in 0..MaxOps /\ failures \in 0..MaxFailures
    /\ nextId \in 1..(MaxOps + 1)

Init ==
    /\ gen = 0 /\ state = NoState
    /\ recs = [active |-> {}, ended |-> {}]
    /\ mu = {} /\ up = 0
    /\ proc = [p \in Procs |-> NoProc]
    /\ disturbed = {}
    /\ created = 0 /\ ops = 0 /\ failures = 0 /\ nextId = 1

Idle(p) == proc[p].pc = "idle"
AllIdle == \A p \in Procs : Idle(p)

Goto(p, pc) == proc' = [proc EXCEPT ![p].pc = pc]
End(p) == proc' = [proc EXCEPT ![p] = NoProc]

-----------------------------------------------------------------------------
\* CreateProject: both rows in one transaction.
CreateProject ==
    /\ gen = 0 /\ created < MaxGen
    /\ created' = created + 1 /\ gen' = created + 1
    /\ state' = NoState
    /\ disturbed' = IF AllIdle THEN disturbed ELSE disturbed \cup {"deletion"}
    /\ UNCHANGED <<recs, mu, up, proc, ops, failures, nextId>>

\* An operation of this kind would run during a deletion, or delete during
\* another operation.
Deleting(p, kind) ==
    \E q \in Procs \ {p} : ~Idle(q) /\ "delete" \in {kind, proc[q].kind}

\* A request or a poll reads the project and starts its operation.
Request(p, kind) ==
    /\ Idle(p)
    /\ gen # 0 /\ ops < MaxOps /\ ops' = ops + 1
    /\ proc' = [proc EXCEPT ![p] = [NoProc EXCEPT !.kind = kind, !.gen = gen,
                                      !.pc = IF kind = "deploy" THEN "lock" ELSE "get"]]
    /\ disturbed' = disturbed \cup (IF AllIdle THEN {} ELSE {"operation"})
                            \cup (IF Deleting(p, kind) THEN {"deletion"} ELSE {})
    /\ UNCHANGED <<gen, state, recs, mu, up, created, failures, nextId>>

MutTryLockSteals(p) ==
    /\ proc[p].pc = "lock"
    /\ mu' = {p} /\ Goto(p, "get")
    /\ UNCHANGED <<gen, state, recs, up, disturbed, counters>>

\* Deploy: a second deployment of the id is refused.
TryLock(p) ==
    /\ proc[p].pc = "lock"
    /\ IF mu = {} THEN mu' = {p} /\ Goto(p, "get") ELSE mu' = mu /\ End(p)
    /\ UNCHANGED <<gen, state, recs, up, disturbed, counters>>

\* GetState: without a row Deploy gives up; Start and Stop go on.
GetState(p) ==
    /\ proc[p].pc = "get"
    /\ IF proc[p].kind = "deploy" /\ gen = 0
       THEN mu' = mu \ {p} /\ End(p)
       ELSE /\ mu' = mu
            /\ proc' = [proc EXCEPT ![p].has = gen # 0, ![p].st = state,
                          ![p].pc = IF proc[p].kind = "deploy" THEN "insert" ELSE "mark"]
    /\ UNCHANGED <<gen, state, recs, up, disturbed, counters>>

\* InsertDeployment: the foreign key fails without a project.  The id is new.
InsertDeployment(p) ==
    /\ proc[p].pc = "insert"
    /\ IF gen = 0 THEN mu' = mu \ {p} /\ End(p) /\ UNCHANGED <<recs, nextId>>
       ELSE /\ recs' = [recs EXCEPT !.active = @ \cup {nextId}]
            /\ proc' = [proc EXCEPT ![p].pc = "mark", ![p].id = nextId]
            /\ nextId' = nextId + 1 /\ mu' = mu
    /\ UNCHANGED <<gen, state, up, disturbed, created, ops, failures>>

\* UpdateState by id: no row, no change.
UpdateState(st) == state' = IF gen = 0 THEN state ELSE st

\* The status an operation shows while it works; Start and Stop skip it if
\* they could not read the row.
Busy(kind) == CASE kind = "deploy" -> "deploying" [] kind = "start" -> "starting"
                [] OTHER -> "stopping"

MarkBusy(p) ==
    /\ proc[p].pc = "mark"
    /\ LET st == [proc[p].st EXCEPT !.status = Busy(proc[p].kind)] IN
       /\ IF proc[p].has THEN UpdateState(st) ELSE UNCHANGED state
       /\ proc' = [proc EXCEPT ![p].pc = "compose", ![p].st = st]
    /\ UNCHANGED <<gen, recs, mu, up, disturbed, counters>>

MutCompose(p) ==
    /\ proc[p].pc = "compose"
    /\ up' = IF proc[p].kind = "stop" THEN 0 ELSE IF proc[p].kind = "delete" THEN up ELSE proc[p].gen
    /\ proc' = [proc EXCEPT ![p].pc = IF proc[p].kind = "deploy" THEN "finish" ELSE "save",
                  ![p].st.status = IF proc[p].kind \in {"stop", "delete"} THEN "stopped"
                                   ELSE "running"]
    /\ UNCHANGED <<gen, state, recs, mu, disturbed, counters>>

\* compose up with the configuration that was read, or compose down.
Compose(p) ==
    /\ proc[p].pc = "compose"
    /\ up' = IF proc[p].kind \in {"stop", "delete"} THEN 0 ELSE proc[p].gen
    /\ proc' = [proc EXCEPT ![p].pc = IF proc[p].kind = "deploy" THEN "finish" ELSE "save",
                  ![p].st.status = IF proc[p].kind \in {"stop", "delete"} THEN "stopped"
                                   ELSE "running"]
    /\ UNCHANGED <<gen, state, recs, mu, disturbed, counters>>

MutComposeFails(p) ==
    /\ proc[p].pc = "compose"
    /\ failures < MaxFailures /\ failures' = failures + 1
    /\ up' \in {up, IF proc[p].kind \in {"stop", "delete"} THEN 0 ELSE proc[p].gen}
    /\ proc' = [proc EXCEPT ![p].pc = IF proc[p].kind = "deploy" THEN "failed" ELSE "save",
                  ![p].st.status = IF proc[p].kind = "stop" THEN "stopped" ELSE "failed"]
    /\ disturbed' = IF proc[p].kind = "delete" THEN disturbed \cup {"deletion"} ELSE disturbed
    /\ UNCHANGED <<gen, state, recs, mu, created, ops, nextId>>

\* The command fails, with or without effect, or a health check does.
ComposeFails(p) ==
    /\ proc[p].pc = "compose"
    /\ failures < MaxFailures /\ failures' = failures + 1
    /\ up' \in {up, IF proc[p].kind \in {"stop", "delete"} THEN 0 ELSE proc[p].gen}
    /\ proc' = [proc EXCEPT ![p].pc = IF proc[p].kind = "deploy" THEN "failed" ELSE "save",
                  ![p].st.status = "failed"]
    /\ disturbed' = IF proc[p].kind = "delete" THEN disturbed \cup {"deletion"} ELSE disturbed
    /\ UNCHANGED <<gen, state, recs, mu, created, ops, nextId>>

\* FinishDeployment by id: no row, no change.
EndRecord(p) ==
    recs' = [active |-> recs.active \ {proc[p].id},
             ended |-> recs.ended \cup (recs.active \cap {proc[p].id})]

FinishFailed(p) ==
    /\ proc[p].pc = "failed" /\ EndRecord(p) /\ Goto(p, "rollback")
    /\ UNCHANGED <<gen, state, mu, up, disturbed, counters>>

\* executeRollback: to the digests the row held when the deployment began; it
\* may fail after its compose up.
Rollback(p) ==
    /\ proc[p].pc = "rollback"
    /\ \/ /\ proc[p].st.cur # 0
          /\ up' = proc[p].gen
          /\ proc' = [proc EXCEPT ![p].pc = "save", ![p].st.status = "rolled_back"]
       \/ /\ up' \in {up} \cup (IF proc[p].st.cur # 0 THEN {proc[p].gen} ELSE {})
          /\ Goto(p, "save")
    /\ UNCHANGED <<gen, state, recs, mu, disturbed, counters>>

FinishSuccess(p) ==
    /\ proc[p].pc = "finish" /\ EndRecord(p)
    /\ proc' = [proc EXCEPT ![p].pc = "save", ![p].st.cur = proc[p].gen]
    /\ UNCHANGED <<gen, state, mu, up, disturbed, counters>>

\* The last UpdateState; Deploy returns and releases the mutex.
Save(p) ==
    /\ proc[p].pc = "save"
    /\ IF proc[p].has THEN UpdateState(proc[p].st) ELSE UNCHANGED state
    /\ mu' = mu \ {p}
    /\ IF proc[p].kind = "delete" THEN Goto(p, "delete") ELSE End(p)
    /\ UNCHANGED <<gen, recs, up, disturbed, counters>>

\* DeleteProject, whatever became of Stop; state and history go with the row.
DeleteProject(p) ==
    /\ proc[p].pc = "delete"
    /\ gen' = 0 /\ state' = NoState
    /\ recs' = [active |-> {}, ended |-> {}]
    /\ End(p)
    /\ UNCHANGED <<mu, up, disturbed, counters>>

Step(p) ==
    \/ TryLock(p) \/ GetState(p) \/ InsertDeployment(p) \/ MarkBusy(p)
    \/ Compose(p) \/ ComposeFails(p)
    \/ FinishFailed(p) \/ Rollback(p) \/ FinishSuccess(p)
    \/ Save(p) \/ DeleteProject(p)

Next ==
    \/ CreateProject
    \/ \E p \in Procs :
        \/ \E kind \in {"deploy", "start", "stop", "delete"} : Request(p, kind)
        \/ Step(p)

Spec == Init /\ [][Next]_vars

-----------------------------------------------------------------------------
\* A deleted project leaves no containers, whatever overlapping deployments,
\* starts and stops did before, if none of them overlapped the deletion itself
\* (apiDeleteProject takes no lock) and its compose down did not fail (its
\* error is dropped).
NothingLeftBehind ==
    gen = 0 /\ AllIdle /\ "deletion" \notin disturbed => up = 0

\* Operated by one request after the other, a running or rolled-back project
\* has the containers of its own configuration and a stopped one has none, in
\* spite of failing commands and of earlier projects of the same id.
StatusMatchesHost ==
    AllIdle /\ gen # 0 /\ disturbed = {} =>
        /\ state.status \in {"running", "rolled_back"} => up = gen
        /\ state.status = "stopped" => up = 0

\* A deployment in progress belongs to the goroutine that holds the mutex and
\* knows its id: no deletion or new project makes it lose its record, or end
\* somebody else's.
RecordsAreOwned ==
    \A i \in recs.active : \E p \in mu : proc[p].id = i
=============================================================================
