--------------------------- MODULE TunnelManager ---------------------------
(***************************************************************************)
(* internal/tunnel/manager.go and the handlers of internal/web/tunnels.go  *)
(* that drive it.  Every tunnel row owns a "system project" that runs      *)
(* cloudflared from two files, config.yml (the ingress) and                *)
(* credentials.json.  Handlers write rows and leave the reconciliation to  *)
(* goroutines of their own; a reconciliation holds the manager's mutex,    *)
(* but the starts and restarts of cloudflared it launches do not.          *)
(***************************************************************************)
EXTENDS Naturals, FiniteSets

CONSTANTS
    Tunnels,      \* tunnel ids
    Hosts,        \* public hostnames a project may route through a tunnel
    CFTunnelIDs,  \* Cloudflare's ids of tunnels, a credential field
    Secrets,      \* the other credential fields, AccountTag and TunnelSecret
    NoTunnel,     \* there is no such row
    NoProject,    \* there is no such system project
    NoFile,       \* config.yml and credentials.json are not there
    Dirs,         \* they are directories, made by WriteComposeFiles
    Empty,        \* a credential field left empty in a request
    Down,         \* no cloudflared container
    Goroutines,   \* request and background goroutines of the daemon
    Nobody,       \* the mutex is free
    MaxEdits,     \* bound: requests
    MaxFaults     \* bound: compose commands that fail, crashes of the daemon

Creds == [id : CFTunnelIDs, secret : Secrets]
Rows == [enabled : BOOLEAN, cred : Creds]
\* config.yml has the hostnames and cred.id, credentials.json all of cred.
Files == [hosts : SUBSET Hosts, cred : Creds]

ASSUME TunnelAssumption ==
    /\ MaxEdits \in Nat /\ MaxFaults \in Nat
    /\ Empty \notin CFTunnelIDs \cup Secrets
    /\ NoFile \notin Files /\ Dirs \notin Files /\ NoFile # Dirs
    /\ NoProject \notin [enabled : BOOLEAN, deployed : BOOLEAN]
    /\ Nobody \notin Goroutines

VARIABLES
    tunnel,    \* table tunnels
    routes,    \* table projects: hostnames the enabled projects send to a tunnel
    sys,       \* the system project's row; deployed: its image digest is recorded
    files,     \* config.yml and credentials.json in the stack directory
    run,       \* the container: the two files as it read them when it started
    mu,        \* Manager.mu
    pc, todo, cur, row, ingress, changed,   \* goroutine: place, todo, locals
    jobs,      \* per tunnel, goroutines that start, restart or deploy cloudflared
    disturbed, \* history: tunnels disabled or deleted, a command of theirs failed,
               \* or the daemon crashed
    overtaken, \* history: tunnels whose directory a deletion removed while a start
               \* or a deployment of their cloudflared was still to come
    edits, faults                  \* used up so far of the bounds

tables == <<tunnel, routes, sys>>
host == <<files, run>>
locals == <<todo, cur, row, ingress, changed>>
counters == <<edits, faults>>
history == <<disturbed, overtaken>>
vars == <<tables, host, mu, pc, locals, jobs, history, counters>>

Jobs == {"start", "restart", "deploy"}
Places == {"idle", "list", "next", "collect", "write", "apply", "down",
           "update", "stop", "deleteProject", "removeAll", "deleteTunnel"}

TypeOK ==
    /\ tunnel \in [Tunnels -> Rows \cup {NoTunnel}]
    /\ routes \in [Tunnels -> SUBSET Hosts]
    /\ sys \in [Tunnels -> [enabled : BOOLEAN, deployed : BOOLEAN] \cup {NoProject}]
    /\ files \in [Tunnels -> Files \cup {NoFile, Dirs}]
    /\ run \in [Tunnels -> Files \cup {Dirs, Down}]
    /\ mu \in Goroutines \cup {Nobody}
    /\ pc \in [Goroutines -> Places]
    /\ todo \in [Goroutines -> SUBSET Tunnels]
    /\ cur \in [Goroutines -> Tunnels]
    /\ row \in [Goroutines -> Rows \cup {NoTunnel}]
    /\ ingress \in [Goroutines -> SUBSET Hosts]
    /\ changed \in [Goroutines -> BOOLEAN]
    /\ jobs \in [Tunnels -> [Jobs -> 0..(MaxEdits + 1)]]
    /\ disturbed \subseteq Tunnels /\ overtaken \subseteq Tunnels
    /\ edits \in 0..MaxEdits /\ faults \in 0..MaxFaults

NoJobs == [t \in Tunnels |-> [j \in Jobs |-> 0]]

\* A daemon without tunnels and routes, its startup reconciliation over.
Init ==
    /\ tunnel = [t \in Tunnels |-> NoTunnel]
    /\ routes = [t \in Tunnels |-> {}]
    /\ sys = [t \in Tunnels |-> NoProject]
    /\ files = [t \in Tunnels |-> NoFile]
    /\ run = [t \in Tunnels |-> Down]
    /\ mu = Nobody
    /\ pc = [g \in Goroutines |-> "idle"]
    /\ todo = [g \in Goroutines |-> {}]
    /\ cur \in [Goroutines -> {CHOOSE t \in Tunnels : TRUE}]
    /\ row = [g \in Goroutines |-> NoTunnel]
    /\ ingress = [g \in Goroutines |-> {}]
    /\ changed = [g \in Goroutines |-> FALSE]
    /\ jobs = NoJobs
    /\ disturbed = {} /\ overtaken = {}
    /\ edits = 0 /\ faults = 0

-----------------------------------------------------------------------------
\* The handlers.  Each ends by leaving its goroutine to a reconciliation.

Request(g) ==
    /\ pc[g] = "idle"
    /\ edits < MaxEdits /\ edits' = edits + 1
    /\ UNCHANGED faults

Go(g, place, ts) ==
    /\ pc' = [pc EXCEPT ![g] = place]
    /\ todo' = [todo EXCEPT ![g] = ts]

Disturb(t, b) == disturbed' = IF b THEN disturbed \cup {t} ELSE disturbed

\* A new tunnel must bring all credential fields; a taken id is refused.
apiCreateTunnel(g, t, enabled, cred) ==
    /\ Request(g)
    /\ tunnel[t] = NoTunnel
    /\ tunnel' = [tunnel EXCEPT ![t] = [enabled |-> enabled, cred |-> cred]]
    /\ Disturb(t, ~enabled)
    /\ Go(g, "next", {t})
    /\ UNCHANGED <<routes, sys, host, mu, cur, row, ingress, changed, jobs, overtaken>>

\* buildTunnel and the merge of empty fields from the row read before.
MergeTunnel(existing, enabled, id, secret) ==
    [enabled |-> enabled,
     cred |-> [id |-> IF id = Empty THEN existing.cred.id ELSE id,
               secret |-> IF secret = Empty THEN existing.cred.secret ELSE secret]]

\* The handler reads the row ...
apiUpdateTunnelRead(g, t) ==
    /\ Request(g)
    /\ tunnel[t] # NoTunnel
    /\ row' = [row EXCEPT ![g] = tunnel[t]]
    /\ cur' = [cur EXCEPT ![g] = t]
    /\ Go(g, "update", {})
    /\ UNCHANGED <<tables, host, mu, ingress, changed, jobs, history>>

\* ... and writes the merged one back: no effect if the row is gone by then.
apiUpdateTunnelWrite(g, enabled, id, secret) ==
    LET t == cur[g] IN
    /\ pc[g] = "update"
    /\ tunnel' = IF tunnel[t] = NoTunnel THEN tunnel
                 ELSE [tunnel EXCEPT ![t] = MergeTunnel(row[g], enabled, id, secret)]
    /\ Disturb(t, ~enabled)
    /\ Go(g, "next", {t})
    /\ UNCHANGED <<routes, sys, host, mu, cur, row, ingress, changed, jobs, counters, overtaken>>

\* A reconciliation of one existing tunnel, asked for by the operator.
apiSyncTunnel(g, t) ==
    /\ Request(g)
    /\ tunnel[t] # NoTunnel
    /\ Go(g, "next", {t})
    /\ UNCHANGED <<tables, host, mu, cur, row, ingress, changed, jobs, history>>

\* A project is created, updated or deleted: its hostnames move, and
\* reconcileTunnels runs ReconcileAll.  Saving without a change is allowed.
saveProject(g, t, hs) ==
    /\ Request(g)
    /\ routes' = [routes EXCEPT ![t] = hs]
    /\ Go(g, "list", {})
    /\ UNCHANGED <<tunnel, sys, host, mu, cur, row, ingress, changed, jobs, history>>

-----------------------------------------------------------------------------
\* ReconcileAll and ReconcileTunnel.

ListTunnels(g) ==
    /\ pc[g] = "list"
    /\ Go(g, "next", {t \in Tunnels : tunnel[t] # NoTunnel})
    /\ UNCHANGED <<tables, host, mu, cur, row, ingress, changed, jobs, counters, history>>

MutReconcileLock(g) ==
    /\ pc[g] = "next"
    /\ \E t \in todo[g] :
        /\ cur' = [cur EXCEPT ![g] = t]
        /\ row' = [row EXCEPT ![g] = tunnel[t]]
        /\ Go(g, IF tunnel[t] = NoTunnel THEN "next" ELSE "collect", todo[g] \ {t})
    /\ UNCHANGED <<tables, host, ingress, changed, jobs, counters, mu, history>>

\* Lock, then GetTunnel; a tunnel that is gone is an error, and the next one
\* is taken.
ReconcileLock(g) ==
    /\ pc[g] = "next" /\ mu = Nobody
    /\ \E t \in todo[g] :
        /\ cur' = [cur EXCEPT ![g] = t]
        /\ row' = [row EXCEPT ![g] = tunnel[t]]
        /\ Go(g, IF tunnel[t] = NoTunnel THEN "next" ELSE "collect", todo[g] \ {t})
        /\ mu' = IF tunnel[t] = NoTunnel THEN Nobody ELSE g
    /\ UNCHANGED <<tables, host, ingress, changed, jobs, counters, history>>

ReconcileDone(g) ==
    /\ pc[g] = "next" /\ todo[g] = {}
    /\ Go(g, "idle", {})
    /\ row' = [row EXCEPT ![g] = NoTunnel]
    /\ ingress' = [ingress EXCEPT ![g] = {}]
    /\ changed' = [changed EXCEPT ![g] = FALSE]
    /\ UNCHANGED <<tables, host, mu, cur, jobs, counters, history>>

collectIngressFor(g) ==
    /\ pc[g] = "collect"
    /\ ingress' = [ingress EXCEPT ![g] = routes[cur[g]]]
    /\ Go(g, "write", todo[g])
    /\ UNCHANGED <<tables, host, mu, cur, row, changed, jobs, counters, history>>

\* writeConfigYml: the file is only written, and cloudflared only restarted,
\* when its text differs: the tunnel's id or the ingress, but no other
\* credential field.
ConfigChanged(g) ==
    \/ files[cur[g]] = NoFile
    \/ files[cur[g]].hosts # ingress[g]
    \/ files[cur[g]].cred.id # row[g].cred.id

Unlock(g) == mu' = Nobody /\ Go(g, "next", todo[g])

\* writeCredentials, then writeConfigYml, in one step (a container started in
\* between is restarted like one started before).  A directory in the place of
\* either is an error, which ends the reconciliation.
writeFiles(g) ==
    /\ pc[g] = "write" /\ files[cur[g]] # Dirs
    /\ files' = [files EXCEPT ![cur[g]] = [hosts |-> ingress[g], cred |-> row[g].cred]]
    /\ changed' = [changed EXCEPT ![g] = ConfigChanged(g)]
    /\ Go(g, "apply", todo[g])
    /\ UNCHANGED <<tables, run, mu, cur, row, ingress, jobs, counters, history>>

writeFilesFails(g) ==
    /\ pc[g] = "write" /\ files[cur[g]] = Dirs
    /\ Unlock(g)
    /\ UNCHANGED <<tables, host, cur, row, ingress, changed, jobs, counters, history>>

Spawn(t, job) == jobs' = [jobs EXCEPT ![t][job] = @ + 1]

\* The system project is created on first sight, and cloudflared started
\* whatever "enabled" says ...
createSystemProject(g) ==
    LET t == cur[g] IN
    /\ pc[g] = "apply" /\ sys[t] = NoProject
    /\ sys' = [sys EXCEPT ![t] = [enabled |-> row[g].enabled, deployed |-> FALSE]]
    /\ Spawn(t, "start")
    /\ Unlock(g)
    /\ UNCHANGED <<tunnel, routes, host, cur, row, ingress, changed, counters, history>>

MutUpdateSystemProject(g) ==
    LET t == cur[g] IN
    /\ pc[g] = "apply" /\ sys[t] # NoProject
    /\ sys' = [sys EXCEPT ![t].enabled = row[g].enabled]
    /\ jobs' = jobs
    /\ IF row[g].enabled THEN Unlock(g) ELSE Go(g, "down", todo[g]) /\ UNCHANGED mu
    /\ UNCHANGED <<tunnel, routes, host, cur, row, ingress, changed, counters, history>>

\* ... or updated: a disabled tunnel is stopped, an enabled one restarted if
\* its config.yml changed.
updateSystemProject(g) ==
    LET t == cur[g] IN
    /\ pc[g] = "apply" /\ sys[t] # NoProject
    /\ sys' = [sys EXCEPT ![t].enabled = row[g].enabled]
    /\ IF row[g].enabled /\ changed[g] THEN Spawn(t, "restart") ELSE jobs' = jobs
    /\ IF row[g].enabled THEN Unlock(g) ELSE Go(g, "down", todo[g]) /\ UNCHANGED mu
    /\ UNCHANGED <<tunnel, routes, host, cur, row, ingress, changed, counters, history>>

\* One compose command on tunnel t: it works, or fails and changes nothing.
Compose(t, state) ==
    \/ run' = [run EXCEPT ![t] = state] /\ UNCHANGED <<faults, disturbed>>
    \/ faults < MaxFaults /\ faults' = faults + 1 /\ Disturb(t, TRUE) /\ UNCHANGED run

\* The end of deployer.Stop; a failure is only a warning.
stopDisabled(g) ==
    /\ pc[g] = "down"
    /\ Compose(cur[g], Down)
    /\ Unlock(g)
    /\ UNCHANGED <<tables, files, cur, row, ingress, changed, jobs, edits, overtaken>>

-----------------------------------------------------------------------------
\* DeleteTunnel, under the mutex: stop the project if there is one ...
apiDeleteTunnel(g, t) ==
    /\ Request(g)
    /\ tunnel[t] # NoTunnel /\ mu = Nobody
    /\ mu' = g /\ Disturb(t, TRUE)
    /\ cur' = [cur EXCEPT ![g] = t]
    /\ Go(g, IF sys[t] = NoProject THEN "deleteTunnel" ELSE "stop", {})
    /\ UNCHANGED <<tables, host, row, ingress, changed, jobs, overtaken>>

deleteStop(g) ==
    /\ pc[g] = "stop"
    /\ Compose(cur[g], Down)
    /\ Go(g, "deleteProject", {})
    /\ UNCHANGED <<tables, files, mu, cur, row, ingress, changed, jobs, edits, overtaken>>

\* ... then its row, its directory and the tunnel's row go.
deleteProject(g) ==
    /\ pc[g] = "deleteProject"
    /\ sys' = [sys EXCEPT ![cur[g]] = NoProject]
    /\ Go(g, "removeAll", {})
    /\ UNCHANGED <<tunnel, routes, host, mu, cur, row, ingress, changed, jobs, counters, history>>

\* The goroutines that write compose files are not waited for.
removeAll(g) ==
    LET t == cur[g] IN
    /\ pc[g] = "removeAll"
    /\ files' = [files EXCEPT ![t] = NoFile]
    /\ overtaken' = IF jobs[t]["start"] > 0 \/ jobs[t]["deploy"] > 0
                    THEN overtaken \cup {t} ELSE overtaken
    /\ Go(g, "deleteTunnel", {})
    /\ UNCHANGED <<tables, run, mu, cur, row, ingress, changed, jobs, counters, disturbed>>

deleteTunnel(g) ==
    /\ pc[g] = "deleteTunnel"
    /\ tunnel' = [tunnel EXCEPT ![cur[g]] = NoTunnel]
    /\ mu' = Nobody
    /\ Go(g, "idle", {})
    /\ UNCHANGED <<routes, sys, host, cur, row, ingress, changed, jobs, counters, history>>

-----------------------------------------------------------------------------
\* The goroutines that a reconciliation leaves behind, and the scheduler.

EndJob(t, job) ==
    /\ jobs[t][job] > 0
    /\ jobs' = [jobs EXCEPT ![t][job] = @ - 1]
    /\ UNCHANGED <<tunnel, routes, mu, pc, locals, edits, overtaken>>

\* deployer.WriteComposeFiles makes a directory of every bind mount source
\* that does not exist.
WriteComposeFiles(t) ==
    files' = [files EXCEPT ![t] = IF @ = NoFile THEN Dirs ELSE @]

\* deployer.Start: compose up leaves a running container alone.
startCloudflared(t) ==
    /\ EndJob(t, "start")
    /\ WriteComposeFiles(t)
    /\ Compose(t, IF run[t] = Down THEN files'[t] ELSE run[t])
    /\ UNCHANGED sys

\* compose restart: without a container there is nothing to restart.
restartCloudflared(t) ==
    /\ EndJob(t, "restart")
    /\ Compose(t, IF run[t] = Down \/ files[t] = NoFile THEN run[t] ELSE files[t])
    /\ UNCHANGED <<sys, files>>

\* The scheduler deploys an enabled system project whose image digest is not
\* recorded yet; the container is recreated with the pinned image.
PollDue(t) == sys[t] # NoProject /\ sys[t].enabled /\ ~sys[t].deployed

pollBegin(t) ==
    /\ PollDue(t) /\ jobs[t]["deploy"] = 0
    /\ Spawn(t, "deploy")
    /\ UNCHANGED <<tables, host, mu, pc, locals, counters, history>>

\* A deployment that fails records no digest, and is due again.
pollDeploy(t) ==
    /\ EndJob(t, "deploy")
    /\ WriteComposeFiles(t)
    /\ Compose(t, files'[t])
    /\ sys' = [sys EXCEPT ![t] = IF @ = NoProject \/ faults' # faults THEN @
                                 ELSE [@ EXCEPT !.deployed = TRUE]]

\* The process dies and is started again: goroutines and the mutex are gone,
\* and main runs ReconcileAll on a goroutine of its own.
Restart(g) ==
    /\ faults < MaxFaults /\ faults' = faults + 1
    /\ mu' = Nobody /\ disturbed' = Tunnels /\ UNCHANGED overtaken
    /\ pc' = [h \in Goroutines |-> IF h = g THEN "list" ELSE "idle"]
    /\ todo' = [h \in Goroutines |-> {}]
    /\ row' = [h \in Goroutines |-> NoTunnel]
    /\ ingress' = [h \in Goroutines |-> {}]
    /\ changed' = [h \in Goroutines |-> FALSE]
    /\ jobs' = NoJobs
    /\ UNCHANGED <<tables, host, cur, edits>>

Handler(g) ==
    \/ \E t \in Tunnels, e \in BOOLEAN, c \in Creds : apiCreateTunnel(g, t, e, c)
    \/ \E t \in Tunnels : apiUpdateTunnelRead(g, t) \/ apiSyncTunnel(g, t)
    \/ \E t \in Tunnels : apiDeleteTunnel(g, t)
    \/ \E t \in Tunnels, hs \in SUBSET Hosts : saveProject(g, t, hs)

\* The next step of a goroutine that has something to do.
Step(g) ==
    \/ \E e \in BOOLEAN, i \in CFTunnelIDs \cup {Empty}, c \in Secrets \cup {Empty} :
         apiUpdateTunnelWrite(g, e, i, c)
    \/ ListTunnels(g) \/ ReconcileLock(g) \/ ReconcileDone(g)
    \/ collectIngressFor(g) \/ writeFiles(g) \/ writeFilesFails(g)
    \/ createSystemProject(g) \/ updateSystemProject(g) \/ stopDisabled(g)
    \/ deleteStop(g) \/ deleteProject(g) \/ removeAll(g) \/ deleteTunnel(g)

Background(t) ==
    startCloudflared(t) \/ restartCloudflared(t) \/ pollBegin(t) \/ pollDeploy(t)

Next ==
    \/ \E g \in Goroutines : Handler(g) \/ Step(g) \/ Restart(g)
    \/ \E t \in Tunnels : Background(t)

Spec == Init /\ [][Next]_vars

\* Goroutines run on, the mutex is handed on in turn (sync.Mutex does not
\* starve a waiter), compose commands return and the ticker fires.
FairSpec ==
    /\ Spec
    /\ \A g \in Goroutines : SF_vars(Step(g))
    /\ \A t \in Tunnels : WF_vars(Background(t))

-----------------------------------------------------------------------------
\* Nothing is being reconciled, started or restarted.
Quiet == (\A g \in Goroutines : pc[g] = "idle") /\ jobs = NoJobs

\* The files and the system project say what the rows say.
MatchesRow(t) ==
    /\ files[t] = [hosts |-> routes[t], cred |-> tunnel[t].cred]
    /\ sys[t] # NoProject /\ sys[t].enabled = tunnel[t].enabled

\* Mutual exclusion is only a means: what the mutex and the reconciliation
\* after every write are for is that, once all goroutines are done, the files
\* and the system project say what the rows say, whatever the order in which
\* handlers, reconciliations, deletions and a crash interleaved.  One order is
\* an exception, and the only one: a start or a deployment that comes after
\* DeleteTunnel removed the directory puts directories in the place of the two
\* files (deployer.WriteComposeFiles), and no tunnel of that id can be
\* reconciled any more.
FilesMatchRows ==
    Quiet => \A t \in Tunnels : tunnel[t] # NoTunnel =>
        MatchesRow(t) \/ (files[t] = Dirs /\ t \in overtaken)

\* docs/cloudflared.md:146: after a save, cloudflared serves the new ingress,
\* and as the tunnel of the row.
Served(t) ==
    tunnel[t] # NoTunnel /\ tunnel[t].enabled =>
        run[t] \in Files /\ run[t].hosts = routes[t] /\ run[t].cred.id = tunnel[t].cred.id

\* Edits end, so at some point every enabled tunnel's cloudflared runs with
\* the hostnames its projects ask for, and keeps running with them: whatever
\* saves, syncs and new credentials interleave with reconciliations, the
\* background start, restarts and polls.  A restart that fails or dies with the
\* daemon is never repeated, and a tunnel that was disabled or deleted is not
\* brought up again, so nothing is said of these.
IngressConverges == <>[](\A t \in Tunnels \ disturbed : Served(t))
=============================================================================
