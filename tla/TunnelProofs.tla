---------------------------- MODULE TunnelProofs ----------------------------
(***************************************************************************)
(* Proof that the reconciliations of internal/tunnel/manager.go leave the  *)
(* files and the system projects as the rows say, for any tunnels, hosts,  *)
(* credentials and goroutines; and that the goroutines of DnsSync, with    *)
(* the zones of ZoneMatch, make the DNS records that the routes ask for.   *)
(***************************************************************************)
EXTENDS TunnelManager, DnsSync, WellFoundedInduction, TLAPS

SysRows == [enabled : BOOLEAN, deployed : BOOLEAN]

\* The places where a goroutine holds the manager's mutex, where it works
\* with a row it has read, and where it has no tunnel left to reconcile.
Deleting == {"stop", "deleteProject", "removeAll", "deleteTunnel"}
Held == {"collect", "write", "apply", "down"} \cup Deleting
HasRow == {"update", "collect", "write", "apply", "down"}
NoTodo == {"idle", "list", "update"} \cup Deleting

Types ==
    /\ tunnel \in [Tunnels -> Rows \cup {NoTunnel}]
    /\ routes \in [Tunnels -> SUBSET Hosts]
    /\ sys \in [Tunnels -> SysRows \cup {NoProject}]
    /\ files \in [Tunnels -> Files \cup {NoFile, Dirs}]
    /\ mu \in Goroutines \cup {Nobody}
    /\ pc \in [Goroutines -> Places]
    /\ todo \in [Goroutines -> SUBSET Tunnels]
    /\ cur \in [Goroutines -> Tunnels \cup {CHOOSE t \in Tunnels : TRUE}]
    /\ row \in [Goroutines -> Rows \cup {NoTunnel}]
    /\ ingress \in [Goroutines -> SUBSET Hosts]
    /\ \A g \in Goroutines :
         /\ pc[g] \in HasRow => row[g] \in Rows
         /\ pc[g] \in Held \cup HasRow => cur[g] \in Tunnels

JobTypes == jobs \in [Tunnels -> [Jobs -> Nat]]

\* The mutex, and the tunnels that are left to a goroutine.
LockInv ==
    \A g \in Goroutines : /\ pc[g] \in Held <=> mu = g
                          /\ pc[g] \in NoTodo => todo[g] = {}

\* Some goroutine will still reconcile the tunnel from the start.
Pending(t) == \E g \in Goroutines : pc[g] = "list" \/ t \in todo[g]

FilesOK(t) == files[t] = [hosts |-> routes[t], cred |-> tunnel[t].cred]

\* The goroutine, if it works on the tunnel, works from the present tables.
Fresh(g, t) ==
    cur[g] = t =>
      /\ pc[g] \in {"collect", "write", "apply"} => row[g] = tunnel[t]
      /\ pc[g] = "write" => ingress[g] = routes[t]
      /\ pc[g] = "apply" => FilesOK(t)

Busy(g, t) == cur[g] = t /\ pc[g] \in {"collect", "write", "apply"} \cup Deleting

Settled(t) == FilesOK(t) /\ sys[t] # NoProject /\ sys[t].enabled = tunnel[t].enabled

\* A tunnel that nobody will reconcile again is being reconciled or deleted
\* from the present tables, or is as its row says.
InSync(t) ==
    \/ tunnel[t] = NoTunnel \/ files[t] = Dirs \/ Pending(t)
    \/ /\ \A g \in Goroutines : Fresh(g, t)
       /\ (\E g \in Goroutines : Busy(g, t)) \/ Settled(t)

SyncInv == \A t \in Tunnels : InSync(t)

\* A start or a deployment still to come that would find no files.
Awaited(t) == jobs[t]["start"] > 0 \/ jobs[t]["deploy"] > 0

\* A system project has files, and whoever makes one has written them; so only
\* a deletion that overtakes a start or a deployment makes it find none.
DirInv ==
    /\ \A g \in Goroutines :
         /\ pc[g] = "apply" => files[cur[g]] # NoFile
         /\ pc[g] = "removeAll" => sys[cur[g]] = NoProject
    /\ \A t \in Tunnels :
         /\ sys[t] # NoProject => files[t] # NoFile
         /\ files[t] = NoFile /\ Awaited(t) => t \in overtaken
         /\ files[t] = Dirs => t \in overtaken

TunnelInv == Types /\ JobTypes /\ LockInv /\ SyncInv /\ DirInv

\* A step of one goroutine leaves the others where they are.
Only(g) ==
    \A h \in Goroutines \ {g} :
        /\ pc'[h] = pc[h] /\ todo'[h] = todo[h] /\ cur'[h] = cur[h]
        /\ row'[h] = row[h] /\ ingress'[h] = ingress[h]

-----------------------------------------------------------------------------
\* The steps of Next, named: every proof below has one case for each.
LEMMA NextCases ==
  ASSUME Next, NEW G,
         \A g \in Goroutines, t \in Tunnels, e \in BOOLEAN, c \in Creds :
            apiCreateTunnel(g, t, e, c) => G,
         \A g \in Goroutines, t \in Tunnels : apiUpdateTunnelRead(g, t) => G,
         \A g \in Goroutines, e \in BOOLEAN, i \in CFTunnelIDs \cup {Empty},
            c \in Secrets \cup {Empty} : apiUpdateTunnelWrite(g, e, i, c) => G,
         \A g \in Goroutines, t \in Tunnels : apiSyncTunnel(g, t) => G,
         \A g \in Goroutines, t \in Tunnels : apiDeleteTunnel(g, t) => G,
         \A g \in Goroutines, t \in Tunnels, hs \in SUBSET Hosts : saveProject(g, t, hs) => G,
         \A g \in Goroutines : ListTunnels(g) => G,
         \A g \in Goroutines : ReconcileLock(g) => G,
         \A g \in Goroutines : ReconcileDone(g) => G,
         \A g \in Goroutines : collectIngressFor(g) => G,
         \A g \in Goroutines : writeFiles(g) => G,
         \A g \in Goroutines : writeFilesFails(g) => G,
         \A g \in Goroutines : createSystemProject(g) => G,
         \A g \in Goroutines : updateSystemProject(g) => G,
         \A g \in Goroutines : stopDisabled(g) => G,
         \A g \in Goroutines : deleteStop(g) => G,
         \A g \in Goroutines : deleteProject(g) => G,
         \A g \in Goroutines : removeAll(g) => G,
         \A g \in Goroutines : deleteTunnel(g) => G,
         \A g \in Goroutines : Restart(g) => G,
         \A t \in Tunnels : Background(t) => G
  PROVE  G
  BY DEF Next, Handler, Step

\* The type invariant is preserved.
LEMMA TypesInductive ==
  ASSUME Types, [Next]_vars
  PROVE  Types'
  <1> USE DEF Types, HasRow, Held, Deleting, Places
  <1>a. ASSUME NEW g \in Goroutines, NEW t \in Tunnels, NEW e \in BOOLEAN, NEW c \in Creds,
               apiCreateTunnel(g, t, e, c)
        PROVE  Types'
    BY <1>a DEF apiCreateTunnel, Request, Go, host, Rows
  <1>b. ASSUME NEW g \in Goroutines, NEW t \in Tunnels, apiUpdateTunnelRead(g, t)
        PROVE  Types'
    BY <1>b DEF apiUpdateTunnelRead, Request, Go, tables, host
  <1>c. ASSUME NEW g \in Goroutines, NEW e \in BOOLEAN, NEW i \in CFTunnelIDs \cup {Empty},
               NEW c \in Secrets \cup {Empty}, apiUpdateTunnelWrite(g, e, i, c)
        PROVE  Types'
    <2>1. row[g] \in Rows /\ cur[g] \in Tunnels
      BY <1>c DEF apiUpdateTunnelWrite
    <2>2. MergeTunnel(row[g], e, i, c) \in Rows
      BY <2>1 DEF MergeTunnel, Rows, Creds
    <2> QED  BY <1>c, <2>1, <2>2 DEF apiUpdateTunnelWrite, Go, host
  <1>d. ASSUME NEW g \in Goroutines, NEW t \in Tunnels, apiSyncTunnel(g, t)
        PROVE  Types'
    BY <1>d DEF apiSyncTunnel, Request, Go, tables, host
  <1>e. ASSUME NEW g \in Goroutines, NEW t \in Tunnels, apiDeleteTunnel(g, t)
        PROVE  Types'
    BY <1>e DEF apiDeleteTunnel, Request, Go, tables, host
  <1>f. ASSUME NEW g \in Goroutines, NEW t \in Tunnels, NEW hs \in SUBSET Hosts,
               saveProject(g, t, hs)
        PROVE  Types'
    BY <1>f DEF saveProject, Request, Go, host
  <1>g. ASSUME NEW g \in Goroutines, ListTunnels(g)
        PROVE  Types'
    BY <1>g DEF ListTunnels, Go, tables, host
  <1>h. ASSUME NEW g \in Goroutines, ReconcileLock(g)
        PROVE  Types'
    BY <1>h DEF ReconcileLock, Go, tables, host
  <1>i. ASSUME NEW g \in Goroutines, ReconcileDone(g)
        PROVE  Types'
    BY <1>i DEF ReconcileDone, Go, tables, host
  <1>j. ASSUME NEW g \in Goroutines, collectIngressFor(g)
        PROVE  Types'
    BY <1>j DEF collectIngressFor, Go, tables, host
  <1>k. ASSUME NEW g \in Goroutines, writeFiles(g)
        PROVE  Types'
    <2>1. row[g] \in Rows /\ cur[g] \in Tunnels /\ ingress[g] \in SUBSET Hosts
      BY <1>k DEF writeFiles
    <2>2. [hosts |-> ingress[g], cred |-> row[g].cred] \in Files
      BY <2>1 DEF Rows, Files
    <2>3. files' = [files EXCEPT ![cur[g]] = [hosts |-> ingress[g], cred |-> row[g].cred]]
      BY <1>k DEF writeFiles
    <2>4. files' \in [Tunnels -> Files \cup {NoFile, Dirs}]
      BY <2>1, <2>2, <2>3
    <2> QED  BY <1>k, <2>4 DEF writeFiles, Go, tables
  <1>l. ASSUME NEW g \in Goroutines, writeFilesFails(g)
        PROVE  Types'
    BY <1>l DEF writeFilesFails, Unlock, Go, tables, host
  <1>m. ASSUME NEW g \in Goroutines, createSystemProject(g)
        PROVE  Types'
    <2>1. row[g] \in Rows /\ cur[g] \in Tunnels
      BY <1>m DEF createSystemProject
    <2>2. [enabled |-> row[g].enabled, deployed |-> FALSE] \in SysRows
      BY <2>1 DEF Rows, SysRows
    <2>3. sys' = [sys EXCEPT ![cur[g]] = [enabled |-> row[g].enabled, deployed |-> FALSE]]
      BY <1>m DEF createSystemProject
    <2>4. sys' \in [Tunnels -> SysRows \cup {NoProject}]
      BY <2>2, <2>3
    <2> QED  BY <1>m, <2>4 DEF createSystemProject, Unlock, Go, host
  <1>n. ASSUME NEW g \in Goroutines, updateSystemProject(g)
        PROVE  Types'
    <2>1. row[g] \in Rows /\ cur[g] \in Tunnels /\ sys[cur[g]] \in SysRows
      BY <1>n DEF updateSystemProject
    <2>2. [sys[cur[g]] EXCEPT !.enabled = row[g].enabled] \in SysRows
      BY <2>1 DEF Rows, SysRows
    <2>3. sys' = [sys EXCEPT ![cur[g]] = [sys[cur[g]] EXCEPT !.enabled = row[g].enabled]]
      BY <1>n, <2>1 DEF updateSystemProject
    <2>4. sys' \in [Tunnels -> SysRows \cup {NoProject}]
      BY <2>2, <2>3
    <2>5. mu' \in {mu, Nobody} /\ pc' \in [Goroutines -> Places] /\ todo' \in [Goroutines -> SUBSET Tunnels]
      BY <1>n DEF updateSystemProject, Unlock, Go
    <2>6. UNCHANGED <<tunnel, routes, files, cur, row, ingress>>
      BY <1>n DEF updateSystemProject, host
    <2>7. \A h \in Goroutines : pc'[h] \in Held \cup HasRow => pc[h] \in HasRow \/ pc'[h] = pc[h]
      BY <1>n DEF updateSystemProject, Unlock, Go
    <2>8. \A h \in Goroutines : pc'[h] \in HasRow => pc[h] \in HasRow
      BY <1>n DEF updateSystemProject, Unlock, Go
    <2> QED  BY <2>4, <2>5, <2>6, <2>7, <2>8
  <1>o. ASSUME NEW g \in Goroutines, stopDisabled(g)
        PROVE  Types'
    BY <1>o DEF stopDisabled, Unlock, Go, tables
  <1>p. ASSUME NEW g \in Goroutines, deleteStop(g)
        PROVE  Types'
    BY <1>p DEF deleteStop, Go, tables
  <1>q. ASSUME NEW g \in Goroutines, deleteProject(g) \/ removeAll(g) \/ deleteTunnel(g)
        PROVE  Types'
    <2>1. CASE deleteProject(g)
      BY <2>1 DEF deleteProject, Go, host
    <2>2. CASE removeAll(g)
      BY <2>2 DEF removeAll, Go, tables
    <2>3. CASE deleteTunnel(g)
      BY <2>3 DEF deleteTunnel, Go, host
    <2> QED  BY <1>q, <2>1, <2>2, <2>3
  <1>r. ASSUME NEW g \in Goroutines, Restart(g)
        PROVE  Types'
    BY <1>r DEF Restart, tables, host
  <1>s. ASSUME NEW t \in Tunnels, Background(t)
        PROVE  Types'
    <2>1. UNCHANGED <<tunnel, routes, mu, pc, todo, cur, row, ingress>>
      BY <1>s DEF Background, startCloudflared, restartCloudflared, pollBegin, pollDeploy,
                  EndJob, tables, host, locals
    <2>2. files' \in [Tunnels -> Files \cup {NoFile, Dirs}]
      BY <1>s DEF Background, startCloudflared, restartCloudflared, pollBegin, pollDeploy,
                  WriteComposeFiles, host
    <2>3. sys' \in [Tunnels -> SysRows \cup {NoProject}]
      <3>1. ASSUME NEW r \in SysRows
            PROVE  [r EXCEPT !.deployed = TRUE] \in SysRows
        BY DEF SysRows
      <3>2. CASE pollDeploy(t)
        <4>1. CASE sys[t] = NoProject \/ faults' # faults
          BY <3>2, <4>1 DEF pollDeploy
        <4>2. CASE sys[t] # NoProject /\ faults' = faults
          <5>1. sys' = [sys EXCEPT ![t] = [sys[t] EXCEPT !.deployed = TRUE]]
            BY <3>2, <4>2 DEF pollDeploy
          <5>2. [sys[t] EXCEPT !.deployed = TRUE] \in SysRows
            BY <3>1, <4>2
          <5> QED  BY <5>1, <5>2
        <4> QED  BY <4>1, <4>2
      <3>3. CASE UNCHANGED sys
        BY <3>3
      <3> QED  BY <1>s, <3>2, <3>3 DEF Background, startCloudflared, restartCloudflared,
                                     pollBegin, tables
    <2> QED  BY <2>1, <2>2, <2>3
  <1>t. UNCHANGED vars => Types'
    BY DEF vars, tables, host, locals
  <1> HIDE DEF Types
  <1>u. CASE Next
    BY <1>u, <1>a, <1>b, <1>c, <1>d, <1>e, <1>f, <1>g, <1>h, <1>i, <1>j, <1>k, <1>l, <1>m, <1>n,
       <1>o, <1>p, <1>q, <1>r, <1>s, NextCases
  <1> QED  BY <1>t, <1>u

\* Jobs are counted.
LEMMA JobsInductive ==
  ASSUME Types, JobTypes, [Next]_vars
  PROVE  JobTypes'
  <1>1. ASSUME NEW t \in Tunnels, NEW j \in Jobs, jobs' = [jobs EXCEPT ![t][j] = @ + 1]
        PROVE  JobTypes'
    BY <1>1 DEF JobTypes
  <1>2. ASSUME NEW t \in Tunnels, NEW j \in Jobs, EndJob(t, j)
        PROVE  JobTypes'
    BY <1>2 DEF JobTypes, EndJob
  <1>3. ASSUME UNCHANGED jobs
        PROVE  JobTypes'
    BY <1>3 DEF JobTypes
  <1>a. ASSUME NEW g \in Goroutines, Handler(g)
        PROVE  JobTypes'
    BY <1>3, <1>a DEF Handler, apiCreateTunnel, apiUpdateTunnelRead, apiSyncTunnel, apiDeleteTunnel,
       saveProject
  <1>b. ASSUME NEW g \in Goroutines, Step(g), ~createSystemProject(g), ~updateSystemProject(g)
        PROVE  JobTypes'
    BY <1>3, <1>b DEF Step, apiUpdateTunnelWrite, ListTunnels, ReconcileLock, ReconcileDone,
       collectIngressFor, writeFiles, writeFilesFails, stopDisabled, deleteStop, deleteProject,
       removeAll, deleteTunnel
  <1>c. ASSUME NEW g \in Goroutines, createSystemProject(g) \/ updateSystemProject(g)
        PROVE  JobTypes'
    <2>1. cur[g] \in Tunnels
      BY <1>c DEF Types, createSystemProject, updateSystemProject, Held
    <2>2. jobs' = jobs \/ \E j \in Jobs : jobs' = [jobs EXCEPT ![cur[g]][j] = @ + 1]
      BY <1>c DEF createSystemProject, updateSystemProject, Spawn, Jobs
    <2> QED  BY <1>1, <1>3, <2>1, <2>2
  <1>d. ASSUME NEW t \in Tunnels, Background(t)
        PROVE  JobTypes'
    <2>1. \/ \E j \in Jobs : EndJob(t, j)
          \/ \E j \in Jobs : jobs' = [jobs EXCEPT ![t][j] = @ + 1]
      BY <1>d DEF Background, startCloudflared, restartCloudflared, pollBegin, pollDeploy, Spawn, Jobs
    <2> QED  BY <1>1, <1>2, <2>1
  <1>e. ASSUME NEW g \in Goroutines, Restart(g)
        PROVE  JobTypes'
    BY <1>e DEF Restart, NoJobs, JobTypes
  <1>f. UNCHANGED vars => JobTypes'
    BY <1>3 DEF vars
  <1> QED  BY <1>a, <1>b, <1>c, <1>d, <1>e, <1>f DEF Next

\* The mutex is kept by a step of one goroutine that takes or releases it
\* together with its place.
LEMMA LockKept ==
  ASSUME LockInv, NEW g \in Goroutines, Only(g),
         mu' = mu \/ {mu, mu'} = {g, Nobody},
         pc'[g] \in Held <=> mu' = g,
         pc'[g] \in NoTodo => todo'[g] = {}
  PROVE  LockInv'
  <1>1. \A h \in Goroutines \ {g} : (mu' = h) <=> (mu = h)
    BY TunnelAssumption
  <1> QED  BY <1>1 DEF LockInv, Only

\* The mutex, and what is left to a goroutine, are preserved.
LEMMA LockInductive ==
  ASSUME Types, LockInv, [Next]_vars
  PROVE  LockInv'
  <1>0. /\ pc \in [Goroutines -> Places] /\ todo \in [Goroutines -> SUBSET Tunnels]
        /\ cur \in [Goroutines -> Tunnels \cup {CHOOSE t \in Tunnels : TRUE}]
        /\ row \in [Goroutines -> Rows \cup {NoTunnel}]
        /\ ingress \in [Goroutines -> SUBSET Hosts] /\ mu \in Goroutines \cup {Nobody}
        /\ Nobody \notin Goroutines
    BY TunnelAssumption DEF Types
  <1>a. ASSUME NEW g \in Goroutines, NEW t \in Tunnels, NEW e \in BOOLEAN, NEW c \in Creds,
               apiCreateTunnel(g, t, e, c)
        PROVE  LockInv'
    <2>1. Only(g)
      BY <1>0, <1>a DEF Only, apiCreateTunnel, Request, Go, host
    <2>2. /\ mu' = mu \/ {mu, mu'} = {g, Nobody}
          /\ pc'[g] \in Held <=> mu' = g
          /\ pc'[g] \in NoTodo => todo'[g] = {}
      BY <1>0, <1>a DEF apiCreateTunnel, Request, Go, host, LockInv, Held, NoTodo, Deleting
    <2> QED  BY <2>1, <2>2, LockKept
  <1>b. ASSUME NEW g \in Goroutines, NEW t \in Tunnels, apiUpdateTunnelRead(g, t)
        PROVE  LockInv'
    <2>1. Only(g)
      BY <1>0, <1>b DEF Only, apiUpdateTunnelRead, Request, Go, tables, host
    <2>2. /\ mu' = mu \/ {mu, mu'} = {g, Nobody}
          /\ pc'[g] \in Held <=> mu' = g
          /\ pc'[g] \in NoTodo => todo'[g] = {}
      BY <1>0, <1>b DEF apiUpdateTunnelRead, Request, Go, tables, host, LockInv, Held, NoTodo, Deleting
    <2> QED  BY <2>1, <2>2, LockKept
  <1>c. ASSUME NEW g \in Goroutines, NEW e \in BOOLEAN, NEW i \in CFTunnelIDs \cup {Empty},
               NEW c \in Secrets \cup {Empty}, apiUpdateTunnelWrite(g, e, i, c)
        PROVE  LockInv'
    <2>1. Only(g)
      BY <1>0, <1>c DEF Only, apiUpdateTunnelWrite, Go, host
    <2>2. /\ mu' = mu \/ {mu, mu'} = {g, Nobody}
          /\ pc'[g] \in Held <=> mu' = g
          /\ pc'[g] \in NoTodo => todo'[g] = {}
      BY <1>0, <1>c DEF apiUpdateTunnelWrite, Go, host, LockInv, Held, NoTodo, Deleting
    <2> QED  BY <2>1, <2>2, LockKept
  <1>d. ASSUME NEW g \in Goroutines, NEW t \in Tunnels, apiSyncTunnel(g, t)
        PROVE  LockInv'
    <2>1. Only(g)
      BY <1>0, <1>d DEF Only, apiSyncTunnel, Request, Go, tables, host
    <2>2. /\ mu' = mu \/ {mu, mu'} = {g, Nobody}
          /\ pc'[g] \in Held <=> mu' = g
          /\ pc'[g] \in NoTodo => todo'[g] = {}
      BY <1>0, <1>d DEF apiSyncTunnel, Request, Go, tables, host, LockInv, Held, NoTodo, Deleting
    <2> QED  BY <2>1, <2>2, LockKept
  <1>e. ASSUME NEW g \in Goroutines, NEW t \in Tunnels, apiDeleteTunnel(g, t)
        PROVE  LockInv'
    <2>1. Only(g)
      BY <1>0, <1>e DEF Only, apiDeleteTunnel, Request, Go, tables, host
    <2>2. /\ mu' = mu \/ {mu, mu'} = {g, Nobody}
          /\ pc'[g] \in Held <=> mu' = g
          /\ pc'[g] \in NoTodo => todo'[g] = {}
      BY <1>0, <1>e DEF apiDeleteTunnel, Request, Go, tables, host, LockInv, Held, NoTodo, Deleting
    <2> QED  BY <2>1, <2>2, LockKept
  <1>f. ASSUME NEW g \in Goroutines, NEW t \in Tunnels, NEW hs \in SUBSET Hosts, saveProject(g, t, hs)
        PROVE  LockInv'
    <2>1. Only(g)
      BY <1>0, <1>f DEF Only, saveProject, Request, Go, host
    <2>2. /\ mu' = mu \/ {mu, mu'} = {g, Nobody}
          /\ pc'[g] \in Held <=> mu' = g
          /\ pc'[g] \in NoTodo => todo'[g] = {}
      BY <1>0, <1>f DEF saveProject, Request, Go, host, LockInv, Held, NoTodo, Deleting
    <2> QED  BY <2>1, <2>2, LockKept
  <1>g. ASSUME NEW g \in Goroutines, ListTunnels(g)
        PROVE  LockInv'
    <2>1. Only(g)
      BY <1>0, <1>g DEF Only, ListTunnels, Go, tables, host
    <2>2. /\ mu' = mu \/ {mu, mu'} = {g, Nobody}
          /\ pc'[g] \in Held <=> mu' = g
          /\ pc'[g] \in NoTodo => todo'[g] = {}
      BY <1>0, <1>g DEF ListTunnels, Go, tables, host, LockInv, Held, NoTodo, Deleting
    <2> QED  BY <2>1, <2>2, LockKept
  <1>h. ASSUME NEW g \in Goroutines, ReconcileLock(g)
        PROVE  LockInv'
    <2>1. Only(g)
      BY <1>0, <1>h DEF Only, ReconcileLock, Go, tables, host
    <2>2. /\ mu' = mu \/ {mu, mu'} = {g, Nobody}
          /\ pc'[g] \in Held <=> mu' = g
          /\ pc'[g] \in NoTodo => todo'[g] = {}
      BY <1>0, <1>h DEF ReconcileLock, Go, tables, host, LockInv, Held, NoTodo, Deleting
    <2> QED  BY <2>1, <2>2, LockKept
  <1>i. ASSUME NEW g \in Goroutines, ReconcileDone(g)
        PROVE  LockInv'
    <2>1. Only(g)
      BY <1>0, <1>i DEF Only, ReconcileDone, Go, tables, host
    <2>2. /\ mu' = mu \/ {mu, mu'} = {g, Nobody}
          /\ pc'[g] \in Held <=> mu' = g
          /\ pc'[g] \in NoTodo => todo'[g] = {}
      BY <1>0, <1>i DEF ReconcileDone, Go, tables, host, LockInv, Held, NoTodo, Deleting
    <2> QED  BY <2>1, <2>2, LockKept
  <1>j. ASSUME NEW g \in Goroutines, collectIngressFor(g)
        PROVE  LockInv'
    <2>1. Only(g)
      BY <1>0, <1>j DEF Only, collectIngressFor, Go, tables, host
    <2>2. /\ mu' = mu \/ {mu, mu'} = {g, Nobody}
          /\ pc'[g] \in Held <=> mu' = g
          /\ pc'[g] \in NoTodo => todo'[g] = {}
      BY <1>0, <1>j DEF collectIngressFor, Go, tables, host, LockInv, Held, NoTodo, Deleting
    <2> QED  BY <2>1, <2>2, LockKept
  <1>k. ASSUME NEW g \in Goroutines, writeFiles(g)
        PROVE  LockInv'
    <2>1. Only(g)
      BY <1>0, <1>k DEF Only, writeFiles, Go, tables
    <2>2. /\ mu' = mu \/ {mu, mu'} = {g, Nobody}
          /\ pc'[g] \in Held <=> mu' = g
          /\ pc'[g] \in NoTodo => todo'[g] = {}
      BY <1>0, <1>k DEF writeFiles, Go, tables, LockInv, Held, NoTodo, Deleting
    <2> QED  BY <2>1, <2>2, LockKept
  <1>l. ASSUME NEW g \in Goroutines, writeFilesFails(g)
        PROVE  LockInv'
    <2>1. Only(g)
      BY <1>0, <1>l DEF Only, writeFilesFails, Unlock, Go, tables, host
    <2>2. /\ mu' = mu \/ {mu, mu'} = {g, Nobody}
          /\ pc'[g] \in Held <=> mu' = g
          /\ pc'[g] \in NoTodo => todo'[g] = {}
      BY <1>0, <1>l DEF writeFilesFails, Unlock, Go, tables, host, LockInv, Held, NoTodo, Deleting
    <2> QED  BY <2>1, <2>2, LockKept
  <1>m. ASSUME NEW g \in Goroutines, createSystemProject(g)
        PROVE  LockInv'
    <2>1. Only(g)
      BY <1>0, <1>m DEF Only, createSystemProject, Unlock, Go, host
    <2>2. /\ mu' = mu \/ {mu, mu'} = {g, Nobody}
          /\ pc'[g] \in Held <=> mu' = g
          /\ pc'[g] \in NoTodo => todo'[g] = {}
      BY <1>0, <1>m DEF createSystemProject, Unlock, Go, host, LockInv, Held, NoTodo, Deleting
    <2> QED  BY <2>1, <2>2, LockKept
  <1>n. ASSUME NEW g \in Goroutines, updateSystemProject(g)
        PROVE  LockInv'
    <2>1. Only(g)
      BY <1>0, <1>n DEF Only, updateSystemProject, Unlock, Go, host
    <2>2. /\ mu' = mu \/ {mu, mu'} = {g, Nobody}
          /\ pc'[g] \in Held <=> mu' = g
          /\ pc'[g] \in NoTodo => todo'[g] = {}
      BY <1>0, <1>n DEF updateSystemProject, Unlock, Go, host, LockInv, Held, NoTodo, Deleting
    <2> QED  BY <2>1, <2>2, LockKept
  <1>o. ASSUME NEW g \in Goroutines, stopDisabled(g)
        PROVE  LockInv'
    <2>1. Only(g)
      BY <1>0, <1>o DEF Only, stopDisabled, Unlock, Go, tables
    <2>2. /\ mu' = mu \/ {mu, mu'} = {g, Nobody}
          /\ pc'[g] \in Held <=> mu' = g
          /\ pc'[g] \in NoTodo => todo'[g] = {}
      BY <1>0, <1>o DEF stopDisabled, Unlock, Go, tables, LockInv, Held, NoTodo, Deleting
    <2> QED  BY <2>1, <2>2, LockKept
  <1>p. ASSUME NEW g \in Goroutines, deleteStop(g)
        PROVE  LockInv'
    <2>1. Only(g)
      BY <1>0, <1>p DEF Only, deleteStop, Go, tables
    <2>2. /\ mu' = mu \/ {mu, mu'} = {g, Nobody}
          /\ pc'[g] \in Held <=> mu' = g
          /\ pc'[g] \in NoTodo => todo'[g] = {}
      BY <1>0, <1>p DEF deleteStop, Go, tables, LockInv, Held, NoTodo, Deleting
    <2> QED  BY <2>1, <2>2, LockKept
  <1>q. ASSUME NEW g \in Goroutines, deleteProject(g) \/ removeAll(g) \/ deleteTunnel(g)
        PROVE  LockInv'
    <2>1. Only(g)
      BY <1>0, <1>q DEF Only, deleteProject, removeAll, deleteTunnel, Go, tables, host
    <2>2. /\ mu' = mu \/ {mu, mu'} = {g, Nobody}
          /\ pc'[g] \in Held <=> mu' = g
          /\ pc'[g] \in NoTodo => todo'[g] = {}
      BY <1>0, <1>q DEF deleteProject, removeAll, deleteTunnel, Go, LockInv, Held, NoTodo, Deleting
    <2> QED  BY <2>1, <2>2, LockKept
  <1>r. ASSUME NEW g \in Goroutines, Restart(g)
        PROVE  LockInv'
    BY <1>0, <1>r DEF Restart, LockInv, Held, NoTodo, Deleting
  <1>s. ASSUME NEW t \in Tunnels, Background(t)
        PROVE  LockInv'
    BY <1>s DEF Background, startCloudflared, restartCloudflared, pollBegin, pollDeploy,
                EndJob, locals, LockInv
  <1>t. UNCHANGED vars => LockInv'
    BY DEF vars, locals, LockInv
  <1>u. CASE Next
    BY <1>u, <1>a, <1>b, <1>c, <1>d, <1>e, <1>f, <1>g, <1>h, <1>i, <1>j, <1>k, <1>l, <1>m, <1>n,
       <1>o, <1>p, <1>q, <1>r, <1>s, NextCases
  <1> QED  BY <1>t, <1>u

\* A step of one goroutine keeps a tunnel in sync whose rows and files it
\* leaves alone, if the goroutine stays responsible for what it was.
LEMMA SyncKept ==
  ASSUME NEW g \in Goroutines, NEW t \in Tunnels, InSync(t), Only(g),
         tunnel'[t] = tunnel[t], routes'[t] = routes[t],
         files'[t] = files[t], sys'[t] = sys[t],
         pc[g] # "list" \/ pc'[g] = "list", t \in todo[g] => t \in todo'[g],
         Fresh(g, t) => Fresh(g, t)', Busy(g, t) => Busy(g, t)'
  PROVE  InSync(t)'
  <1>1. Pending(t) => Pending(t)'
    BY DEF Pending, Only
  <1>2. FilesOK(t)' <=> FilesOK(t)
    BY DEF FilesOK
  <1>3. ASSUME NEW h \in Goroutines
        PROVE  (Fresh(h, t) => Fresh(h, t)') /\ (Busy(h, t) => Busy(h, t)')
    BY <1>2 DEF Fresh, Busy, Only
  <1>4. Settled(t) => Settled(t)'
    BY <1>2 DEF Settled
  <1> QED  BY <1>1, <1>3, <1>4 DEF InSync

\* A goroutine that neither reconciles nor deletes the tunnel is of no
\* concern to it.
LEMMA SyncAside ==
  ASSUME NEW g \in Goroutines, NEW t \in Tunnels, InSync(t), Only(g),
         tunnel'[t] = tunnel[t], routes'[t] = routes[t],
         files'[t] = files[t], sys'[t] = sys[t],
         pc[g] # "list" \/ pc'[g] = "list", t \in todo[g] => t \in todo'[g],
         pc[g] \in {"collect", "write", "apply"} \cup Deleting => cur[g] # t,
         pc'[g] \in {"collect", "write", "apply"} => cur'[g] # t
  PROVE  InSync(t)'
  <1>1. Fresh(g, t)' /\ ~Busy(g, t)
    BY DEF Fresh, Busy
  <1> QED  BY <1>1, SyncKept

\* What cloudflared and the scheduler do keeps every tunnel in sync.
LEMMA SyncHost ==
  ASSUME NEW t \in Tunnels, InSync(t),
         UNCHANGED <<tunnel, routes, pc, todo, cur, row, ingress>>,
         files'[t] \in {files[t], Dirs},
         sys[t] # NoProject => sys'[t] # NoProject /\ sys'[t].enabled = sys[t].enabled
  PROVE  InSync(t)'
  <1>1. CASE files'[t] = Dirs
    BY <1>1 DEF InSync
  <1>2. CASE files'[t] = files[t]
    <2>1. FilesOK(t)' <=> FilesOK(t)
      BY <1>2 DEF FilesOK
    <2>2. Pending(t)' <=> Pending(t)
      BY DEF Pending
    <2>3. \A h \in Goroutines : (Fresh(h, t)' <=> Fresh(h, t)) /\ (Busy(h, t)' <=> Busy(h, t))
      BY <2>1 DEF Fresh, Busy
    <2>4. Settled(t) => Settled(t)'
      BY <2>1 DEF Settled
    <2> QED  BY <1>2, <2>2, <2>3, <2>4 DEF InSync
  <1> QED  BY <1>1, <1>2

\* The goroutine that holds the mutex is the only one that works on a tunnel.
LEMMA Alone ==
  ASSUME LockInv, NEW g \in Goroutines, NEW h \in Goroutines, NEW t \in Tunnels,
         mu = g \/ mu = Nobody, h # g
  PROVE  Fresh(h, t) /\ ~Busy(h, t) /\ pc[h] \notin Held
  <1>1. mu # h
    BY TunnelAssumption
  <1>2. pc[h] \notin Held
    BY <1>1 DEF LockInv
  <1> QED  BY <1>2 DEF Fresh, Busy, Held, Deleting

\* A tunnel is in sync, or somebody is about to reconcile or delete it.
LEMMA SyncInductive ==
  ASSUME Types, LockInv, SyncInv, [Next]_vars
  PROVE  SyncInv'
  <1>0. /\ pc \in [Goroutines -> Places] /\ todo \in [Goroutines -> SUBSET Tunnels]
        /\ cur \in [Goroutines -> Tunnels \cup {CHOOSE t \in Tunnels : TRUE}]
        /\ row \in [Goroutines -> Rows \cup {NoTunnel}]
        /\ ingress \in [Goroutines -> SUBSET Hosts] /\ mu \in Goroutines \cup {Nobody}
        /\ Nobody \notin Goroutines
        /\ tunnel \in [Tunnels -> Rows \cup {NoTunnel}] /\ routes \in [Tunnels -> SUBSET Hosts]
        /\ sys \in [Tunnels -> SysRows \cup {NoProject}]
        /\ files \in [Tunnels -> Files \cup {NoFile, Dirs}]
        /\ \A g \in Goroutines :
             /\ pc[g] \in HasRow => row[g] \in Rows
             /\ pc[g] \in Held \cup HasRow => cur[g] \in Tunnels
    BY TunnelAssumption DEF Types
  <1>1. ASSUME NEW g \in Goroutines, NEW u \in Tunnels, u \in todo'[g]
        PROVE  InSync(u)'
    BY <1>1 DEF InSync, Pending
  <1>2. \A t \in Tunnels : InSync(t)
    BY DEF SyncInv
  <1>3. SUFFICES ASSUME NEW u \in Tunnels
                 PROVE  InSync(u)'
    BY DEF SyncInv
  <1>a. ASSUME NEW g \in Goroutines, NEW t \in Tunnels, NEW e \in BOOLEAN, NEW c \in Creds,
               apiCreateTunnel(g, t, e, c)
        PROVE  InSync(u)'
    <2>1. Only(g) /\ pc[g] = "idle" /\ pc'[g] = "next" /\ todo'[g] = {t} /\ todo[g] = {}
      BY <1>0, <1>a DEF apiCreateTunnel, Request, Go, Only, LockInv, NoTodo
    <2>2. CASE u = t
      BY <1>1, <2>1, <2>2
    <2>3. CASE u # t
      <3>1. tunnel'[u] = tunnel[u] /\ UNCHANGED <<routes, files, sys>>
        BY <1>0, <1>a, <2>3 DEF apiCreateTunnel, host
      <3> QED  BY <1>2, <2>1, <3>1, SyncAside DEF Deleting
    <2> QED  BY <2>2, <2>3
  <1>b. ASSUME NEW g \in Goroutines, NEW t \in Tunnels, apiUpdateTunnelRead(g, t)
        PROVE  InSync(u)'
    <2>1. /\ Only(g) /\ pc[g] = "idle" /\ pc'[g] = "update" /\ todo[g] = {}
          /\ UNCHANGED <<tunnel, routes, files, sys>>
      BY <1>0, <1>b DEF apiUpdateTunnelRead, Request, Go, Only, LockInv, NoTodo, tables, host
    <2> QED  BY <1>2, <2>1, SyncAside DEF Deleting
  <1>c. ASSUME NEW g \in Goroutines, NEW e \in BOOLEAN, NEW i \in CFTunnelIDs \cup {Empty},
               NEW c \in Secrets \cup {Empty}, apiUpdateTunnelWrite(g, e, i, c)
        PROVE  InSync(u)'
    <2>1. /\ Only(g) /\ pc[g] = "update" /\ pc'[g] = "next" /\ todo'[g] = {cur[g]}
          /\ todo[g] = {} /\ cur[g] \in Tunnels
      BY <1>0, <1>c DEF apiUpdateTunnelWrite, Go, Only, LockInv, NoTodo, HasRow
    <2>2. CASE u = cur[g]
      BY <1>1, <2>1, <2>2
    <2>3. CASE u # cur[g]
      <3>1. tunnel'[u] = tunnel[u] /\ UNCHANGED <<routes, files, sys>>
        BY <1>0, <1>c, <2>1, <2>3 DEF apiUpdateTunnelWrite, host
      <3> QED  BY <1>2, <2>1, <3>1, SyncAside DEF Deleting
    <2> QED  BY <2>2, <2>3
  <1>d. ASSUME NEW g \in Goroutines, NEW t \in Tunnels, apiSyncTunnel(g, t)
        PROVE  InSync(u)'
    <2>1. /\ Only(g) /\ pc[g] = "idle" /\ pc'[g] = "next" /\ todo[g] = {}
          /\ UNCHANGED <<tunnel, routes, files, sys>>
      BY <1>0, <1>d DEF apiSyncTunnel, Request, Go, Only, LockInv, NoTodo, tables, host
    <2> QED  BY <1>2, <2>1, SyncAside DEF Deleting
  <1>e. ASSUME NEW g \in Goroutines, NEW t \in Tunnels, apiDeleteTunnel(g, t)
        PROVE  InSync(u)'
    <2>1. /\ Only(g) /\ pc[g] = "idle" /\ pc'[g] \in {"stop", "deleteTunnel"} /\ todo[g] = {}
          /\ UNCHANGED <<tunnel, routes, files, sys>>
      BY <1>0, <1>e DEF apiDeleteTunnel, Request, Go, Only, LockInv, NoTodo, tables, host
    <2> QED  BY <1>2, <2>1, SyncAside DEF Deleting
  <1>f. ASSUME NEW g \in Goroutines, NEW t \in Tunnels, NEW hs \in SUBSET Hosts,
               saveProject(g, t, hs)
        PROVE  InSync(u)'
    <2>1. pc'[g] = "list"
      BY <1>0, <1>f DEF saveProject, Go
    <2> QED  BY <2>1 DEF InSync, Pending
  <1>g. ASSUME NEW g \in Goroutines, ListTunnels(g)
        PROVE  InSync(u)'
    <2>1. tunnel[u] # NoTunnel => u \in todo'[g]
      BY <1>0, <1>g DEF ListTunnels, Go
    <2>2. tunnel' = tunnel
      BY <1>g DEF ListTunnels, tables
    <2> QED  BY <1>1, <2>1, <2>2 DEF InSync
  <1>h. ASSUME NEW g \in Goroutines, ReconcileLock(g)
        PROVE  InSync(u)'
    <2>1. PICK t \in todo[g] :
            /\ cur' = [cur EXCEPT ![g] = t] /\ row' = [row EXCEPT ![g] = tunnel[t]]
            /\ Go(g, IF tunnel[t] = NoTunnel THEN "next" ELSE "collect", todo[g] \ {t})
      BY <1>h DEF ReconcileLock
    <2>2. /\ Only(g) /\ pc[g] = "next" /\ mu = Nobody /\ todo'[g] = todo[g] \ {t}
          /\ cur'[g] = t /\ row'[g] = tunnel[t] /\ t \in Tunnels
          /\ pc'[g] = IF tunnel[t] = NoTunnel THEN "next" ELSE "collect"
          /\ UNCHANGED <<tunnel, routes, files, sys>>
      BY <1>0, <1>h, <2>1 DEF ReconcileLock, Go, Only, tables, host
    <2>3. CASE u # t
      BY <1>2, <2>2, <2>3, SyncAside DEF Deleting
    <2>4. CASE u = t /\ tunnel[t] # NoTunnel
      <3>1. \A h \in Goroutines \ {g} : pc'[h] \notin Held
        BY <2>2, Alone DEF Only
      <3>2. \A h \in Goroutines : Fresh(h, u)'
        BY <2>2, <2>4, <3>1 DEF Fresh, Held, Deleting
      <3>3. Busy(g, u)'
        BY <2>2, <2>4 DEF Busy
      <3> QED  BY <3>2, <3>3 DEF InSync
    <2>5. CASE u = t /\ tunnel[t] = NoTunnel
      BY <2>2, <2>5 DEF InSync
    <2> QED  BY <2>3, <2>4, <2>5
  <1>i. ASSUME NEW g \in Goroutines, ReconcileDone(g)
        PROVE  InSync(u)'
    <2>1. /\ Only(g) /\ pc[g] = "next" /\ pc'[g] = "idle" /\ todo[g] = {}
          /\ UNCHANGED <<tunnel, routes, files, sys>>
      BY <1>0, <1>i DEF ReconcileDone, Go, Only, tables, host
    <2> QED  BY <1>2, <2>1, SyncAside DEF Deleting
  <1>j. ASSUME NEW g \in Goroutines, collectIngressFor(g)
        PROVE  InSync(u)'
    <2>1. /\ Only(g) /\ pc[g] = "collect" /\ pc'[g] = "write" /\ todo'[g] = todo[g]
          /\ cur'[g] = cur[g] /\ row'[g] = row[g] /\ ingress'[g] = routes[cur[g]]
          /\ UNCHANGED <<tunnel, routes, files, sys>>
      BY <1>0, <1>j DEF collectIngressFor, Go, Only, tables, host
    <2>2. Fresh(g, u) => Fresh(g, u)'
      BY <2>1 DEF Fresh
    <2>3. Busy(g, u) => Busy(g, u)'
      BY <2>1 DEF Busy
    <2> QED  BY <1>2, <2>1, <2>2, <2>3, SyncKept
  <1>k. ASSUME NEW g \in Goroutines, writeFiles(g)
        PROVE  InSync(u)'
    <2>1. /\ Only(g) /\ pc[g] = "write" /\ pc'[g] = "apply" /\ todo'[g] = todo[g]
          /\ cur'[g] = cur[g] /\ row'[g] = row[g] /\ cur[g] \in Tunnels
          /\ UNCHANGED <<tunnel, routes, sys>>
          /\ files[cur[g]] # Dirs
          /\ files'[cur[g]] = [hosts |-> ingress[g], cred |-> row[g].cred]
          /\ \A t \in Tunnels \ {cur[g]} : files'[t] = files[t]
      BY <1>0, <1>k DEF writeFiles, Go, Only, tables, Held
    <2>2. CASE u # cur[g]
      BY <1>2, <2>1, <2>2, SyncAside DEF Deleting
    <2>3. CASE u = cur[g]
      <3>0. mu = g
        BY <2>1 DEF LockInv, Held, Deleting
      <3>1. Pending(u) => Pending(u)'
        BY <2>1 DEF Pending, Only
      <3>2. CASE tunnel[u] = NoTunnel \/ Pending(u)
        BY <2>1, <3>1, <3>2 DEF InSync
      <3>3. CASE tunnel[u] # NoTunnel /\ ~Pending(u)
        <4>1. Fresh(g, u)
          BY <1>2, <2>1, <2>3, <3>3 DEF InSync
        <4>2. row[g] = tunnel[u] /\ ingress[g] = routes[u]
          BY <2>1, <2>3, <4>1 DEF Fresh
        <4>3. FilesOK(u)'
          BY <2>1, <2>3, <4>2 DEF FilesOK
        <4>4. \A h \in Goroutines \ {g} : pc'[h] \notin Held
          BY <2>1, <3>0, Alone DEF Only
        <4>5. \A h \in Goroutines : Fresh(h, u)'
          BY <2>1, <2>3, <4>2, <4>3, <4>4 DEF Fresh, Held, Deleting
        <4>6. Busy(g, u)'
          BY <2>1, <2>3 DEF Busy
        <4> QED  BY <4>5, <4>6 DEF InSync
      <3> QED  BY <3>2, <3>3
    <2> QED  BY <2>2, <2>3
  <1>l. ASSUME NEW g \in Goroutines, writeFilesFails(g)
        PROVE  InSync(u)'
    <2>1. /\ Only(g) /\ pc[g] = "write" /\ pc'[g] = "next" /\ todo'[g] = todo[g]
          /\ UNCHANGED <<tunnel, routes, files, sys>> /\ files[cur[g]] = Dirs
      BY <1>0, <1>l DEF writeFilesFails, Unlock, Go, Only, tables, host
    <2>2. CASE u # cur[g]
      BY <1>2, <2>1, <2>2, SyncAside DEF Deleting
    <2>3. CASE u = cur[g]
      BY <2>1, <2>3 DEF InSync
    <2> QED  BY <2>2, <2>3
  <1>m. ASSUME NEW g \in Goroutines, createSystemProject(g) \/ updateSystemProject(g)
        PROVE  InSync(u)'
    <2>1. /\ Only(g) /\ pc[g] = "apply" /\ pc'[g] \in {"next", "down"} /\ todo'[g] = todo[g]
          /\ cur[g] \in Tunnels /\ row[g] \in Rows
          /\ UNCHANGED <<tunnel, routes, files>>
          /\ \A t \in Tunnels \ {cur[g]} : sys'[t] = sys[t]
      BY <1>0, <1>m DEF createSystemProject, updateSystemProject, Unlock, Go, Only, host, Held, HasRow
    <2>2. sys'[cur[g]] # NoProject /\ sys'[cur[g]].enabled = row[g].enabled
      <3>1. row[g].enabled \in BOOLEAN
        BY <2>1 DEF Rows
      <3>2. ASSUME NEW r \in SysRows
            PROVE  r # NoProject
        BY TunnelAssumption DEF SysRows
      <3>3. CASE createSystemProject(g)
        <4> DEFINE r == [enabled |-> row[g].enabled, deployed |-> FALSE]
        <4>1. sys'[cur[g]] = r
          BY <1>0, <2>1, <3>3 DEF createSystemProject
        <4>2. r \in SysRows /\ r.enabled = row[g].enabled
          BY <3>1 DEF SysRows
        <4> QED  BY <3>2, <4>1, <4>2
      <3>4. CASE updateSystemProject(g)
        <4> DEFINE r == [sys[cur[g]] EXCEPT !.enabled = row[g].enabled]
        <4>1. sys[cur[g]] \in SysRows
          BY <1>0, <2>1, <3>4 DEF updateSystemProject
        <4>2. sys'[cur[g]] = r
          BY <1>0, <2>1, <3>4 DEF updateSystemProject
        <4>3. r \in SysRows /\ r.enabled = row[g].enabled
          BY <3>1, <4>1 DEF SysRows
        <4> QED  BY <3>2, <4>2, <4>3
      <3> QED  BY <1>m, <3>3, <3>4
    <2>3. CASE u # cur[g]
      BY <1>2, <2>1, <2>3, SyncAside DEF Deleting
    <2>4. CASE u = cur[g]
      <3>0. mu = g
        BY <2>1 DEF LockInv, Held, Deleting
      <3>1. Pending(u) => Pending(u)'
        BY <2>1 DEF Pending, Only
      <3>2. CASE tunnel[u] = NoTunnel \/ files[u] = Dirs \/ Pending(u)
        BY <2>1, <3>1, <3>2 DEF InSync
      <3>3. CASE tunnel[u] # NoTunnel /\ files[u] # Dirs /\ ~Pending(u)
        <4>1. Fresh(g, u)
          BY <1>2, <3>3 DEF InSync
        <4>2. row[g] = tunnel[u] /\ FilesOK(u)
          BY <2>1, <2>4, <4>1 DEF Fresh
        <4>3. Settled(u)'
          BY <2>1, <2>2, <2>4, <4>2 DEF Settled, FilesOK
        <4>4. \A h \in Goroutines \ {g} : pc'[h] \notin Held
          BY <2>1, <3>0, Alone DEF Only
        <4>5. \A h \in Goroutines : Fresh(h, u)'
          BY <2>1, <4>4 DEF Fresh, Held, Deleting
        <4> QED  BY <4>3, <4>5 DEF InSync
      <3> QED  BY <3>2, <3>3
    <2> QED  BY <2>3, <2>4
  <1>o. ASSUME NEW g \in Goroutines, stopDisabled(g)
        PROVE  InSync(u)'
    <2>1. /\ Only(g) /\ pc[g] = "down" /\ pc'[g] = "next" /\ todo'[g] = todo[g]
          /\ UNCHANGED <<tunnel, routes, files, sys>>
      BY <1>0, <1>o DEF stopDisabled, Unlock, Go, Only, tables
    <2> QED  BY <1>2, <2>1, SyncAside DEF Deleting
  <1>p. ASSUME NEW g \in Goroutines, deleteStop(g)
        PROVE  InSync(u)'
    <2>1. /\ Only(g) /\ pc[g] = "stop" /\ pc'[g] = "deleteProject" /\ todo[g] = {}
          /\ cur'[g] = cur[g] /\ UNCHANGED <<tunnel, routes, files, sys>>
      BY <1>0, <1>p DEF deleteStop, Go, Only, tables, LockInv, NoTodo, Deleting
    <2>2. Fresh(g, u)' /\ (Busy(g, u) => Busy(g, u)')
      BY <2>1 DEF Fresh, Busy, Deleting
    <2> QED  BY <1>2, <2>1, <2>2, SyncKept
  <1>q. ASSUME NEW g \in Goroutines, deleteProject(g) \/ removeAll(g) \/ deleteTunnel(g)
        PROVE  InSync(u)'
    <2>0. pc[g] \in {"deleteProject", "removeAll", "deleteTunnel"} /\ cur[g] \in Tunnels
      BY <1>0, <1>q DEF deleteProject, removeAll, deleteTunnel, Held, Deleting
    <2>1. /\ Only(g) /\ pc'[g] \in {"removeAll", "deleteTunnel", "idle"} /\ todo[g] = {}
          /\ cur' = cur /\ routes' = routes
          /\ \A t \in Tunnels \ {cur[g]} :
               tunnel'[t] = tunnel[t] /\ files'[t] = files[t] /\ sys'[t] = sys[t]
      BY <1>0, <1>q, <2>0 DEF deleteProject, removeAll, deleteTunnel, Go, Only, LockInv, NoTodo,
                              Deleting, tables, host
    <2>2. CASE u # cur[g]
      BY <1>2, <2>0, <2>1, <2>2, SyncAside DEF Deleting
    <2>3. CASE u = cur[g] /\ deleteTunnel(g)
      BY <1>0, <2>0, <2>3 DEF deleteTunnel, InSync
    <2>4. CASE u = cur[g] /\ (deleteProject(g) \/ removeAll(g))
      <3>0. mu = g
        BY <2>0 DEF LockInv, Held, Deleting
      <3>1. \A h \in Goroutines \ {g} : pc'[h] \notin Held
        BY <2>1, <3>0, Alone DEF Only
      <3>2. pc'[g] \in {"removeAll", "deleteTunnel"}
        BY <1>0, <2>4 DEF deleteProject, removeAll, Go
      <3>3. \A h \in Goroutines : Fresh(h, u)'
        BY <3>1, <3>2 DEF Fresh, Held, Deleting
      <3>4. Busy(g, u)'
        BY <2>1, <2>4, <3>2 DEF Busy, Deleting
      <3> QED  BY <3>3, <3>4 DEF InSync
    <2> QED  BY <1>q, <2>2, <2>3, <2>4
  <1>r. ASSUME NEW g \in Goroutines, Restart(g)
        PROVE  InSync(u)'
    <2>1. pc'[g] = "list"
      BY <1>r DEF Restart
    <2> QED  BY <2>1 DEF InSync, Pending
  <1>s. ASSUME NEW t \in Tunnels, Background(t)
        PROVE  InSync(u)'
    <2>1. UNCHANGED <<tunnel, routes, pc, todo, cur, row, ingress>>
      BY <1>s DEF Background, startCloudflared, restartCloudflared, pollBegin, pollDeploy,
                  EndJob, tables, host, locals
    <2>2. files'[u] \in {files[u], Dirs}
      BY <1>0, <1>s DEF Background, startCloudflared, restartCloudflared, pollBegin, pollDeploy,
                        WriteComposeFiles, host
    <2>3. sys[u] # NoProject => sys'[u] # NoProject /\ sys'[u].enabled = sys[u].enabled
      <3>1. CASE UNCHANGED sys
        BY <3>1
      <3>2. CASE pollDeploy(t) /\ sys[u] # NoProject
        <4> DEFINE r == [sys[u] EXCEPT !.deployed = TRUE]
        <4>1. sys[u] \in SysRows
          BY <1>0, <3>2
        <4>2. r \in SysRows /\ r.enabled = sys[u].enabled
          BY <4>1 DEF SysRows
        <4>3. sys'[u] \in {sys[u], r}
          BY <1>0, <3>2 DEF pollDeploy
        <4>4. r # NoProject
          BY <4>2, TunnelAssumption DEF SysRows
        <4> HIDE DEF r
        <4> QED  BY <3>2, <4>2, <4>3, <4>4
      <3> QED  BY <1>s, <3>1, <3>2 DEF Background, startCloudflared, restartCloudflared,
                                     pollBegin, tables
    <2> QED  BY <1>2, <2>1, <2>2, <2>3, SyncHost
  <1>t. ASSUME UNCHANGED vars
        PROVE  InSync(u)'
    BY <1>2, <1>t, SyncHost DEF vars, tables, host, locals
  <1>u. CASE Next
    BY <1>u, <1>a, <1>b, <1>c, <1>d, <1>e, <1>f, <1>g, <1>h, <1>i, <1>j, <1>k, <1>l, <1>m,
       <1>o, <1>p, <1>q, <1>r, <1>s, NextCases
  <1> QED  BY <1>t, <1>u

\* A step that neither writes nor removes files, starts a job, nor brings a
\* goroutine to where it needs them, keeps this.
LEMMA DirFrame ==
  ASSUME DirInv, UNCHANGED <<files, sys, jobs, overtaken>>,
         \A h \in Goroutines : pc'[h] \in {"apply", "removeAll"} =>
            pc'[h] = pc[h] /\ cur'[h] = cur[h]
  PROVE  DirInv'
  BY DEF DirInv, Awaited

\* Only a deletion that overtakes a start or a deployment leaves one without
\* files.
LEMMA DirInductive ==
  ASSUME Types, JobTypes, LockInv, DirInv, [Next]_vars
  PROVE  DirInv'
  <1>0. /\ pc \in [Goroutines -> Places] /\ cur \in [Goroutines -> Tunnels \cup {CHOOSE t \in Tunnels : TRUE}]
        /\ files \in [Tunnels -> Files \cup {NoFile, Dirs}]
        /\ sys \in [Tunnels -> SysRows \cup {NoProject}]
        /\ jobs \in [Tunnels -> [Jobs -> Nat]]
        /\ \A g \in Goroutines : pc[g] \in Held \cup HasRow => cur[g] \in Tunnels
    BY DEF Types, JobTypes
  <1>1. ASSUME NEW g \in Goroutines, NEW h \in Goroutines, h # g, pc[g] \in Held
        PROVE  pc[h] \notin Held
    BY <1>1 DEF LockInv
  <1>a. ASSUME NEW g \in Goroutines, NEW t \in Tunnels, NEW e \in BOOLEAN, NEW c \in Creds,
               apiCreateTunnel(g, t, e, c)
        PROVE  DirInv'
    BY <1>0, <1>a, DirFrame DEF apiCreateTunnel, Go, host
  <1>b. ASSUME NEW g \in Goroutines, NEW t \in Tunnels, apiUpdateTunnelRead(g, t) \/ apiSyncTunnel(g, t)
        PROVE  DirInv'
    BY <1>0, <1>b, DirFrame DEF apiUpdateTunnelRead, apiSyncTunnel, Go, tables, host, history
  <1>c. ASSUME NEW g \in Goroutines, NEW e \in BOOLEAN, NEW i \in CFTunnelIDs \cup {Empty},
               NEW c \in Secrets \cup {Empty}, apiUpdateTunnelWrite(g, e, i, c)
        PROVE  DirInv'
    BY <1>0, <1>c, DirFrame DEF apiUpdateTunnelWrite, Go, host
  <1>d. ASSUME NEW g \in Goroutines, NEW t \in Tunnels, apiDeleteTunnel(g, t)
        PROVE  DirInv'
    BY <1>0, <1>d, DirFrame DEF apiDeleteTunnel, Go, tables, host
  <1>e. ASSUME NEW g \in Goroutines, NEW t \in Tunnels, NEW hs \in SUBSET Hosts, saveProject(g, t, hs)
        PROVE  DirInv'
    BY <1>0, <1>e, DirFrame DEF saveProject, Go, host, history
  <1>f. ASSUME NEW g \in Goroutines, ListTunnels(g) \/ ReconcileDone(g) \/ collectIngressFor(g)
        PROVE  DirInv'
    BY <1>0, <1>f, DirFrame DEF ListTunnels, ReconcileDone, collectIngressFor, Go, tables, host, history
  <1>g. ASSUME NEW g \in Goroutines, ReconcileLock(g)
        PROVE  DirInv'
    BY <1>0, <1>g, DirFrame DEF ReconcileLock, Go, tables, host, history
  <1>h. ASSUME NEW g \in Goroutines, writeFilesFails(g) \/ deleteTunnel(g)
        PROVE  DirInv'
    BY <1>0, <1>h, DirFrame DEF writeFilesFails, deleteTunnel, Unlock, Go, tables, host, history
  <1>i. ASSUME NEW g \in Goroutines, stopDisabled(g) \/ deleteStop(g)
        PROVE  DirInv'
    BY <1>0, <1>i, DirFrame DEF stopDisabled, deleteStop, Unlock, Go, tables
  <1>j. ASSUME NEW g \in Goroutines, writeFiles(g)
        PROVE  DirInv'
    <2>1. /\ pc[g] = "write" /\ pc' = [pc EXCEPT ![g] = "apply"] /\ cur[g] \in Tunnels
          /\ UNCHANGED <<sys, jobs, overtaken, cur>>
          /\ files' = [files EXCEPT ![cur[g]] = [hosts |-> ingress[g], cred |-> row[g].cred]]
      BY <1>0, <1>j DEF writeFiles, Go, tables, history, Held
    <2>2. [hosts |-> ingress[g], cred |-> row[g].cred] \in Files
      BY <2>1 DEF Types, HasRow, Rows, Files
    <2>3. files'[cur[g]] # NoFile /\ files'[cur[g]] # Dirs
      BY <1>0, <2>1, <2>2, TunnelAssumption
    <2>4. \A t \in Tunnels : t # cur[g] => files'[t] = files[t]
      BY <1>0, <2>1
    <2>5. \A h \in Goroutines : h # g => pc'[h] = pc[h] /\ pc[h] \notin Held
      BY <1>0, <1>1, <2>1 DEF Held
    <2> QED  BY <1>0, <2>1, <2>3, <2>4, <2>5 DEF DirInv, Awaited, Held, Deleting
  <1>k. ASSUME NEW g \in Goroutines, createSystemProject(g) \/ updateSystemProject(g)
        PROVE  DirInv'
    <2>1. /\ pc[g] = "apply" /\ cur[g] \in Tunnels /\ UNCHANGED <<files, overtaken, cur>>
          /\ \A h \in Goroutines : pc'[h] = pc[h] \/ (h = g /\ pc'[h] \in {"next", "down"})
          /\ \A t \in Tunnels : t # cur[g] => sys'[t] = sys[t]
      BY <1>0, <1>k DEF createSystemProject, updateSystemProject, Unlock, Go, host, history, Held
    <2>2. \A t \in Tunnels : t # cur[g] => jobs'[t] = jobs[t]
      BY <1>0, <1>k, <2>1 DEF createSystemProject, updateSystemProject, Spawn
    <2>3. \A h \in Goroutines : h # g => pc[h] \notin Held
      BY <1>1, <2>1 DEF Held
    <2>4. files[cur[g]] # NoFile
      BY <2>1 DEF DirInv
    <2> QED  BY <1>0, <2>1, <2>2, <2>3, <2>4 DEF DirInv, Awaited, Held, Deleting
  <1>l. ASSUME NEW g \in Goroutines, deleteProject(g)
        PROVE  DirInv'
    <2>1. /\ pc[g] = "deleteProject" /\ cur[g] \in Tunnels /\ UNCHANGED <<files, jobs, overtaken, cur>>
          /\ pc' = [pc EXCEPT ![g] = "removeAll"] /\ sys' = [sys EXCEPT ![cur[g]] = NoProject]
      BY <1>0, <1>l DEF deleteProject, Go, host, history, Held, Deleting
    <2>2. \A h \in Goroutines : h # g => pc'[h] = pc[h] /\ pc[h] \notin Held
      BY <1>0, <1>1, <2>1 DEF Held, Deleting
    <2> QED  BY <1>0, <2>1, <2>2 DEF DirInv, Awaited, Held, Deleting
  <1>m. ASSUME NEW g \in Goroutines, removeAll(g)
        PROVE  DirInv'
    <2>1. /\ pc[g] = "removeAll" /\ cur[g] \in Tunnels /\ UNCHANGED <<sys, jobs, cur>>
          /\ pc' = [pc EXCEPT ![g] = "deleteTunnel"] /\ files' = [files EXCEPT ![cur[g]] = NoFile]
          /\ overtaken' = IF Awaited(cur[g]) THEN overtaken \cup {cur[g]} ELSE overtaken
      BY <1>0, <1>m DEF removeAll, Go, tables, Held, Deleting, Awaited
    <2>2. \A h \in Goroutines : h # g => pc'[h] = pc[h] /\ pc[h] \notin Held
      BY <1>0, <1>1, <2>1 DEF Held, Deleting
    <2>3. sys[cur[g]] = NoProject
      BY <2>1 DEF DirInv
    <2>4. files'[cur[g]] = NoFile /\ \A t \in Tunnels : t # cur[g] => files'[t] = files[t]
      BY <1>0, <2>1
    <2>5. \A t \in Tunnels : Awaited(t)' <=> Awaited(t)
      BY <2>1 DEF Awaited
    <2> QED  BY <1>0, <2>1, <2>2, <2>3, <2>4, <2>5, TunnelAssumption DEF DirInv, Held, Deleting
  <1>n. ASSUME NEW g \in Goroutines, Restart(g)
        PROVE  DirInv'
    <2>1. UNCHANGED <<files, sys, overtaken>> /\ \A h \in Goroutines : pc'[h] \in {"list", "idle"}
      BY <1>n DEF Restart, tables, host
    <2>2. \A t \in Tunnels : ~Awaited(t)'
      BY <1>n DEF Restart, NoJobs, Jobs, Awaited
    <2> QED  BY <2>1, <2>2 DEF DirInv
  <1>o. ASSUME NEW t \in Tunnels, startCloudflared(t) \/ restartCloudflared(t) \/ pollDeploy(t)
        PROVE  DirInv'
    <2>1. UNCHANGED <<pc, cur, overtaken>>
      BY <1>o DEF startCloudflared, restartCloudflared, pollDeploy, EndJob, locals
    <2>2. \A u \in Tunnels : Awaited(u)' => Awaited(u)
      <3>1. PICK j \in Jobs : jobs[t][j] > 0 /\ jobs' = [jobs EXCEPT ![t][j] = @ - 1]
        BY <1>o DEF startCloudflared, restartCloudflared, pollDeploy, EndJob, Jobs
      <3>2. ASSUME NEW u \in Tunnels, NEW i \in Jobs, jobs'[u][i] > 0
            PROVE  jobs[u][i] > 0
        BY <1>0, <3>1, <3>2
      <3> QED  BY <3>2 DEF Awaited, Jobs
    <2>3. \A u \in Tunnels : files'[u] = files[u] \/ (u = t /\ files[t] = NoFile /\ Awaited(t) /\ files'[t] = Dirs)
      BY <1>0, <1>o DEF startCloudflared, restartCloudflared, pollDeploy, EndJob, WriteComposeFiles, Awaited
    <2>4. \A u \in Tunnels : sys[u] = NoProject => sys'[u] = NoProject
      BY <1>0, <1>o DEF startCloudflared, restartCloudflared, pollDeploy
    <2> QED  BY <1>0, <2>1, <2>2, <2>3, <2>4, TunnelAssumption DEF DirInv, Held, Deleting, HasRow
  <1>p. ASSUME NEW t \in Tunnels, pollBegin(t)
        PROVE  DirInv'
    <2>1. /\ UNCHANGED <<pc, cur, overtaken, files, sys>> /\ sys[t] # NoProject
          /\ \A u \in Tunnels : u # t => jobs'[u] = jobs[u]
      BY <1>0, <1>p DEF pollBegin, PollDue, Spawn, tables, host, locals, history
    <2> QED  BY <2>1 DEF DirInv, Awaited
  <1>q. UNCHANGED vars => DirInv'
    BY DEF vars, tables, host, locals, history, DirInv, Awaited
  <1>r. CASE Next
    <2>1. \A t \in Tunnels : Background(t) => DirInv'
      BY <1>o, <1>p DEF Background
    <2> QED  BY <1>r, <1>a, <1>b, <1>c, <1>d, <1>e, <1>f, <1>g, <1>h, <1>i, <1>j, <1>k, <1>l, <1>m,
                <1>n, <2>1, NextCases
  <1> QED  BY <1>q, <1>r

-----------------------------------------------------------------------------
\* A daemon without tunnels satisfies the invariant.
LEMMA InitInv == Init => TunnelInv
  <1> SUFFICES ASSUME Init
               PROVE  TunnelInv
    OBVIOUS
  <1>1. Types
    BY DEF Init, Types, HasRow, Held, Deleting, Places
  <1>2. LockInv
    BY TunnelAssumption DEF Init, LockInv, Held, Deleting
  <1>3. SyncInv
    BY DEF Init, SyncInv, InSync
  <1>j. JobTypes
    BY DEF Init, JobTypes, NoJobs
  <1>4. DirInv
    BY TunnelAssumption DEF Init, DirInv, Awaited, NoJobs, Jobs
  <1> QED  BY <1>1, <1>2, <1>3, <1>4, <1>j DEF TunnelInv

\* The invariant holds in every reachable state.
LEMMA Invariance == Spec => []TunnelInv
  <1>1. TunnelInv /\ [Next]_vars => TunnelInv'
    BY TypesInductive, JobsInductive, LockInductive, SyncInductive, DirInductive DEF TunnelInv
  <1> QED  BY <1>1, InitInv, PTL DEF Spec

\* When all goroutines are done, the files and the system project of every
\* tunnel say what its row and its routes say, whatever the order in which
\* handlers, reconciliations, deletions and crashes interleaved, but for one:
\* a start or a deployment that a deletion of the same id overtook has put
\* directories in the place of the files.
THEOREM RowsReachFiles == Spec => []FilesMatchRows
  <1>1. TunnelInv => FilesMatchRows
    <2> SUFFICES ASSUME TunnelInv, Quiet, NEW t \in Tunnels, tunnel[t] # NoTunnel,
                        ~(files[t] = Dirs /\ t \in overtaken)
                 PROVE  MatchesRow(t)
      BY DEF FilesMatchRows
    <2>1. \A g \in Goroutines : pc[g] = "idle" /\ todo[g] = {}
      BY DEF Quiet, TunnelInv, LockInv, NoTodo
    <2>2. ~Pending(t) /\ ~\E g \in Goroutines : Busy(g, t)
      BY <2>1 DEF Pending, Busy, Deleting
    <2>3. files[t] # Dirs
      BY DEF TunnelInv, DirInv
    <2> QED  BY <2>2, <2>3 DEF TunnelInv, SyncInv, InSync, Settled, FilesOK, MatchesRow
  <1> QED  BY <1>1, Invariance, PTL

-----------------------------------------------------------------------------
(***************************************************************************)
(* DnsSync: the goroutines of the same manager that write DNS records, for *)
(* any tunnels, hostnames, zones, saves and failing calls.                 *)
(***************************************************************************)
\* The types, with no bound on the counters.
DnsTypes ==
    /\ routed \in [Hostnames -> DnsTunnels \cup {Nowhere}]
    /\ dnsRow \in [DnsTunnels -> TunnelRow]
    /\ waiting \subseteq DnsTunnels
    /\ syncs \subseteq Sync
    /\ \A s \in syncs : s.host # Nowhere => s.recs \in Seq(Record)
    /\ records \in [Hostnames -> Seq(Record)]
    /\ saves \in Nat /\ dnsFaults \in Nat

\* An enabled row has a target.
RowsInv == \A t \in DnsTunnels : dnsRow[t].enabled => dnsRow[t].target # Nowhere

\* The address record of the goroutine's listing, however old, is where it was.
Stable(s, rs) ==
    LET i == AddressIndex(s.recs) IN
    s.host # Nowhere /\ i # 0 => i \in DOMAIN rs[s.host] /\ rs[s.host][i].type \in Address

IndexInv == \A s \in syncs : Stable(s, records)

\* The name is a proxied CNAME of the target.
PointsTo(c, recs) == \E i \in DOMAIN recs : recs[i] = Rec("CNAME", c, TRUE)

\* The hostnames that DnsFollowsRoutes speaks of, quiet or not: the routes and
\* the target of the tunnel have been given to a goroutine.
Given(t, h) ==
    /\ dnsFaults = 0 /\ dnsRow[t].enabled /\ t \notin waiting /\ t \notin unsynced
    /\ routed[h] = t /\ h \notin contested

\* Whoever is still at such a hostname writes the same.
WritersInv ==
    \A t \in DnsTunnels, h \in Hostnames : Given(t, h) =>
        \A s \in syncs : Works(s, h) => s.target = dnsRow[t].target

\* The goroutine will see the records as they are, or has.
UpToDate(s, h, c, rs) == s.target = c /\ (h \in s.todo \/ (s.host = h /\ s.recs = rs[h]))

\* Such a hostname is served, or a goroutine that is up to date has it still
\* before it.
RoutesInv ==
    \A t \in DnsTunnels, h \in Hostnames : Given(t, h) =>
        \/ ~Zoned(h) \/ ~OneAddress(records[h]) \/ PointsTo(dnsRow[t].target, records[h])
        \/ \E s \in syncs : UpToDate(s, h, dnsRow[t].target, records)

DnsInv == DnsTypes /\ RowsInv /\ IndexInv /\ WritersInv /\ RoutesInv

\* What DnsAssumption says of the constants.
DnsConstants == Nowhere \notin DnsTunnels /\ Nowhere \notin Hostnames /\ Nowhere \notin CFTargets

\* A set of natural numbers has a least element.
LEMMA LeastExists ==
    ASSUME NEW S \in SUBSET Nat, S # {}
    PROVE  \E x \in S : \A y \in S : x <= y
<1>1. PICK x \in S : \A y \in S : ~(<<y, x>> \in OpToRel(<, Nat))
  BY NatLessThanWellFounded, WFMin
<1>2. ASSUME NEW y \in S
      PROVE  x <= y
  <2>1. x \in Nat /\ y \in Nat
    OBVIOUS
  <2>2. ~(y < x)
    BY <1>1, <2>1, Zenon DEF OpToRel
  <2> QED BY <2>1, <2>2
<1> QED BY <1>2

\* AddressIndex finds an address record if there is one.
LEMMA AddressIndexFinds ==
    ASSUME NEW recs \in Seq(Record)
    PROVE  \/ AddressIndex(recs) = 0 /\ \A i \in DOMAIN recs : recs[i].type \notin Address
           \/ /\ AddressIndex(recs) \in DOMAIN recs /\ AddressIndex(recs) # 0
              /\ recs[AddressIndex(recs)].type \in Address
<1> DEFINE I == {i \in 1..Len(recs) : recs[i].type \in Address}
<1>1. AddressIndex(recs) = IF I # {} THEN Min(I) ELSE 0
  BY DEF AddressIndex, SelectInSeq
<1>2. DOMAIN recs = 1..Len(recs) /\ Len(recs) \in Nat
  OBVIOUS
<1>3. I \in SUBSET Nat
  OBVIOUS
<1>4. CASE I = {}
  BY <1>1, <1>2, <1>4
<1>5. CASE I # {}
  <2>1. PICK x \in I : \A y \in I : x <= y
    BY <1>3, <1>5, LeastExists
  <2>2. Min(I) \in I
    BY <2>1 DEF Min
  <2>3. AddressIndex(recs) \in I
    BY <1>1, <1>5, <2>2
  <2> QED  BY <1>2, <2>3
<1> QED  BY <1>4, <1>5

\* What ensureCNAME writes is a record.
LEMMA DesiredIsRecord ==
    ASSUME NEW t \in CFTargets
    PROVE  /\ Rec("CNAME", t, TRUE) \in Record
           /\ Rec("CNAME", t, TRUE).type = "CNAME"
           /\ Rec("CNAME", t, TRUE).content = t
           /\ Rec("CNAME", t, TRUE).proxied
           /\ "CNAME" \in Address /\ "TXT" \notin Address
BY DEF Rec, Record, Address

\* What a call of the Cloudflare API may do to the records of a name: the
\* address records stay where they are, and the TXT records stay what and where
\* they are.
Rewrites(recs, new) ==
    /\ new \in Seq(Record)
    /\ \A i \in DOMAIN recs : recs[i].type \in Address =>
         i \in DOMAIN new /\ new[i].type \in Address
    /\ Siblings(new) = Siblings(recs)

\* A created record goes behind the others.
LEMMA CreateRewrites ==
    ASSUME NEW recs \in Seq(Record), NEW t \in CFTargets, AddressIndex(recs) = 0
    PROVE  /\ Rewrites(recs, Append(recs, Rec("CNAME", t, TRUE)))
           /\ PointsTo(t, Append(recs, Rec("CNAME", t, TRUE)))
<1> DEFINE e == Rec("CNAME", t, TRUE)
           new == Append(recs, e)
<1>1. e \in Record /\ e.type = "CNAME" /\ "CNAME" \in Address /\ "TXT" \notin Address
  BY DesiredIsRecord
<1>2. \A i \in DOMAIN recs : recs[i].type \notin Address
  BY AddressIndexFinds
<1> HIDE DEF e
<1>3. /\ new \in Seq(Record) /\ DOMAIN new = DOMAIN recs \cup {Len(recs) + 1}
      /\ \A i \in DOMAIN recs : new[i] = recs[i]
      /\ new[Len(recs) + 1] = e /\ Len(recs) + 1 \notin DOMAIN recs
  BY <1>1
<1> HIDE DEF new
<1>5. Siblings(new) = Siblings(recs)
  <2> DEFINE S(q) == {k \in DOMAIN q : q[k].type = "TXT"}
  <2>1. S(new) = S(recs)
    BY <1>1, <1>3
  <2>2. \A i \in S(recs) : new[i] = recs[i]
    BY <1>3
  <2>3. Siblings(new) = [i \in S(new) |-> new[i]] /\ Siblings(recs) = [i \in S(recs) |-> recs[i]]
    BY DEF Siblings
  <2> QED  BY <2>1, <2>2, <2>3
<1>6. PointsTo(t, new)
  BY <1>3 DEF PointsTo, e
<1> QED  BY <1>2, <1>3, <1>5, <1>6 DEF Rewrites, new, e

\* An updated record takes the place of the address record.
LEMMA UpdateRewrites ==
    ASSUME NEW recs \in Seq(Record), NEW t \in CFTargets, OneAddress(recs),
           NEW i \in DOMAIN recs, recs[i].type \in Address
    PROVE  /\ Rewrites(recs, UpdateDNSRecord(recs, i, Rec("CNAME", t, TRUE)))
           /\ PointsTo(t, UpdateDNSRecord(recs, i, Rec("CNAME", t, TRUE)))
<1> DEFINE e == Rec("CNAME", t, TRUE)
           new == UpdateDNSRecord(recs, i, e)
<1>1. e \in Record /\ e.type = "CNAME" /\ "CNAME" \in Address /\ "TXT" \notin Address
  BY DesiredIsRecord
<1> HIDE DEF e
<1>2. new = [recs EXCEPT ![i] = e]
  BY DEF UpdateDNSRecord
<1> HIDE DEF new
<1>3. /\ new \in Seq(Record) /\ DOMAIN new = DOMAIN recs
      /\ \A j \in DOMAIN recs : j # i => new[j] = recs[j]
      /\ new[i] = e
  BY <1>1, <1>2
<1>4. \A j \in DOMAIN recs : new[j].type \in Address <=> recs[j].type \in Address
  BY <1>1, <1>3
<1>6. Siblings(new) = Siblings(recs)
  <2> DEFINE S(q) == {k \in DOMAIN q : q[k].type = "TXT"}
  <2>1. S(new) = S(recs)
    BY <1>1, <1>3
  <2>2. \A k \in S(recs) : new[k] = recs[k]
    BY <1>1, <1>3
  <2>3. Siblings(new) = [k \in S(new) |-> new[k]] /\ Siblings(recs) = [k \in S(recs) |-> recs[k]]
    BY DEF Siblings
  <2> QED  BY <2>1, <2>2, <2>3
<1>7. PointsTo(t, new)
  BY <1>3 DEF PointsTo, e
<1> QED  BY <1>3, <1>4, <1>6, <1>7 DEF Rewrites, new, e

\* ensureCNAME, whatever it saw: it leaves the records alone or serves the
\* name, and it serves the name if what it saw was up to date.
LEMMA EnsureRewrites ==
    ASSUME NEW t \in CFTargets, NEW seen \in Seq(Record), NEW recs \in Seq(Record),
           AddressIndex(seen) # 0 =>
             /\ AddressIndex(seen) \in DOMAIN recs
             /\ recs[AddressIndex(seen)].type \in Address
    PROVE  /\ Rewrites(recs, ensureCNAME(t, seen, recs))
           /\ \/ ensureCNAME(t, seen, recs) = recs
              \/ OneAddress(recs) /\ PointsTo(t, ensureCNAME(t, seen, recs))
           /\ seen = recs /\ OneAddress(recs) => PointsTo(t, ensureCNAME(t, seen, recs))
<1> DEFINE i == AddressIndex(seen)
           e == Rec("CNAME", t, TRUE)
           new == ensureCNAME(t, seen, recs)
<1>0. Rewrites(recs, recs)
  BY DEF Rewrites
<1>1. CASE i = 0
  <2>1. new = IF AddressIndex(recs) = 0 THEN Append(recs, e) ELSE recs
    BY <1>1 DEF ensureCNAME, CreateDNSRecord
  <2>2. CASE AddressIndex(recs) = 0
    <3>1. OneAddress(recs)
      BY <2>2, AddressIndexFinds DEF OneAddress
    <3> QED  BY <2>1, <2>2, <3>1, CreateRewrites
  <2>3. CASE AddressIndex(recs) # 0
    <3>1. new = recs /\ seen # recs
      BY <1>1, <2>1, <2>3
    <3> QED  BY <1>0, <3>1
  <2> QED  BY <2>2, <2>3
<1>2. CASE i # 0 /\ seen[i] = e
  <2>1. new = recs
    BY <1>2 DEF ensureCNAME
  <2>2. seen = recs => PointsTo(t, recs)
    BY <1>2 DEF PointsTo
  <2> QED  BY <1>0, <2>1, <2>2
<1>3. CASE i # 0 /\ seen[i] # e
  <2>1. new = UpdateDNSRecord(recs, i, e)
    BY <1>3 DEF ensureCNAME
  <2>2. i \in DOMAIN recs /\ recs[i].type \in Address
    BY <1>3
  <2> HIDE DEF i
  <2>3. CASE OneAddress(recs)
    <3>1. Rewrites(recs, new) /\ PointsTo(t, new)
      BY <2>1, <2>2, <2>3, UpdateRewrites
    <3> QED  BY <2>3, <3>1
  <2>4. CASE ~OneAddress(recs)
    <3>1. new = recs
      BY <2>1, <2>4 DEF UpdateDNSRecord
    <3> QED  BY <1>0, <2>4, <3>1
  <2> QED  BY <2>3, <2>4
<1> QED  BY <1>1, <1>2, <1>3

\* The fields of a goroutine that writes records.
LEMMA SyncFields ==
    ASSUME NEW s \in Sync
    PROVE  /\ s.id \in Nat /\ s.target \in CFTargets /\ s.todo \in SUBSET Hostnames
           /\ s.host \in Hostnames \cup {Nowhere} /\ s.recs \in Seq(Record) \cup {Unread}
BY DEF Sync

\* The goroutine s goes on as new.
Becomes(s, new) == new \in Sync /\ syncs' = (syncs \ {s}) \cup {new} /\ new.target = s.target

\* Listing the records changes only the goroutine that does it.
LEMMA ListStep ==
    ASSUME DnsTypes, NEW s \in syncs, syncDNS(s)
    PROVE  \E h \in s.todo, new \in Sync :
             /\ Becomes(s, new) /\ new.todo = s.todo \ {h}
             /\ IF Zoned(h) THEN new.host = h /\ new.recs = records[h]
                ELSE new.host = Nowhere
<1>1. s \in Sync
  BY DEF DnsTypes
<1>2. PICK h \in s.todo :
        Replace(s, [s EXCEPT !.todo = @ \ {h},
                               !.host = IF Zoned(h) THEN h ELSE Nowhere,
                               !.recs = IF Zoned(h) THEN records[h] ELSE Unread])
  BY DEF syncDNS
<1> DEFINE new == [s EXCEPT !.todo = @ \ {h},
                            !.host = IF Zoned(h) THEN h ELSE Nowhere,
                            !.recs = IF Zoned(h) THEN records[h] ELSE Unread]
<1>3. h \in Hostnames /\ records[h] \in Seq(Record)
  BY <1>1, SyncFields DEF DnsTypes
<1>4. /\ new \in Sync
      /\ new.todo = s.todo \ {h} /\ new.target = s.target
      /\ new.host = (IF Zoned(h) THEN h ELSE Nowhere)
      /\ new.recs = (IF Zoned(h) THEN records[h] ELSE Unread)
  BY <1>1, <1>3 DEF Sync
<1>5. syncs' = (syncs \ {s}) \cup {new}
  BY <1>2 DEF Replace
<1> HIDE DEF new
<1>6. Becomes(s, new)
  BY <1>1, <1>4, <1>5 DEF Becomes
<1> QED  BY <1>4, <1>6

\* Giving up a hostname changes only the goroutine that does it.
LEMMA GiveUpStep ==
    ASSUME DnsTypes, NEW s \in syncs, Replace(s, [s EXCEPT !.host = Nowhere, !.recs = Unread])
    PROVE  \E new \in Sync : Becomes(s, new) /\ new.todo = s.todo /\ new.host = Nowhere
<1>1. s \in Sync
  BY DEF DnsTypes
<1> DEFINE new == [s EXCEPT !.host = Nowhere, !.recs = Unread]
<1>2. new \in Sync /\ new.todo = s.todo /\ new.target = s.target /\ new.host = Nowhere
  BY <1>1 DEF Sync
<1>3. syncs' = (syncs \ {s}) \cup {new}
  BY DEF Replace
<1> HIDE DEF new
<1> QED  BY <1>1, <1>2, <1>3 DEF Becomes

\* A reconciliation starts a goroutine with the routes of now, unless there is
\* nothing to route, the tunnel is disabled, or it just got its system project.
LEMMA ReconcileStep ==
    ASSUME DnsConstants, DnsTypes, RowsInv, NEW t \in DnsTunnels, ReconcileTunnel(t)
    PROVE  /\ \/ /\ UNCHANGED <<syncs, contested>>
                 /\ Ingress(t) = {} \/ t \in unsynced' \/ ~dnsRow[t].enabled
              \/ \E new \in Sync :
                   /\ syncs' = syncs \cup {new} /\ new.target = dnsRow[t].target
                   /\ new.todo = Ingress(t) /\ new.host = Nowhere
                   /\ contested' = (contested \ Ingress(t)) \cup
                        {h \in Ingress(t) :
                           \E s \in syncs : Works(s, h) /\ s.target # dnsRow[t].target}
           /\ dnsRow' \in [DnsTunnels -> TunnelRow]
           /\ \A u \in DnsTunnels : /\ dnsRow'[u].enabled = dnsRow[u].enabled
                                    /\ dnsRow'[u].target = dnsRow[u].target
           /\ waiting' = waiting \ {t}
           /\ \A u \in DnsTunnels : u # t => (u \in unsynced' <=> u \in unsynced)
<1>0. dnsRow \in [DnsTunnels -> TunnelRow] /\ dnsRow[t] \in TunnelRow /\ waiting' = waiting \ {t}
  BY DEF DnsTypes, ReconcileTunnel
<1>1. CASE dnsRow[t].target = Nowhere /\ UNCHANGED <<dnsRow, syncs, dnsHistory>>
  BY <1>0, <1>1 DEF RowsInv, dnsHistory
<1>2. CASE /\ dnsRow' = [dnsRow EXCEPT ![t].project = TRUE]
           /\ unsynced' = unsynced \cup {t} /\ UNCHANGED <<syncs, contested>>
  <2>1. /\ [dnsRow[t] EXCEPT !.project = TRUE] \in TunnelRow
        /\ [dnsRow[t] EXCEPT !.project = TRUE].enabled = dnsRow[t].enabled
        /\ [dnsRow[t] EXCEPT !.project = TRUE].target = dnsRow[t].target
    BY <1>0 DEF TunnelRow
  <2>2. dnsRow' = [dnsRow EXCEPT ![t] = [dnsRow[t] EXCEPT !.project = TRUE]]
    BY <1>0, <1>2
  <2> QED  BY <1>0, <1>2, <2>1, <2>2
<1>3. CASE /\ dnsRow[t].target # Nowhere /\ unsynced' = unsynced \ {t} /\ UNCHANGED dnsRow
           /\ IF dnsRow[t].enabled THEN startSync(t) ELSE UNCHANGED <<syncs, contested>>
  <2>1. CASE ~dnsRow[t].enabled
    BY <1>0, <1>3, <2>1
  <2>2. CASE dnsRow[t].enabled
    <3> DEFINE c == dnsRow[t].target
               new == [id |-> saves, target |-> c, todo |-> Ingress(t), host |-> Nowhere, recs |-> Unread]
    <3>1. c \in CFTargets /\ saves \in Nat /\ Ingress(t) \in SUBSET Hostnames
      BY <1>0, <1>3 DEF DnsTypes, TunnelRow, Ingress
    <3>2. new \in Sync /\ new.target = c /\ new.todo = Ingress(t) /\ new.host = Nowhere
      BY <3>1 DEF Sync
    <3>3. /\ syncs' = syncs \cup {[id |-> saves, target |-> c, todo |-> hs,
                                   host |-> Nowhere, recs |-> Unread] : hs \in {Ingress(t)} \ {{}}}
          /\ contested' = (contested \ Ingress(t)) \cup
               {h \in Ingress(t) : \E s \in syncs : Works(s, h) /\ s.target # c}
      BY <1>3, <2>2 DEF startSync
    <3>4. CASE Ingress(t) = {}
      <4>1. syncs' = syncs /\ contested' = contested
        BY <3>3, <3>4, Zenon
      <4> QED  BY <1>0, <1>3, <3>4, <4>1
    <3>5. CASE Ingress(t) # {}
      <4>1. {Ingress(t)} \ {{}} = {Ingress(t)}
        BY <3>5
      <4>2. syncs' = syncs \cup {new}
        BY <3>3, <4>1
      <4> QED  BY <1>0, <1>3, <3>2, <3>3, <4>2
    <3> QED  BY <3>4, <3>5
  <2> QED  BY <2>1, <2>2
<1> QED  BY <1>1, <1>2, <1>3 DEF ReconcileTunnel

\* The records of a hostname after ensureCNAME.
LEMMA EnsureStep ==
    ASSUME DnsConstants, DnsTypes, IndexInv, NEW s \in syncs, syncDNSEnsure(s)
    PROVE  /\ s.host \in Hostnames
           /\ records' \in [Hostnames -> Seq(Record)]
           /\ \A h \in Hostnames : h # s.host => records'[h] = records[h]
           /\ Rewrites(records[s.host], records'[s.host])
           /\ \/ records'[s.host] = records[s.host]
              \/ OneAddress(records[s.host]) /\ PointsTo(s.target, records'[s.host])
           /\ s.recs = records[s.host] /\ OneAddress(records[s.host]) =>
                PointsTo(s.target, records'[s.host])
<1>1. /\ s \in Sync /\ s.host # Nowhere /\ s.recs \in Seq(Record)
      /\ records' = [records EXCEPT ![s.host] = ensureCNAME(s.target, s.recs, @)]
  BY DEF DnsTypes, syncDNSEnsure
<1>2. s.host \in Hostnames /\ s.target \in CFTargets
  BY <1>1, SyncFields
<1>3. records[s.host] \in Seq(Record) /\ records \in [Hostnames -> Seq(Record)]
  BY <1>2 DEF DnsTypes
<1> DEFINE new == ensureCNAME(s.target, s.recs, records[s.host])
<1>5. AddressIndex(s.recs) # 0 =>
        /\ AddressIndex(s.recs) \in DOMAIN records[s.host]
        /\ records[s.host][AddressIndex(s.recs)].type \in Address
  BY <1>1 DEF IndexInv, Stable
<1>6. /\ Rewrites(records[s.host], new)
      /\ new = records[s.host] \/ (OneAddress(records[s.host]) /\ PointsTo(s.target, new))
      /\ s.recs = records[s.host] /\ OneAddress(records[s.host]) => PointsTo(s.target, new)
  BY <1>1, <1>2, <1>3, <1>5, EnsureRewrites
<1>7. new \in Seq(Record)
  BY <1>6 DEF Rewrites
<1> HIDE DEF new
<1>8. records' = [records EXCEPT ![s.host] = new]
  BY <1>1 DEF new
<1> QED  BY <1>2, <1>3, <1>6, <1>7, <1>8

\* A request changes the tables only, and of one tunnel, or has every tunnel
\* reconciled.
LEMMA SaveStep ==
    ASSUME DnsTypes, RowsInv,
           \/ \E h \in Hostnames, t \in DnsTunnels \cup {Nowhere} : saveProjectHost(h, t)
           \/ \E t \in DnsTunnels, c \in CFTargets, e \in BOOLEAN : saveTunnel(t, c, e)
           \/ \E t \in DnsTunnels : dropTunnel(t)
    PROVE  /\ UNCHANGED <<syncs, zones, records, unsynced, contested, dnsFaults>>
           /\ DnsTypes' /\ RowsInv'
           /\ \/ \A t \in DnsTunnels : t \in waiting'
              \/ /\ routed' = routed /\ waiting \subseteq waiting'
                 /\ \A t \in DnsTunnels :
                      t \in waiting' \/ dnsRow'[t] = dnsRow[t] \/ ~dnsRow'[t].enabled
<1>0. /\ routed \in [Hostnames -> DnsTunnels \cup {Nowhere}] /\ dnsRow \in [DnsTunnels -> TunnelRow]
      /\ waiting \subseteq DnsTunnels /\ saves \in Nat
  BY DEF DnsTypes
<1>1. ASSUME NEW h \in Hostnames, NEW t \in DnsTunnels \cup {Nowhere}, saveProjectHost(h, t)
      PROVE  /\ UNCHANGED <<syncs, zones, records, unsynced, contested, dnsFaults, dnsRow>>
             /\ waiting' = DnsTunnels /\ saves' \in Nat
             /\ routed' \in [Hostnames -> DnsTunnels \cup {Nowhere}]
  BY <1>0, <1>1 DEF saveProjectHost, SavesOne, dnsHistory
<1>2. ASSUME NEW t \in DnsTunnels, NEW c \in CFTargets, NEW e \in BOOLEAN, saveTunnel(t, c, e),
             DnsConstants
      PROVE  /\ UNCHANGED <<syncs, zones, records, unsynced, contested, dnsFaults, routed>>
             /\ waiting' = waiting \cup {t} /\ saves' \in Nat
             /\ dnsRow' \in [DnsTunnels -> TunnelRow] /\ dnsRow'[t].target # Nowhere
             /\ \A u \in DnsTunnels : u # t => dnsRow'[u] = dnsRow[u]
  <2> DEFINE r == [target |-> c, enabled |-> e, project |-> dnsRow[t].project]
  <2>1. r \in TunnelRow /\ r.target = c /\ c # Nowhere
    <3>1. dnsRow[t].project \in BOOLEAN
      BY <1>0 DEF TunnelRow
    <3> QED  BY <1>2, <3>1 DEF TunnelRow, DnsConstants
  <2>2. dnsRow' = [dnsRow EXCEPT ![t] = r]
    BY <1>2 DEF saveTunnel
  <2> HIDE DEF r
  <2> QED  BY <1>0, <1>2, <2>1, <2>2 DEF saveTunnel, SavesOne, dnsHistory
<1>3. ASSUME NEW t \in DnsTunnels, dropTunnel(t)
      PROVE  /\ UNCHANGED <<syncs, zones, records, unsynced, contested, dnsFaults, routed, waiting>>
             /\ saves' \in Nat
             /\ dnsRow' \in [DnsTunnels -> TunnelRow] /\ ~dnsRow'[t].enabled
             /\ \A u \in DnsTunnels : u # t => dnsRow'[u] = dnsRow[u]
  <2>1. NoRow \in TunnelRow /\ ~NoRow.enabled
    BY DEF NoRow, TunnelRow
  <2> QED  BY <1>0, <1>3, <2>1 DEF dropTunnel, SavesOne, dnsHistory
<1>4. DnsConstants
  BY DnsAssumption DEF DnsConstants
<1>5. CASE \E h \in Hostnames, t \in DnsTunnels \cup {Nowhere} : saveProjectHost(h, t)
  BY <1>1, <1>5 DEF DnsTypes, RowsInv
<1>6. CASE \E t \in DnsTunnels, c \in CFTargets, e \in BOOLEAN : saveTunnel(t, c, e)
  <2>1. PICK t \in DnsTunnels, c \in CFTargets, e \in BOOLEAN : saveTunnel(t, c, e)
    BY <1>6
  <2>2. /\ UNCHANGED <<syncs, zones, records, unsynced, contested, dnsFaults, routed>>
        /\ waiting' = waiting \cup {t} /\ saves' \in Nat
        /\ dnsRow' \in [DnsTunnels -> TunnelRow] /\ dnsRow'[t].target # Nowhere
        /\ \A u \in DnsTunnels : u # t => dnsRow'[u] = dnsRow[u]
    BY <1>2, <1>4, <2>1
  <2>3. DnsTypes'
    BY <1>0, <2>2 DEF DnsTypes
  <2>4. RowsInv'
    BY <2>2 DEF RowsInv
  <2> QED  BY <2>2, <2>3, <2>4
<1>7. CASE \E t \in DnsTunnels : dropTunnel(t)
  <2>1. PICK t \in DnsTunnels : dropTunnel(t)
    BY <1>7
  <2>2. /\ UNCHANGED <<syncs, zones, records, unsynced, contested, dnsFaults, routed, waiting>>
        /\ saves' \in Nat
        /\ dnsRow' \in [DnsTunnels -> TunnelRow] /\ ~dnsRow'[t].enabled
        /\ \A u \in DnsTunnels : u # t => dnsRow'[u] = dnsRow[u]
    BY <1>3, <2>1
  <2>3. DnsTypes'
    BY <2>2 DEF DnsTypes
  <2>4. RowsInv'
    BY <2>2 DEF RowsInv
  <2> QED  BY <2>2, <2>3, <2>4
<1> QED  BY <1>5, <1>6, <1>7

\* A step of a goroutine leaves the tables alone.
SyncFrame == UNCHANGED <<routed, dnsRow, waiting, zones, unsynced, contested, saves>>

LEMMA SyncSteps ==
    ASSUME NEW s \in syncs, SyncStep(s)
    PROVE  SyncFrame
BY DEF SyncStep, SyncFrame, syncDNS, syncDNSDone, syncDNSEnsure, syncDNSFault, syncDNSTimeout,
       tunnelTables, dnsHistory

\* What a step is.
Saves ==
    \/ \E h \in Hostnames, t \in DnsTunnels \cup {Nowhere} : saveProjectHost(h, t)
    \/ \E t \in DnsTunnels, c \in CFTargets, e \in BOOLEAN : saveTunnel(t, c, e)
    \/ \E t \in DnsTunnels : dropTunnel(t)

LEMMA DnsSteps ==
    ASSUME [DnsNext]_dnsVars
    PROVE  \/ Saves
           \/ \E t \in DnsTunnels : ReconcileTunnel(t)
           \/ \E s \in syncs : SyncStep(s)
           \/ UNCHANGED dnsVars
BY DEF DnsNext, Saves

\* Every step keeps the types.
LEMMA DnsTypesStep ==
    ASSUME DnsConstants, DnsTypes, RowsInv, IndexInv, [DnsNext]_dnsVars
    PROVE  DnsTypes' /\ RowsInv'
<1>0. /\ routed \in [Hostnames -> DnsTunnels \cup {Nowhere}] /\ dnsRow \in [DnsTunnels -> TunnelRow]
      /\ waiting \subseteq DnsTunnels
      /\ syncs \subseteq Sync /\ records \in [Hostnames -> Seq(Record)]
      /\ saves \in Nat /\ dnsFaults \in Nat
      /\ \A s \in syncs : s.host # Nowhere => s.recs \in Seq(Record)
  BY DEF DnsTypes
<1>1. CASE Saves
  BY <1>1, SaveStep DEF Saves
<1>2. ASSUME NEW t \in DnsTunnels, ReconcileTunnel(t)
      PROVE  DnsTypes' /\ RowsInv'
  <2>1. UNCHANGED <<routed, records, saves, dnsFaults>>
    BY <1>2 DEF ReconcileTunnel
  <2>2. /\ dnsRow' \in [DnsTunnels -> TunnelRow] /\ waiting' \subseteq DnsTunnels
        /\ \A u \in DnsTunnels : /\ dnsRow'[u].enabled = dnsRow[u].enabled
                                 /\ dnsRow'[u].target = dnsRow[u].target
    BY <1>0, <1>2, ReconcileStep
  <2>3. syncs' \subseteq Sync /\ \A s \in syncs' : s.host # Nowhere => s.recs \in Seq(Record)
    BY <1>0, <1>2, ReconcileStep
  <2>4. DnsTypes'
    BY <1>0, <2>1, <2>2, <2>3 DEF DnsTypes
  <2> QED  BY <2>2, <2>4 DEF RowsInv
<1>3. ASSUME NEW s \in syncs, SyncStep(s), records' \in [Hostnames -> Seq(Record)],
             dnsFaults' \in Nat, syncs' \subseteq Sync,
             \A r \in syncs' : r.host # Nowhere => r.recs \in Seq(Record)
      PROVE  DnsTypes' /\ RowsInv'
  <2>1. SyncFrame
    BY <1>3, SyncSteps
  <2> QED  BY <1>0, <1>3, <2>1 DEF SyncFrame, DnsTypes, RowsInv
<1>4. ASSUME NEW s \in syncs, syncDNS(s)
      PROVE  DnsTypes' /\ RowsInv'
  <2>1. UNCHANGED <<records, dnsFaults>>
    BY <1>4 DEF syncDNS
  <2>2. PICK h \in s.todo, new \in Sync :
             /\ Becomes(s, new)
             /\ IF Zoned(h) THEN new.host = h /\ new.recs = records[h]
                ELSE new.host = Nowhere
    BY <1>4, ListStep
  <2>3. h \in Hostnames
    BY <1>0, SyncFields
  <2>4. new.host # Nowhere => new.recs \in Seq(Record)
    BY <1>0, <2>2, <2>3
  <2> QED  BY <1>0, <1>3, <1>4, <2>1, <2>2, <2>4 DEF Becomes, SyncStep
<1>5. ASSUME NEW s \in syncs, syncDNSDone(s) \/ syncDNSTimeout(s)
      PROVE  DnsTypes' /\ RowsInv'
  <2>1. syncs' \subseteq syncs /\ records' = records /\ dnsFaults' \in Nat
    BY <1>0, <1>5 DEF syncDNSDone, syncDNSTimeout
  <2> QED  BY <1>0, <1>3, <1>5, <2>1 DEF SyncStep
<1>6. ASSUME NEW s \in syncs, syncDNSEnsure(s) \/ syncDNSFault(s)
      PROVE  DnsTypes' /\ RowsInv'
  <2>1. /\ Replace(s, [s EXCEPT !.host = Nowhere, !.recs = Unread])
        /\ dnsFaults' \in Nat /\ records' \in [Hostnames -> Seq(Record)]
    <3>1. CASE syncDNSEnsure(s)
      BY <1>0, <3>1, EnsureStep DEF syncDNSEnsure
    <3>2. CASE syncDNSFault(s)
      BY <1>0, <3>2 DEF syncDNSFault
    <3> QED  BY <1>6, <3>1, <3>2
  <2>2. PICK new \in Sync : Becomes(s, new) /\ new.host = Nowhere
    BY <2>1, GiveUpStep
  <2> QED  BY <1>0, <1>3, <1>6, <2>1, <2>2 DEF Becomes, SyncStep
<1>7. CASE UNCHANGED dnsVars
  BY <1>0, <1>7 DEF dnsVars, tunnelTables, DnsTypes, RowsInv
<1> QED  BY <1>1, <1>2, <1>4, <1>5, <1>6, <1>7, DnsSteps DEF SyncStep

\* The index a goroutine holds stays that of the address record.
LEMMA IndexStep ==
    ASSUME DnsConstants, DnsTypes, RowsInv, IndexInv, [DnsNext]_dnsVars
    PROVE  IndexInv'
<1>0. /\ syncs \subseteq Sync /\ records \in [Hostnames -> Seq(Record)] /\ Nowhere \notin Hostnames
      /\ \A s \in syncs : Stable(s, records)
  BY DEF DnsTypes, DnsConstants, IndexInv, Stable
<1>1. ASSUME \A s \in syncs' : Stable(s, records')
      PROVE  IndexInv'
  BY <1>1 DEF IndexInv, Stable
<1>2. ASSUME UNCHANGED <<syncs, records>>
      PROVE  IndexInv'
  BY <1>0, <1>1, <1>2
<1>3. CASE Saves
  BY <1>2, <1>3, SaveStep DEF Saves
<1>4. ASSUME NEW t \in DnsTunnels, ReconcileTunnel(t)
      PROVE  IndexInv'
  <2>1. records' = records
    BY <1>4 DEF ReconcileTunnel
  <2>2. \A s \in syncs' : s \in syncs \/ s.host = Nowhere
    BY <1>4, ReconcileStep
  <2>3. \A s \in syncs' : Stable(s, records')
    BY <1>0, <2>1, <2>2 DEF Stable
  <2> QED  BY <1>1, <2>3
<1>5. ASSUME NEW s \in syncs, syncDNS(s)
      PROVE  IndexInv'
  <2>1. records' = records
    BY <1>5 DEF syncDNS
  <2>2. PICK h \in s.todo, new \in Sync :
             /\ Becomes(s, new)
             /\ IF Zoned(h) THEN new.host = h /\ new.recs = records[h]
                ELSE new.host = Nowhere
    BY <1>5, ListStep
  <2>3. h \in Hostnames /\ records[h] \in Seq(Record)
    BY <1>0, SyncFields
  <2>4. Stable(new, records)
    BY <2>2, <2>3, AddressIndexFinds DEF Stable
  <2>5. \A r \in syncs' : Stable(r, records')
    BY <1>0, <2>1, <2>2, <2>4 DEF Becomes
  <2> QED  BY <1>1, <2>5
<1>6. ASSUME NEW s \in syncs, syncDNSDone(s) \/ syncDNSTimeout(s)
      PROVE  IndexInv'
  <2>1. records' = records /\ syncs' \subseteq syncs
    BY <1>6 DEF syncDNSDone, syncDNSTimeout
  <2> QED  BY <1>0, <1>1, <2>1
<1>7. ASSUME NEW s \in syncs, syncDNSEnsure(s)
      PROVE  IndexInv'
  <2>1. /\ s.host \in Hostnames
        /\ \A h \in Hostnames : h # s.host => records'[h] = records[h]
        /\ Rewrites(records[s.host], records'[s.host])
    BY <1>7, EnsureStep
  <2>2. Replace(s, [s EXCEPT !.host = Nowhere, !.recs = Unread])
    BY <1>7 DEF syncDNSEnsure
  <2>3. PICK new \in Sync : Becomes(s, new) /\ new.host = Nowhere
    BY <2>2, GiveUpStep
  <2>5. ASSUME NEW r \in syncs
        PROVE  Stable(r, records')
    <3>1. Stable(r, records) /\ r.host \in Hostnames \cup {Nowhere}
      BY <1>0, SyncFields
    <3>2. CASE r.host = s.host
      BY <2>1, <3>1, <3>2 DEF Stable, Rewrites
    <3>3. CASE r.host # s.host
      BY <2>1, <3>1, <3>3 DEF Stable
    <3> QED  BY <3>2, <3>3
  <2>6. \A r \in syncs' : Stable(r, records')
    BY <2>3, <2>5 DEF Becomes, Stable
  <2> QED  BY <1>1, <2>6
<1>8. ASSUME NEW s \in syncs, syncDNSFault(s)
      PROVE  IndexInv'
  <2>1. records' = records /\ Replace(s, [s EXCEPT !.host = Nowhere, !.recs = Unread])
    BY <1>8 DEF syncDNSFault
  <2>2. PICK new \in Sync : Becomes(s, new) /\ new.host = Nowhere
    BY <2>1, GiveUpStep
  <2>3. \A r \in syncs' : Stable(r, records')
    BY <1>0, <2>1, <2>2 DEF Becomes, Stable
  <2> QED  BY <1>1, <2>3
<1>9. CASE UNCHANGED dnsVars
  BY <1>2, <1>9 DEF dnsVars
<1> QED  BY <1>3, <1>4, <1>5, <1>6, <1>7, <1>8, <1>9, DnsSteps DEF SyncStep

\* What is given after a request was given before, and is the same.
LEMMA GivenBefore ==
    ASSUME DnsTypes, RowsInv, Saves, NEW t \in DnsTunnels, NEW h \in Hostnames, Given(t, h)'
    PROVE  Given(t, h) /\ dnsRow'[t] = dnsRow[t]
BY SaveStep DEF Saves, Given

\* Whoever else is at a hostname when a goroutine is started makes it contested.
LEMMA WritersStep ==
    ASSUME DnsConstants, DnsTypes, RowsInv, WritersInv, [DnsNext]_dnsVars
    PROVE  WritersInv'
<1> SUFFICES ASSUME NEW t \in DnsTunnels, NEW h \in Hostnames, Given(t, h)',
                    NEW r \in syncs', Works(r, h)
             PROVE  r.target = dnsRow'[t].target
  BY DEF WritersInv, Works
<1>0. /\ syncs \subseteq Sync /\ Nowhere \notin Hostnames /\ dnsFaults \in Nat
      /\ Given(t, h) => \A s \in syncs : Works(s, h) => s.target = dnsRow[t].target
  BY DEF DnsTypes, DnsConstants, WritersInv
<1>1. CASE Saves
  <2>1. Given(t, h) /\ dnsRow'[t] = dnsRow[t] /\ syncs' = syncs
    BY <1>1, GivenBefore, SaveStep DEF Saves
  <2> QED  BY <1>0, <2>1
<1>2. ASSUME NEW u \in DnsTunnels, ReconcileTunnel(u)
      PROVE  r.target = dnsRow'[t].target
  <2>1. UNCHANGED <<routed, dnsFaults>> /\ Ingress(u) = {k \in Hostnames : routed[k] = u}
    BY <1>2 DEF ReconcileTunnel, Ingress
  <2>2. /\ dnsRow'[t].enabled = dnsRow[t].enabled /\ dnsRow'[t].target = dnsRow[t].target
        /\ waiting' = waiting \ {u} /\ (t # u => (t \in unsynced' <=> t \in unsynced))
    BY <1>2, ReconcileStep
  <2>3. CASE u = t
    <3>1. h \in Ingress(t) /\ t \notin unsynced' /\ dnsRow[t].enabled /\ h \notin contested'
      BY <2>1, <2>2, <2>3 DEF Given
    <3>2. PICK new \in Sync :
            /\ syncs' = syncs \cup {new} /\ new.target = dnsRow[t].target
            /\ contested' = (contested \ Ingress(t)) \cup
                 {k \in Ingress(t) : \E s \in syncs : Works(s, k) /\ s.target # dnsRow[t].target}
      BY <1>2, <2>3, <3>1, ReconcileStep
    <3>3. \A s \in syncs : Works(s, h) => s.target = dnsRow[t].target
      BY <3>1, <3>2
    <3> QED  BY <2>2, <3>2, <3>3
  <2>4. CASE u # t
    <3>1. h \notin Ingress(u)
      BY <2>1, <2>4 DEF Given
    <3>2. (h \in contested' <=> h \in contested) /\ \A s \in syncs' : Works(s, h) => s \in syncs
      <4>1. CASE UNCHANGED <<syncs, contested>>
        BY <4>1
      <4>2. CASE \E new \in Sync :
                   /\ syncs' = syncs \cup {new} /\ new.todo = Ingress(u) /\ new.host = Nowhere
                   /\ contested' = (contested \ Ingress(u)) \cup
                        {k \in Ingress(u) : \E s \in syncs : Works(s, k) /\ s.target # dnsRow[u].target}
        BY <1>0, <3>1, <4>2 DEF Works
      <4> QED  BY <1>2, <4>1, <4>2, ReconcileStep
    <3>3. Given(t, h)
      BY <2>1, <2>2, <2>4, <3>2 DEF Given
    <3> QED  BY <1>0, <2>2, <3>2, <3>3
  <2> QED  BY <2>3, <2>4
<1>3. ASSUME NEW s \in syncs, SyncStep(s)
      PROVE  r.target = dnsRow'[t].target
  <2>1. SyncFrame
    BY <1>3, SyncSteps
  <2>2. Given(t, h)
    <3>1. dnsFaults' = dnsFaults \/ dnsFaults' = dnsFaults + 1
      BY <1>3 DEF SyncStep, syncDNS, syncDNSDone, syncDNSEnsure, syncDNSFault, syncDNSTimeout
    <3> QED  BY <1>0, <2>1, <3>1 DEF SyncFrame, Given
  <2>3. r \in syncs \/ (r.target = s.target /\ Works(s, h))
    <3>1. CASE syncDNS(s)
      <4>1. PICK k \in s.todo, new \in Sync :
              /\ Becomes(s, new) /\ new.todo = s.todo \ {k}
              /\ IF Zoned(k) THEN new.host = k /\ new.recs = records[k]
                 ELSE new.host = Nowhere
        BY <3>1, ListStep
      <4> QED  BY <1>0, <4>1 DEF Becomes, Works
    <3>2. CASE syncDNSDone(s) \/ syncDNSTimeout(s)
      BY <3>2 DEF syncDNSDone, syncDNSTimeout
    <3>3. CASE syncDNSEnsure(s) \/ syncDNSFault(s)
      <4>1. Replace(s, [s EXCEPT !.host = Nowhere, !.recs = Unread])
        BY <3>3 DEF syncDNSEnsure, syncDNSFault
      <4>2. PICK new \in Sync : Becomes(s, new) /\ new.todo = s.todo /\ new.host = Nowhere
        BY <4>1, GiveUpStep
      <4> QED  BY <1>0, <4>2 DEF Becomes, Works
    <3> QED  BY <1>3, <3>1, <3>2, <3>3 DEF SyncStep
  <2> QED  BY <1>0, <2>1, <2>2, <2>3 DEF SyncFrame
<1>4. CASE UNCHANGED dnsVars
  BY <1>0, <1>4 DEF dnsVars, tunnelTables, dnsHistory, Given
<1> QED  BY <1>1, <1>2, <1>3, <1>4, DnsSteps

\* A name that is not served has a goroutine that will serve it.
LEMMA RoutesStep ==
    ASSUME DnsConstants, DnsTypes, RowsInv, IndexInv, WritersInv, RoutesInv, [DnsNext]_dnsVars
    PROVE  RoutesInv'
<1> DEFINE Good(c, h, ss, rs) ==
             \/ ~OneAddress(rs[h]) \/ PointsTo(c, rs[h])
             \/ \E s \in ss : UpToDate(s, h, c, rs)
<1> SUFFICES ASSUME NEW t \in DnsTunnels, NEW h \in Hostnames, Given(t, h)', Zoned(h)'
             PROVE  Good(dnsRow'[t].target, h, syncs', records')
  BY DEF RoutesInv, UpToDate
<1> DEFINE c == dnsRow[t].target
<1>0. /\ syncs \subseteq Sync /\ Nowhere \notin Hostnames /\ dnsFaults \in Nat
      /\ Given(t, h) /\ Zoned(h) => Good(c, h, syncs, records)
      /\ Given(t, h) => \A s \in syncs : Works(s, h) => s.target = c
  BY DEF DnsTypes, DnsConstants, RoutesInv, WritersInv
<1> HIDE DEF c
<1>1. CASE Saves
  <2>1. Given(t, h) /\ dnsRow'[t].target = c /\ UNCHANGED <<syncs, zones, records>>
    BY <1>1, GivenBefore, SaveStep DEF Saves, c
  <2>2. Zoned(h)
    BY <2>1 DEF Zoned
  <2> HIDE DEF Good
  <2> QED  BY <1>0, <2>1, <2>2
<1>2. ASSUME NEW u \in DnsTunnels, ReconcileTunnel(u)
      PROVE  Good(dnsRow'[t].target, h, syncs', records')
  <2>1. /\ UNCHANGED <<routed, zones, dnsFaults, records>>
        /\ Ingress(u) = {k \in Hostnames : routed[k] = u}
    BY <1>2 DEF ReconcileTunnel, Ingress
  <2>2. /\ dnsRow'[t].enabled = dnsRow[t].enabled /\ dnsRow'[t].target = c
        /\ waiting' = waiting \ {u} /\ (t # u => (t \in unsynced' <=> t \in unsynced))
    BY <1>2, ReconcileStep DEF c
  <2>3. CASE u = t
    <3>1. h \in Ingress(t) /\ t \notin unsynced' /\ dnsRow[t].enabled
      BY <2>1, <2>2, <2>3 DEF Given
    <3>2. PICK new \in Sync :
            syncs' = syncs \cup {new} /\ new.target = c /\ new.todo = Ingress(t)
      BY <1>2, <2>3, <3>1, ReconcileStep DEF c
    <3>3. UpToDate(new, h, c, records') /\ new \in syncs'
      BY <3>1, <3>2 DEF UpToDate
    <3> QED  BY <2>2, <3>3
  <2>4. CASE u # t
    <3>1. h \notin Ingress(u)
      BY <2>1, <2>4 DEF Given
    <3>2. (h \in contested' <=> h \in contested) /\ syncs \subseteq syncs'
      BY <1>2, <3>1, ReconcileStep
    <3>3. Given(t, h) /\ Zoned(h)
      BY <2>1, <2>2, <2>4, <3>2 DEF Given, Zoned
    <3> QED  BY <1>0, <2>1, <2>2, <3>2, <3>3
  <2> QED  BY <2>3, <2>4
<1>3. ASSUME NEW s \in syncs, SyncStep(s)
      PROVE  Good(dnsRow'[t].target, h, syncs', records')
  <2>1. SyncFrame
    BY <1>3, SyncSteps
  <2>2. Given(t, h) /\ Zoned(h) /\ dnsRow'[t].target = c /\ dnsFaults' = 0 /\ dnsFaults = 0
    <3>1. dnsFaults' = dnsFaults \/ dnsFaults' = dnsFaults + 1
      BY <1>3 DEF SyncStep, syncDNS, syncDNSDone, syncDNSEnsure, syncDNSFault, syncDNSTimeout
    <3> QED  BY <1>0, <2>1, <3>1 DEF SyncFrame, Given, Zoned, c
  <2>3. Good(c, h, syncs, records) /\ (Works(s, h) => s.target = c)
    BY <1>0, <2>2
  <2>4. CASE syncDNS(s)
    <3>1. records' = records /\ s.host = Nowhere
      BY <2>4 DEF syncDNS
    <3>2. PICK k \in s.todo, new \in Sync :
              /\ Becomes(s, new) /\ new.todo = s.todo \ {k}
              /\ IF Zoned(k) THEN new.host = k /\ new.recs = records[k]
                 ELSE new.host = Nowhere
      BY <2>4, ListStep
    <3>3. UpToDate(s, h, c, records) => UpToDate(new, h, c, records')
      BY <1>0, <2>2, <3>1, <3>2 DEF UpToDate, Becomes
    <3> QED  BY <2>2, <2>3, <3>1, <3>2, <3>3 DEF Becomes
  <2>5. CASE syncDNSDone(s)
    <3>1. records' = records /\ syncs' = syncs \ {s} /\ ~UpToDate(s, h, c, records)
      BY <1>0, <2>5 DEF syncDNSDone, UpToDate
    <3> QED  BY <2>2, <2>3, <3>1
  <2>6. CASE syncDNSFault(s) \/ syncDNSTimeout(s)
    BY <1>0, <2>2, <2>6 DEF syncDNSFault, syncDNSTimeout
  <2>7. CASE syncDNSEnsure(s)
    <3>1. Replace(s, [s EXCEPT !.host = Nowhere, !.recs = Unread])
      BY <2>7 DEF syncDNSEnsure
    <3>2. PICK new \in Sync : Becomes(s, new) /\ new.todo = s.todo /\ new.host = Nowhere
      BY <3>1, GiveUpStep
    <3>3. /\ s.host \in Hostnames
          /\ \A k \in Hostnames : k # s.host => records'[k] = records[k]
          /\ \/ records'[s.host] = records[s.host]
             \/ OneAddress(records[s.host]) /\ PointsTo(s.target, records'[s.host])
          /\ s.recs = records[s.host] /\ OneAddress(records[s.host]) =>
               PointsTo(s.target, records'[s.host])
      BY <2>7, EnsureStep
    <3>4. CASE s.host = h /\ records'[h] # records[h]
      <4>1. PointsTo(c, records'[h])
        BY <2>3, <3>3, <3>4 DEF Works
      <4> QED  BY <2>2, <4>1
    <3>5. CASE records'[h] = records[h]
      <4>1. CASE ~OneAddress(records[h]) \/ PointsTo(c, records[h])
        BY <2>2, <3>5, <4>1
      <4>2. ASSUME NEW r \in syncs, UpToDate(r, h, c, records), OneAddress(records[h])
            PROVE  Good(c, h, syncs', records')
        <5>1. CASE r # s
          <6>1. r \in syncs' /\ UpToDate(r, h, c, records')
            BY <3>2, <3>5, <4>2, <5>1 DEF Becomes, UpToDate
          <6> QED  BY <6>1
        <5>2. CASE r = s /\ h \in s.todo
          <6>1. new \in syncs' /\ UpToDate(new, h, c, records')
            BY <3>2, <4>2, <5>2 DEF Becomes, UpToDate
          <6> QED  BY <6>1
        <5>3. CASE r = s /\ s.host = h /\ s.recs = records[h]
          <6>1. PointsTo(c, records'[h])
            BY <3>3, <4>2, <5>3 DEF UpToDate
          <6> QED  BY <6>1
        <5> QED  BY <4>2, <5>1, <5>2, <5>3 DEF UpToDate
      <4> QED  BY <2>2, <2>3, <4>1, <4>2
    <3> QED  BY <3>3, <3>4, <3>5
  <2> QED  BY <1>3, <2>4, <2>5, <2>6, <2>7 DEF SyncStep
<1>4. CASE UNCHANGED dnsVars
  <2>1. /\ UNCHANGED <<routed, dnsRow, waiting, unsynced, contested, dnsFaults>>
        /\ UNCHANGED <<syncs, zones, records>>
    BY <1>4 DEF dnsVars, tunnelTables, dnsHistory
  <2>2. Given(t, h) /\ Zoned(h) /\ dnsRow'[t].target = c
    BY <2>1 DEF Given, Zoned, c
  <2> HIDE DEF Good
  <2> QED  BY <1>0, <2>1, <2>2
<1> QED  BY <1>1, <1>2, <1>3, <1>4, DnsSteps

\* The records that a name starts with.
LEMMA ExistingRecords ==
    ASSUME NEW recs \in Existing
    PROVE  recs \in Seq(Record)
<1> DEFINE txt == Rec("TXT", Nowhere, FALSE)
           a == Rec("A", Nowhere, TRUE)
           aaaa == Rec("AAAA", Nowhere, TRUE)
           c == Rec("CNAME", Nowhere, TRUE)
<1>1. txt \in Record /\ a \in Record /\ aaaa \in Record /\ c \in Record
  BY DEF Rec, Record, Address
<1>2. \A t \in CFTargets : Rec("CNAME", t, FALSE) \in Record
  BY DEF Rec, Record, Address
<1>3. \/ recs = <<>> \/ recs = <<txt, a>> \/ recs = <<c, txt>> \/ recs = <<a, aaaa>>
      \/ \E t \in CFTargets : recs = <<Rec("CNAME", t, FALSE)>>
  BY DEF Existing
<1> HIDE DEF txt, a, aaaa, c
<1>4. \A x \in Record : <<x>> \in Seq(Record)
  OBVIOUS
<1>5. \A x, y \in Record : <<x, y>> \in Seq(Record)
  OBVIOUS
<1>6. <<>> \in Seq(Record)
  OBVIOUS
<1>7. CASE \E t \in CFTargets : recs = <<Rec("CNAME", t, FALSE)>>
  BY <1>2, <1>4, <1>7, Zenon
<1>8. CASE recs = <<>> \/ recs = <<txt, a>> \/ recs = <<c, txt>> \/ recs = <<a, aaaa>>
  BY <1>1, <1>5, <1>6, <1>8, Zenon
<1> QED  BY <1>3, <1>7, <1>8

\* The inductive invariant of DnsSync.
THEOREM DnsInvariant == DnsSpec => []DnsInv
<1>0. DnsConstants
  BY DnsAssumption DEF DnsConstants
<1>1. DnsInit => DnsInv
  <2> SUFFICES ASSUME DnsInit PROVE DnsInv
    OBVIOUS
  <2>0. /\ routed = [h \in Hostnames |-> Nowhere] /\ waiting = {} /\ syncs = {}
        /\ dnsRow \in [DnsTunnels -> [target : CFTargets, enabled : {TRUE}, project : {TRUE}]]
        /\ records \in [Hostnames -> Existing]
        /\ saves = 0 /\ dnsFaults = 0
    BY DEF DnsInit
  <2>1. \A h \in Hostnames : records[h] \in Seq(Record)
    BY <2>0, ExistingRecords
  <2>2. \A t \in DnsTunnels : dnsRow[t] \in TunnelRow /\ dnsRow[t].target \in CFTargets
    BY <2>0 DEF TunnelRow
  <2>3. DnsTypes
    BY <2>0, <2>1, <2>2 DEF DnsTypes
  <2>4. RowsInv
    BY <1>0, <2>2 DEF RowsInv, DnsConstants
  <2>5. IndexInv /\ WritersInv
    BY <2>0 DEF IndexInv, WritersInv
  <2>6. RoutesInv
    BY <1>0, <2>0 DEF RoutesInv, Given, DnsConstants
  <2> QED  BY <2>3, <2>4, <2>5, <2>6 DEF DnsInv
<1>2. DnsInv /\ [DnsNext]_dnsVars => DnsInv'
  BY <1>0, DnsTypesStep, IndexStep, WritersStep, RoutesStep DEF DnsInv
<1> QED  BY <1>1, <1>2, PTL DEF DnsSpec

\* classifyDNS calls ok what ensureCNAME makes.
LEMMA ServedIsOk ==
    ASSUME NEW t \in CFTargets, NEW recs \in Seq(Record), OneAddress(recs), PointsTo(t, recs)
    PROVE  classifyDNS(t, recs) = "ok"
<1>1. PICK i \in DOMAIN recs : recs[i] = Rec("CNAME", t, TRUE)
  BY DEF PointsTo
<1>2. /\ recs[i].type = "CNAME" /\ recs[i].content = t /\ recs[i].proxied
      /\ "CNAME" \in Address
  BY <1>1, DesiredIsRecord
<1>3. AddressIndex(recs) # 0
  BY <1>2, AddressIndexFinds
<1>4. \A j \in DOMAIN recs : recs[j].type = "CNAME" => j = i
  BY <1>2 DEF OneAddress
<1> DEFINE I == {j \in 1..Len(recs) : recs[j].type = "CNAME"}
           cname == SelectInSeq(recs, LAMBDA r : r.type = "CNAME")
<1>5. DOMAIN recs = 1..Len(recs) /\ i \in Nat \ {0}
  OBVIOUS
<1>6. I = {i}
  BY <1>2, <1>4, <1>5
<1>7. cname = Min(I)
  BY <1>6 DEF SelectInSeq
<1>8. Min({i}) = i
  BY <1>5 DEF Min
<1>9. cname = i
  BY <1>6, <1>7, <1>8
<1> HIDE DEF cname
<1>10. cname # 0 /\ recs[cname].content = t /\ recs[cname].proxied
  BY <1>2, <1>5, <1>9
<1> QED  BY <1>3, <1>10 DEF classifyDNS, cname

\* Once every reconciliation and goroutine is done without a failed call, the
\* routes page shows "ok" for every hostname with a zone, whatever hostnames
\* were moved and targets changed on the way, but for the three cases that
\* DnsFollowsRoutes names (syncDNS, ensureCNAME and classifyDNS of manager.go).
THEOREM DnsConverges == DnsSpec => []DnsFollowsRoutes
<1>1. DnsInv => DnsFollowsRoutes
  <2> SUFFICES ASSUME DnsInv, DnsQuiet, dnsFaults = 0, NEW t \in DnsTunnels, t \notin unsynced,
                      NEW h \in Ingress(t), h \notin contested,
                      dnsRow[t].enabled, OneAddress(records[h])
               PROVE  RoutesFor(t)[h] \in {"ok", "no_zone"}
    BY DEF DnsFollowsRoutes
  <2>1. h \in Hostnames /\ routed[h] = t
    BY DEF Ingress
  <2> DEFINE c == dnsRow[t].target
  <2>2. RoutesFor(t)[h] = IF Zoned(h) THEN classifyDNS(c, records[h]) ELSE "no_zone"
    BY DEF RoutesFor
  <2>3. ~Zoned(h) \/ PointsTo(c, records[h])
    BY <2>1 DEF DnsInv, RoutesInv, Given, DnsQuiet
  <2>4. records[h] \in Seq(Record) /\ c \in CFTargets
    BY <2>1 DEF DnsInv, DnsTypes, RowsInv, TunnelRow
  <2>5. PointsTo(c, records[h]) => classifyDNS(c, records[h]) = "ok"
    <3> HIDE DEF c
    <3> QED  BY <2>4, ServedIsOk
  <2> QED  BY <2>2, <2>3, <2>5
<1> QED  BY <1>1, DnsInvariant, PTL

\* No step of a goroutine, however old the listing it works from, touches the
\* TXT records next to the address record of a name (manager.go:191).
THEOREM TxtRecordsStay == DnsSpec => SiblingsKept
<1>0. DnsConstants
  BY DnsAssumption DEF DnsConstants
<1>1. DnsInv /\ [DnsNext]_dnsVars =>
        [\A h \in Hostnames : Siblings(records'[h]) = Siblings(records[h])]_dnsVars
  <2> SUFFICES ASSUME DnsInv, DnsNext, NEW h \in Hostnames
               PROVE  Siblings(records'[h]) = Siblings(records[h])
    OBVIOUS
  <2>1. CASE \E s \in syncs : syncDNSEnsure(s)
    <3>1. PICK s \in syncs : syncDNSEnsure(s)
      BY <2>1
    <3>2. /\ s.host \in Hostnames
          /\ \A k \in Hostnames : k # s.host => records'[k] = records[k]
          /\ Rewrites(records[s.host], records'[s.host])
      BY <1>0, <3>1, EnsureStep DEF DnsInv
    <3> QED  BY <3>2 DEF Rewrites
  <2>2. CASE ~(\E s \in syncs : syncDNSEnsure(s))
    <3>1. records' = records
      BY <2>2 DEF DnsNext, SyncStep, saveProjectHost, saveTunnel, dropTunnel, ReconcileTunnel, syncDNS, syncDNSDone,
                  syncDNSFault, syncDNSTimeout
    <3> QED  BY <3>1
  <2> QED  BY <2>1, <2>2
<1> QED  BY <1>1, DnsInvariant, PTL DEF DnsSpec, SiblingsKept

-----------------------------------------------------------------------------
(***************************************************************************)
(* ZoneMatch: names and listings of any length.  Induction over data is    *)
(* first-order: a set stands for the predicate, and LoopExists gives the   *)
(* function that a recursive definition denotes.                           *)
(***************************************************************************)
\* Induction, with a set in the place of the predicate.
LEMMA SetInduction ==
    ASSUME NEW N \in Nat, NEW S, 0 \in S, \A n \in 1..N : n - 1 \in S => n \in S
    PROVE  \A n \in 0..N : n \in S
<1> DEFINE C == {n \in 0..N : n \notin S}
<1> SUFFICES ASSUME C # {} PROVE FALSE
  OBVIOUS
<1>1. C \in SUBSET Nat
  OBVIOUS
<1>2. PICK m \in C : \A k \in C : m <= k
  <2> HIDE DEF C
  <2> QED  BY <1>1, LeastExists
<1>3. m \in 0..N /\ m \notin S /\ m # 0
  BY <1>2
<1>4. m \in 1..N /\ m - 1 \in 0..N /\ ~(m <= m - 1)
  BY <1>3
<1>5. m - 1 \in S
  BY <1>2, <1>4
<1> QED  BY <1>3, <1>4, <1>5

\* f[n] is the result of n rounds of a loop that starts from v.
Iterates(f, v, n, G) == f[0] = v /\ \A k \in 1..n : f[k] = G[k][f[k - 1]]

\* A loop computes a function of the number of its rounds.
LEMMA LoopExists ==
    ASSUME NEW V, NEW v0 \in V, NEW N \in Nat, NEW G \in [Nat -> [V -> V]]
    PROVE  \E f \in [0..N -> V] : Iterates(f, v0, N, G)
<1> DEFINE S == {m \in 0..N : \E f \in [0..m -> V] : Iterates(f, v0, m, G)}
<1>1. 0 \in S
  <2> DEFINE f == [i \in 0..0 |-> v0]
  <2>1. f \in [0..0 -> V] /\ f[0] = v0
    OBVIOUS
  <2>2. Iterates(f, v0, 0, G)
    BY <2>1 DEF Iterates
  <2> HIDE DEF f
  <2> QED  BY <2>1, <2>2
<1>2. ASSUME NEW m \in 1..N, m - 1 \in S
      PROVE  m \in S
  <2>1. m \in Nat /\ m - 1 \in Nat /\ m - 1 \in 0..(m - 1) /\ 0 \in 0..m /\ 0 # m
    OBVIOUS
  <2>2. PICK f \in [0..(m - 1) -> V] : Iterates(f, v0, m - 1, G)
    BY <1>2
  <2> DEFINE v == G[m][f[m - 1]]
             g == [i \in 0..m |-> IF i = m THEN v ELSE f[i]]
  <2>3. v \in V
    <3>1. f[m - 1] \in V
      BY <2>1
    <3> QED  BY <2>1, <3>1
  <2>4. g \in [0..m -> V]
    <3>1. \A i \in 0..m : i # m => i \in 0..(m - 1)
      BY <2>1
    <3> HIDE DEF v
    <3> QED  BY <2>3, <3>1
  <2>5. g[0] = v0
    BY <2>1, <2>2 DEF Iterates
  <2>6. ASSUME NEW n \in 1..m
        PROVE  g[n] = G[n][g[n - 1]]
    <3>1. n - 1 \in 0..m /\ n - 1 # m /\ n \in 0..m /\ (n # m => n \in 1..(m - 1))
      BY <2>1
    <3>2. g[n - 1] = f[n - 1]
      BY <3>1
    <3>3. CASE n = m
      BY <3>1, <3>2, <3>3
    <3>4. CASE n # m
      <4>1. g[n] = f[n]
        BY <3>1, <3>4
      <4>2. f[n] = G[n][f[n - 1]]
        BY <2>2, <3>1, <3>4 DEF Iterates
      <4> QED  BY <3>2, <4>1, <4>2
    <3> QED  BY <3>3, <3>4
  <2>7. Iterates(g, v0, m, G)
    BY <2>5, <2>6 DEF Iterates
  <2> HIDE DEF g
  <2> QED  BY <2>1, <2>4, <2>7
<1>3. N \in S
  <2> HIDE DEF S
  <2>1. \A n \in 0..N : n \in S
    BY <1>1, <1>2, SetInduction
  <2> QED  BY <2>1
<1> QED  BY <1>3

\* The loop of FindZoneForHostname, round by round.
Loop(zs, name, best) ==
    /\ best[0] = NoZone
    /\ \A n \in 1..Len(zs) :
         best[n] = IF /\ Matches(name, zs[n])
                      /\ best[n - 1] = NoZone \/ Len(zs[n]) > Len(best[n - 1])
                   THEN zs[n] ELSE best[n - 1]

\* FindZoneForHostname is the loop over the listing.
LEMMA FindZoneLoops ==
    ASSUME NEW V, NEW zs \in Seq(V), NEW name
    PROVE  \E best : Loop(zs, name, best) /\ FindZoneForHostname(zs, name) = best[Len(zs)]
<1> DEFINE N == Len(zs)
           W == V \cup {NoZone}
           Round(n, b) == IF /\ Matches(name, zs[n])
                             /\ b = NoZone \/ Len(zs[n]) > Len(b)
                          THEN zs[n] ELSE b
           G == [n \in Nat |-> [b \in W |-> IF n \in 1..N THEN Round(n, b) ELSE b]]
           F(f) == [n \in 0..N |-> IF n = 0 THEN NoZone ELSE Round(n, f[n - 1])]
<1>1. N \in Nat /\ \A n \in 1..N : zs[n] \in W
  OBVIOUS
<1>2. \A n \in 1..N, b \in W : Round(n, b) \in W
  BY <1>1
<1> HIDE DEF Round
<1>3. G \in [Nat -> [W -> W]] /\ NoZone \in W
  BY <1>2
<1>4. PICK f \in [0..N -> W] : Iterates(f, NoZone, N, G)
  <2> HIDE DEF G, W, N
  <2>1. N \in Nat /\ NoZone \in W /\ G \in [Nat -> [W -> W]]
    BY <1>1, <1>3
  <2> QED  BY <2>1, LoopExists
<1>5. f = F(f)
  <2>1. \A n \in 1..N : n \in Nat /\ n - 1 \in 0..N
    BY <1>1
  <2>2. \A n \in 1..N : f[n] = Round(n, f[n - 1])
    BY <1>4, <2>1 DEF Iterates
  <2>3. \A n \in 0..N : n = 0 \/ n \in 1..N
    BY <1>1
  <2> QED  BY <1>4, <2>2, <2>3 DEF Iterates
<1> DEFINE best == CHOOSE g : g = F(g)
<1>6. best = F(best)
  <2> HIDE DEF F
  <2> QED  BY <1>5
<1>7. FindZoneForHostname(zs, name) = best[N]
  BY DEF FindZoneForHostname, Round
<1> HIDE DEF best
<1>8. Loop(zs, name, best)
  <2>1. best[0] = NoZone
    BY <1>1, <1>6
  <2>2. \A n \in 1..N : n \in 0..N /\ n # 0
    BY <1>1
  <2>3. \A n \in 1..N : best[n] = Round(n, best[n - 1])
    BY <1>6, <2>2
  <2> QED  BY <2>1, <2>3 DEF Loop, Round
<1> QED  BY <1>7, <1>8

\* After n rounds the loop has the longest of the first n zones that match.
Longest(zs, name, n, z) ==
    \/ z = NoZone /\ \A k \in 1..n : ~Matches(name, zs[k])
    \/ \E k \in 1..n :
         /\ z = zs[k] /\ Matches(name, zs[k])
         /\ \A j \in 1..n : Matches(name, zs[j]) => Len(zs[j]) <= Len(zs[k])

\* The loop keeps the longest match.
LEMMA LoopFindsLongest ==
    ASSUME NEW V, NEW zs \in Seq(V), NEW name, NEW best, Loop(zs, name, best),
           \A z \in V : Len(z) \in Nat /\ z # NoZone
    PROVE  Longest(zs, name, Len(zs), best[Len(zs)])
<1> DEFINE N == Len(zs)
           S == {n \in 0..N : Longest(zs, name, n, best[n])}
<1>0. N \in Nat /\ \A n \in 1..N : zs[n] # NoZone /\ Len(zs[n]) \in Nat
  OBVIOUS
<1>1. 0 \in S
  BY <1>0 DEF Loop, Longest
<1>2. ASSUME NEW n \in 1..N, n - 1 \in S
      PROVE  n \in S
  <2> DEFINE b == best[n - 1]
  <2>1. Longest(zs, name, n - 1, b)
    BY <1>2
  <2>2. best[n] = IF /\ Matches(name, zs[n])
                     /\ b = NoZone \/ Len(zs[n]) > Len(b)
                  THEN zs[n] ELSE b
    BY DEF Loop
  <2> HIDE DEF b
  <2>3. /\ n \in 0..N /\ n \in 1..n /\ 1..n \subseteq 1..N
        /\ \A k \in 1..n : k = n \/ k \in 1..(n - 1)
        /\ 1..(n - 1) \subseteq 1..n
    BY <1>0
  <2>4. CASE b = NoZone
    <3>1. \A k \in 1..(n - 1) : ~Matches(name, zs[k])
      BY <1>0, <2>1, <2>3, <2>4 DEF Longest
    <3>2. CASE Matches(name, zs[n])
      <4>1. best[n] = zs[n]
        BY <2>2, <2>4, <3>2
      <4>2. \A j \in 1..n : Matches(name, zs[j]) => Len(zs[j]) <= Len(zs[n])
        BY <1>0, <2>3, <3>1
      <4> QED  BY <2>3, <3>2, <4>1, <4>2 DEF Longest
    <3>3. CASE ~Matches(name, zs[n])
      <4>1. best[n] = NoZone
        BY <2>2, <2>4, <3>3
      <4>2. \A k \in 1..n : ~Matches(name, zs[k])
        BY <2>3, <3>1, <3>3
      <4> QED  BY <2>3, <4>1, <4>2 DEF Longest
    <3> QED  BY <3>2, <3>3
  <2>5. CASE b # NoZone
    <3>1. PICK k \in 1..(n - 1) :
            /\ b = zs[k] /\ Matches(name, zs[k])
            /\ \A j \in 1..(n - 1) : Matches(name, zs[j]) => Len(zs[j]) <= Len(zs[k])
      BY <2>1, <2>5 DEF Longest
    <3>2. CASE Matches(name, zs[n]) /\ Len(zs[n]) > Len(zs[k])
      <4>1. best[n] = zs[n]
        BY <2>2, <3>1, <3>2
      <4>2. \A j \in 1..n : Matches(name, zs[j]) => Len(zs[j]) <= Len(zs[n])
        BY <1>0, <2>3, <3>1, <3>2
      <4> QED  BY <2>3, <3>2, <4>1, <4>2 DEF Longest
    <3>3. CASE ~(Matches(name, zs[n]) /\ Len(zs[n]) > Len(zs[k]))
      <4>1. best[n] = zs[k]
        BY <2>2, <2>5, <3>1, <3>3
      <4>2. \A j \in 1..n : Matches(name, zs[j]) => Len(zs[j]) <= Len(zs[k])
        BY <1>0, <2>3, <3>1, <3>3
      <4> QED  BY <2>3, <3>1, <4>1, <4>2 DEF Longest
    <3> QED  BY <3>2, <3>3
  <2> QED  BY <2>4, <2>5
<1>3. N \in S
  <2> HIDE DEF S
  <2>1. \A n \in 0..N : n \in S
    BY <1>0, <1>1, <1>2, SetInduction
  <2> QED  BY <1>0, <2>1
<1> QED  BY <1>3

\* s is what t ends in, from the place d + 1 on.
Ends(s, t, d) == \A i \in 1..Len(s) : s[i] = t[d + i]

\* HasSuffix, element by element.
LEMMA SuffixEnds ==
    ASSUME NEW C, NEW s \in Seq(C), NEW t \in Seq(C)
    PROVE  IsSuffix(s, t) <=> Len(s) <= Len(t) /\ Ends(s, t, Len(t) - Len(s))
<1> DEFINE m == Len(s)
           n == Len(t)
           r == Reverse(s)
           q == Reverse(t)
<1>0. m \in Nat /\ n \in Nat
  OBVIOUS
<1>1. /\ r \in Seq(C) /\ Len(r) = m /\ \A i \in 1..m : r[i] = s[m - i + 1]
      /\ q \in Seq(C) /\ Len(q) = n /\ \A i \in 1..n : q[i] = t[n - i + 1]
  <2>1. \A i \in 1..m : m - i + 1 \in 1..m
    BY <1>0
  <2>2. \A i \in 1..n : n - i + 1 \in 1..n
    BY <1>0
  <2>3. r = [i \in 1..m |-> s[m - i + 1]] /\ q = [i \in 1..n |-> t[n - i + 1]]
    BY DEF Reverse
  <2>4. \A i \in 1..m : s[m - i + 1] \in C
    BY <2>1
  <2>5. \A i \in 1..n : t[n - i + 1] \in C
    BY <2>2
  <2> HIDE DEF r, q, m, n
  <2>6. r \in [1..m -> C] /\ q \in [1..n -> C]
    BY <2>3, <2>4, <2>5
  <2>7. r \in Seq(C) /\ Len(r) = m
    BY <1>0, <2>6
  <2>8. q \in Seq(C) /\ Len(q) = n
    BY <1>0, <2>6
  <2>9. (\A i \in 1..m : r[i] = s[m - i + 1]) /\ (\A i \in 1..n : q[i] = t[n - i + 1])
    BY <2>3
  <2> QED  BY <2>7, <2>8, <2>9
<1>2. IsSuffix(s, t) <=> m <= n /\ SubSeq(r, 1, m) = SubSeq(q, 1, m)
  BY <1>1 DEF IsSuffix, IsPrefix
<1> HIDE DEF r, q
<1>3. CASE m <= n
  <2>1. /\ SubSeq(r, 1, m) = [i \in 1..m |-> r[i]] /\ SubSeq(q, 1, m) = [i \in 1..m |-> q[i]]
    BY <1>0, <1>1, <1>3
  <2>2. SubSeq(r, 1, m) = SubSeq(q, 1, m) <=> \A i \in 1..m : r[i] = q[i]
    BY <2>1
  <2>3. \A i \in 1..m : r[i] = s[m - i + 1] /\ q[i] = t[n - i + 1]
    BY <1>0, <1>1, <1>3
  <2>4. (\A i \in 1..m : s[m - i + 1] = t[n - i + 1]) <=> \A i \in 1..m : s[i] = t[n - m + i]
    <3>1. ASSUME \A i \in 1..m : s[m - i + 1] = t[n - i + 1], NEW i \in 1..m
          PROVE  s[i] = t[n - m + i]
      <4>1. m - i + 1 \in 1..m /\ m - (m - i + 1) + 1 = i /\ n - (m - i + 1) + 1 = n - m + i
        BY <1>0
      <4> QED  BY <3>1, <4>1
    <3>2. ASSUME \A i \in 1..m : s[i] = t[n - m + i], NEW i \in 1..m
          PROVE  s[m - i + 1] = t[n - i + 1]
      <4>1. m - i + 1 \in 1..m /\ n - m + (m - i + 1) = n - i + 1
        BY <1>0
      <4> QED  BY <3>2, <4>1
    <3> QED  BY <3>1, <3>2
  <2> QED  BY <1>2, <1>3, <2>2, <2>3, <2>4 DEF Ends
<1>4. CASE ~(m <= n)
  BY <1>2, <1>4
<1> QED  BY <1>3, <1>4

\* Matches, as the code tests it, finds the names that the zone owns.
LEMMA MatchesIsOwns ==
    ASSUME NEW C, "." \in C, NEW z \in Seq(C), NEW h \in Seq(C), Len(z) > 0
    PROVE  Matches(h, z) <=> Owns(z, h)
<1> DEFINE m == Len(z)
           n == Len(h)
           p == <<".">> \o z
<1>0. m \in Nat /\ n \in Nat /\ m > 0
  OBVIOUS
<1>1. p \in Seq(C) /\ Len(p) = m + 1 /\ p[1] = "." /\ \A i \in 1..m : p[i + 1] = z[i]
  OBVIOUS
<1>2. IsSuffix(p, h) <=> m + 1 <= n /\ Ends(p, h, n - (m + 1))
  <2> HIDE DEF p
  <2> QED  BY <1>1, SuffixEnds
<1> HIDE DEF p
<1>3. Ends(p, h, n - (m + 1)) <=> h[n - m] = "." /\ Ends(z, h, n - m)
  <2>1. ASSUME Ends(p, h, n - (m + 1))
        PROVE  h[n - m] = "." /\ Ends(z, h, n - m)
    <3>1. 1 \in 1..(m + 1) /\ n - (m + 1) + 1 = n - m
      BY <1>0
    <3>2. \A i \in 1..m : i + 1 \in 1..(m + 1) /\ n - (m + 1) + (i + 1) = n - m + i
      BY <1>0
    <3>3. \A i \in 1..(m + 1) : p[i] = h[n - (m + 1) + i]
      BY <1>1, <2>1 DEF Ends
    <3> QED  BY <1>1, <3>1, <3>2, <3>3 DEF Ends
  <2>2. ASSUME h[n - m] = ".", Ends(z, h, n - m)
        PROVE  Ends(p, h, n - (m + 1))
    <3> SUFFICES ASSUME NEW i \in 1..(m + 1) PROVE p[i] = h[n - (m + 1) + i]
      BY <1>1 DEF Ends
    <3>1. CASE i = 1
      <4>1. n - (m + 1) + 1 = n - m
        BY <1>0
      <4> QED  BY <1>1, <2>2, <3>1, <4>1
    <3>2. CASE i # 1
      <4>1. i - 1 \in 1..m /\ (i - 1) + 1 = i /\ n - m + (i - 1) = n - (m + 1) + i
        BY <1>0, <3>2
      <4>2. p[(i - 1) + 1] = z[i - 1] /\ z[i - 1] = h[n - m + (i - 1)]
        BY <1>1, <2>2, <4>1 DEF Ends
      <4> QED  BY <4>1, <4>2
    <3> QED  BY <3>1, <3>2
  <2> QED  BY <2>1, <2>2
<1>4. \A cut \in 0..(n - 1) :
        SubSeq(h, cut + 1, n) = z <=> m = n - cut /\ Ends(z, h, cut)
  <2> TAKE cut \in 0..(n - 1)
  <2> DEFINE w == SubSeq(h, cut + 1, n)
  <2>1. w \in Seq(C) /\ Len(w) = n - cut /\ \A i \in 1..(n - cut) : w[i] = h[cut + i]
    <3>1. Len(w) = n - cut /\ w \in Seq(C)
      BY <1>0
    <3>2. \A i \in 1..(n - cut) : w[i] = h[cut + 1 + i - 1] /\ cut + 1 + i - 1 = cut + i
      BY <1>0
    <3> QED  BY <3>1, <3>2
  <2> HIDE DEF w
  <2>2. w = z <=> Len(w) = m /\ \A i \in 1..m : w[i] = z[i]
    <3>1. w \in Seq(C) /\ z \in Seq(C)
      BY <1>0, <2>1
    <3> QED  BY ONLY <3>1
  <2> QED  BY <1>0, <2>1, <2>2 DEF Ends, w
<1>5. Owns(z, h) <=> n - m \in 0..(n - 1) /\ (n - m = 0 \/ h[n - m] = ".") /\ Ends(z, h, n - m)
  <2>1. \A cut \in 0..(n - 1) : m = n - cut <=> cut = n - m
    BY <1>0
  <2>2. Owns(z, h) <=>
          \E cut \in 0..(n - 1) : (cut = 0 \/ h[cut] = ".") /\ SubSeq(h, cut + 1, n) = z
    BY DEF Owns
  <2> QED  BY <1>4, <2>1, <2>2
<1>6. h = z <=> n - m = 0 /\ Ends(z, h, n - m)
  <2>1. h = z <=> n = m /\ \A i \in 1..m : h[i] = z[i]
    OBVIOUS
  <2>2. \A i \in 1..m : 0 + i = i
    OBVIOUS
  <2> QED  BY <1>0, <2>1, <2>2 DEF Ends
<1>7. Matches(h, z) <=> h = z \/ (m + 1 <= n /\ h[n - m] = "." /\ Ends(z, h, n - m))
  BY <1>2, <1>3 DEF Matches, p
<1>8. n - m \in 0..(n - 1) <=> n - m = 0 \/ m + 1 <= n
  BY <1>0
<1> QED  BY <1>5, <1>6, <1>7, <1>8

\* No hostname is empty.
LEMMA NamesAreNonempty ==
    ASSUME NEW length \in Nat, NEW s \in Names(length)
    PROVE  s \in Seq(Letters \cup {"."}) /\ Len(s) > 0
<1>1. PICK n \in 1..length : s \in [1..n -> Letters \cup {"."}]
  BY DEF Names
<1>2. n \in Nat /\ n > 0
  OBVIOUS
<1> QED  BY <1>1, <1>2

\* The loop over a listing finds the most specific zone that owns the name.
LEMMA FindsMostSpecific ==
    ASSUME ZoneLength \in Nat, NameLength \in Nat, MaxZones \in Nat,
           NEW zs \in Listings, NEW h \in Names(NameLength)
    PROVE  MostSpecific(zs, h, FindZoneForHostname(zs, h))
<1> DEFINE V == Names(ZoneLength)
           C == Letters \cup {"."}
           z == FindZoneForHostname(zs, h)
           owners == {y \in ToSet(zs) : Owns(y, h)}
<1>1. zs \in Seq(V)
  <2>1. PICK n \in 0..MaxZones : zs \in [1..n -> V]
    BY DEF Listings
  <2> HIDE DEF V
  <2> QED  BY <2>1
<1>2. h \in Seq(C) /\ \A y \in V : y \in Seq(C) /\ Len(y) > 0 /\ Len(y) \in Nat
  <2>1. h \in Seq(C)
    BY NamesAreNonempty
  <2>2. \A y \in V : y \in Seq(C) /\ Len(y) > 0
    BY NamesAreNonempty
  <2>3. \A y \in Seq(C) : Len(y) \in Nat
    OBVIOUS
  <2> QED  BY <2>1, <2>2, <2>3
<1> HIDE DEF V
<1>3. \A y \in V : y # NoZone
  BY <1>2 DEF NoZone
<1>4. PICK best : Loop(zs, h, best) /\ z = best[Len(zs)]
  BY <1>1, FindZoneLoops
<1> HIDE DEF z
<1>5. Longest(zs, h, Len(zs), z)
  BY <1>1, <1>2, <1>3, <1>4, LoopFindsLongest
<1>6. \A y \in V : Matches(h, y) <=> Owns(y, h)
  BY <1>2, MatchesIsOwns
<1>7. \A y : y \in ToSet(zs) <=> \E k \in 1..Len(zs) : y = zs[k]
  BY <1>1 DEF ToSet
<1>8. \A k \in 1..Len(zs) : zs[k] \in V
  BY <1>1
<1>9. CASE owners = {}
  <2>1. \A k \in 1..Len(zs) : ~Matches(h, zs[k])
    BY <1>6, <1>7, <1>8, <1>9
  <2>2. z = NoZone
    BY <1>5, <2>1 DEF Longest
  <2> QED  BY <1>9, <2>2 DEF MostSpecific, z
<1>10. CASE owners # {}
  <2>1. \E k \in 1..Len(zs) : Matches(h, zs[k])
    BY <1>6, <1>7, <1>8, <1>10
  <2>2. PICK k \in 1..Len(zs) :
          /\ z = zs[k] /\ Matches(h, zs[k])
          /\ \A j \in 1..Len(zs) : Matches(h, zs[j]) => Len(zs[j]) <= Len(zs[k])
    BY <1>5, <2>1 DEF Longest
  <2>3. z \in owners
    BY <1>6, <1>7, <1>8, <2>2
  <2>4. \A y \in owners : Len(y) <= Len(z)
    BY <1>6, <1>7, <1>8, <2>2
  <2> QED  BY <1>10, <2>3, <2>4 DEF MostSpecific, z
<1> QED  BY <1>9, <1>10

\* Whatever zones the token sees and in whatever order, the hostname's records
\* are written to the most specific zone that owns it (FindZoneForHostname).
THEOREM ZoneOfHostname == DnsSpec => []LongestSuffix
<1> DEFINE Listed == zones \in Listings
<1>1. DnsInit => Listed
  BY DEF DnsInit
<1>2. Listed /\ [DnsNext]_dnsVars => Listed'
  BY DEF DnsNext, SyncStep, saveProjectHost, saveTunnel, dropTunnel, ReconcileTunnel, syncDNS,
         syncDNSDone, syncDNSEnsure, syncDNSFault, syncDNSTimeout, dnsVars
<1>3. Listed => LongestSuffix
  BY ZoneAssumption, FindsMostSpecific DEF LongestSuffix
<1> QED  BY <1>1, <1>2, <1>3, PTL DEF DnsSpec
=============================================================================
