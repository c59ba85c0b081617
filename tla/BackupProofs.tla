---------------------------- MODULE BackupProofs ----------------------------
(***************************************************************************)
(* What holds of Backup for any number of goroutines, runs, restores,      *)
(* timeouts and crashes: whose the run in progress is, that the table is   *)
(* the log of BackupLog, which file a successful run names, and that two   *)
(* commands are not at work in the containers of one project.              *)
(***************************************************************************)
EXTENDS Backup, TLAPS

\* Where a goroutine is inside Service.Run, and where a restore is past its
\* TryLock.
Running == {"exec", "killed", "locate", "hash", "finish", "fail"}
Restoring == {"copy", "restore", "restoring"}
Cloning == {"create", "start", "lock"}

\* The types; a file that was found stays there.
Types ==
    /\ phase \in {"up", "down"}
    /\ lock \in [Targets -> Workers \cup {Nobody}]
    /\ runs \in Seq(BackupRun) /\ Len(runs) <= MaxRuns
    /\ files \in [Slots -> File \cup {NoFile}]
    /\ cmd \in [1..MaxRuns -> {"none", "running", "ok", "error"}]
    /\ pc \in [Workers -> Places]
    /\ rid \in [Workers -> 1..MaxRuns \cup {NoRun}]
    /\ picked \in [Workers -> Slots \cup {NoFile}]
    /\ sum \in [Workers -> BOOLEAN]
    /\ source \in [Workers -> Source]
    /\ clock \in 0..MaxClock
    /\ \A w \in Workers : pc[w] \in {"hash", "finish"} =>
         picked[w] \in Slots /\ files[picked[w]] \in File

\* A restore under way has a number; a clone that is made is its target.
SourceInv ==
    /\ restores \in 0..MaxRestores
    /\ rcmd \in [1..MaxRestores -> Targets \cup {"none"}]
    /\ \A w \in Workers :
         /\ pc[w] \in Cloning \cup Restoring => source[w].id \in 1..MaxRestores
         /\ pc[w] \in Cloning => source[w].target = "clone"

\* A lock is held by the run or the restore that took it, and only while the
\* daemon is up.
LockInv ==
    \A w \in Workers :
        /\ pc[w] \in Running => lock["project"] = w
        /\ pc[w] \in Restoring => lock[source[w].target] = w
        /\ \A t \in Targets : lock[t] = w =>
             \/ pc[w] \in Running /\ t = "project"
             \/ pc[w] \in Restoring /\ t = source[w].target
        /\ pc[w] # "idle" => phase = "up"

InProgress(r) == r \in DOMAIN runs /\ runs[r].status = "in_progress"

\* The goroutine inside Service.Run owns the one record in progress; after a
\* crash that record is left, and no other.
RecordInv ==
    /\ \A w \in Workers : pc[w] \in Running => InProgress(rid[w])
    /\ \A r \in DOMAIN runs : InProgress(r) /\ phase = "up" =>
         /\ lock["project"] \in Workers
         /\ pc[lock["project"]] \in Running
         /\ rid[lock["project"]] = r
    /\ \A r, s \in DOMAIN runs : InProgress(r) /\ InProgress(s) => r = s

\* No file and no run is from the future.
ClockInv ==
    /\ \A i \in Slots : files[i] # NoFile => files[i].mtime <= clock
    /\ \A r \in DOMAIN runs : runs[r].started <= clock

\* If the command of w's run wrote a file it is complete, of the time of the
\* run, and no file is newer.
Whole(w) ==
    files[rid[w]] # NoFile =>
        /\ files[rid[w]].complete
        /\ runs[rid[w]].started <= files[rid[w]].mtime
        /\ \A i \in Slots : files[i] # NoFile => files[i].mtime <= files[rid[w]].mtime

\* While no context expired and the daemon lived: a command runs only as long
\* as its goroutine waits for it, so nothing writes a file between the exit of
\* the command and the end of the run.
FileInv ==
    ~expired /\ ~crashed =>
        /\ \A r \in 1..MaxRuns : cmd[r] = "running" =>
             \E w \in Workers : pc[w] = "exec" /\ rid[w] = r
        /\ \A w \in Workers :
             /\ pc[w] \in {"locate", "hash", "finish"} => cmd[rid[w]] = "ok"
             /\ pc[w] \in Running /\ cmd[rid[w]] = "ok" => Whole(w)
             /\ pc[w] \in {"hash", "finish"} =>
                  /\ files[picked[w]] # NoFile
                  /\ files[rid[w]] # NoFile => files[rid[w]].mtime <= files[picked[w]].mtime
             /\ pc[w] = "finish" /\ picked[w] = rid[w] => sum[w]

\* Under the same condition the goroutine of a restore waits for its command.
RestoreInv ==
    ~expired /\ ~crashed =>
        \A i \in 1..MaxRestores : rcmd[i] # "none" =>
            \E w \in Workers :
                pc[w] = "restoring" /\ source[w].id = i /\ source[w].target = rcmd[i]

-----------------------------------------------------------------------------
USE BackupAssumption

\* A record of a run stays one when its outcome is filled in.
LEMMA RunUpdates ==
    ASSUME NEW r \in BackupRun, NEW s \in {"in_progress", "success", "failed"}
    PROVE  /\ [r EXCEPT !.status = s] \in BackupRun
           /\ \A f \in Slots \cup {NoFile}, c \in BOOLEAN :
                [r EXCEPT !.status = s, !.file = f, !.complete = c] \in BackupRun
  BY DEF BackupRun

\* FinishBackupRun closes the run, as a success or as a failure.
LEMMA FinishClosesRun ==
  ASSUME Types, NEW w \in Workers, RunFinish(w)
  PROVE  \E status \in {"success", "failed"}, f \in Slots \cup {NoFile}, c \in BOOLEAN :
            FinishBackupRun(w, status, f, c)
  <1>0. picked[w] \in Slots \cup {NoFile} /\ sum[w] \in BOOLEAN
    BY DEF Types
  <1>1. CASE FinishBackupRun(w, "success", picked[w], sum[w])
    BY <1>0, <1>1
  <1>2. CASE FinishBackupRun(w, "failed", picked[w], FALSE)
    BY <1>0, <1>2
  <1> QED  BY <1>1, <1>2 DEF RunFinish

\* A goroutine without a restore.
LEMMA NoSourceTyped == NoSource \in Source
  BY DEF NoSource, Source, Targets

\* How a restore begins: with the lock of a target that exists, or without one
\* and on the way to a clone.
LEMMA RestoreRequests ==
    ASSUME SourceInv, NEW w \in Workers, RestoreRequest(w)
    PROVE  /\ pc[w] = "idle" /\ phase = "up" /\ restores' \in 1..MaxRestores
           /\ UNCHANGED <<phase, clock, runs, clone, files, cmd, rcmd, rid, picked, sum,
                          expired, crashed>>
           /\ \E t \in Targets, d \in BOOLEAN :
                /\ source' = [source EXCEPT ![w] = [target |-> t, inDir |-> d, id |-> restores']]
                /\ \/ pc' = [pc EXCEPT ![w] = "create"] /\ lock' = lock /\ t = "clone"
                   \/ /\ pc' = [pc EXCEPT ![w] = "copy"]
                      /\ lock[t] = Nobody /\ lock' = [lock EXCEPT ![t] = w]
  <1>1. CASE RestoreAs(w)
    <2>1. pc[w] = "idle" /\ phase = "up"
      BY <1>1 DEF RestoreAs, RestoreBegin
    <2>2. restores' \in 1..MaxRestores
      BY <1>1 DEF RestoreAs, RestoreBegin, SourceInv
    <2>3. UNCHANGED <<phase, clock, runs, clone, files, cmd, rcmd, rid, picked, sum, expired, crashed>>
      BY <1>1 DEF RestoreAs, RestoreBegin, tables, found
    <2>4. source' = [source EXCEPT ![w] = [target |-> "clone", inDir |-> FALSE, id |-> restores']]
      BY <1>1 DEF RestoreAs, RestoreBegin
    <2>5. pc' = [pc EXCEPT ![w] = "create"] /\ lock' = lock
      BY <1>1 DEF RestoreAs, Goto
    <2>6. "clone" \in Targets
      BY DEF Targets
    <2> QED  BY <2>1, <2>2, <2>3, <2>4, <2>5, <2>6
  <1>2. ASSUME NEW t \in Targets, NEW d \in BOOLEAN, RestoreInPlace(w, t, d)
        PROVE  /\ pc[w] = "idle" /\ phase = "up" /\ restores' \in 1..MaxRestores
               /\ UNCHANGED <<phase, clock, runs, clone, files, cmd, rcmd, rid, picked, sum,
                              expired, crashed>>
               /\ source' = [source EXCEPT ![w] = [target |-> t, inDir |-> d, id |-> restores']]
               /\ pc' = [pc EXCEPT ![w] = "copy"]
               /\ lock[t] = Nobody /\ lock' = [lock EXCEPT ![t] = w]
    <2>1. pc[w] = "idle" /\ phase = "up"
      BY <1>2 DEF RestoreInPlace, RestoreBegin
    <2>2. restores' \in 1..MaxRestores
      BY <1>2 DEF RestoreInPlace, RestoreBegin, SourceInv
    <2>3. UNCHANGED <<phase, clock, runs, clone, files, cmd, rcmd, rid, picked, sum, expired, crashed>>
      BY <1>2 DEF RestoreInPlace, RestoreBegin, tables, found
    <2>4. source' = [source EXCEPT ![w] = [target |-> t, inDir |-> d, id |-> restores']]
      BY <1>2 DEF RestoreInPlace, RestoreBegin
    <2>5. pc' = [pc EXCEPT ![w] = "copy"] /\ lock[t] = Nobody /\ lock' = [lock EXCEPT ![t] = w]
      BY <1>2 DEF RestoreInPlace, TryLock, Goto
    <2> QED  BY <2>1, <2>2, <2>3, <2>4, <2>5
  <1> QED  BY <1>1, <1>2 DEF RestoreRequest

\* No step loses a type.
LEMMA TypesInductive == Types /\ SourceInv /\ [Next]_vars => Types'
  <1> SUFFICES ASSUME Types, SourceInv, [Next]_vars
               PROVE  Types'
    OBVIOUS
  <1> USE DEF Types
  <1>1. ASSUME NEW w \in Workers, RunBegin(w)
        PROVE  Types'
    <2> DEFINE r == [status |-> "in_progress", started |-> clock, file |-> NoFile, complete |-> FALSE]
    <2>1. r \in BackupRun
      BY DEF BackupRun
    <2>2. runs' = Append(runs, r)
      BY <1>1 DEF RunBegin, TryLock
    <2> HIDE DEF r
    <2>3. runs' \in Seq(BackupRun) /\ Len(runs') = Len(runs) + 1
      BY <2>1, <2>2
    <2>4. Len(runs) \in Nat /\ Len(runs) < MaxRuns
      BY <1>1 DEF RunBegin, TryLock
    <2>5. Len(runs') <= MaxRuns /\ Len(runs') \in 1..MaxRuns
      BY <2>3, <2>4
    <2>6. rid' \in [Workers -> 1..MaxRuns \cup {NoRun}] /\ lock' \in [Targets -> Workers \cup {Nobody}]
          /\ cmd' \in [1..MaxRuns -> {"none", "running", "ok", "error"}]
          /\ pc' \in [Workers -> Places]
      BY <1>1, <2>5 DEF RunBegin, TryLock, Goto, Places
    <2>7. UNCHANGED <<phase, clock, files, picked, sum, source>>
      BY <1>1 DEF RunBegin, TryLock
    <2>8. \A v \in Workers : pc'[v] \in {"hash", "finish"} => pc[v] \in {"hash", "finish"}
      BY <1>1 DEF RunBegin, TryLock, Goto
    <2> QED  BY <2>3, <2>5, <2>6, <2>7, <2>8
  <1>2. ASSUME NEW w \in Workers, ExecReturns(w) \/ ExecTimeout(w) \/ ExecKilled(w)
        PROVE  Types'
    BY <1>2 DEF ExecReturns, ExecTimeout, ExecKilled, Goto, Places, tables, locals, found
  <1>3. ASSUME NEW w \in Workers, newestMatch(w)
        PROVE  Types'
    BY <1>3 DEF newestMatch, Newest, Recent, Goto, Places, tables
  <1>4. ASSUME NEW w \in Workers, hashFile(w)
        PROVE  Types'
    <2>1. files[picked[w]] \in File
      BY <1>4 DEF hashFile
    <2>2. files[picked[w]].complete \in BOOLEAN
      BY <2>1 DEF File
    <2> QED  BY <1>4, <2>2 DEF hashFile, Goto, Places, tables
  <1>5. ASSUME NEW w \in Workers, RunFinish(w)
        PROVE  Types'
    <2>1. PICK status \in {"success", "failed"}, f \in Slots \cup {NoFile}, c \in BOOLEAN :
             FinishBackupRun(w, status, f, c)
      BY ONLY Types, <1>5, FinishClosesRun
    <2>2. runs' \in Seq(BackupRun) /\ Len(runs') = Len(runs)
      <3>1. CASE rid[w] \in DOMAIN runs
        <4> DEFINE r == [runs[rid[w]] EXCEPT !.status = status, !.file = f, !.complete = c]
        <4>0. runs[rid[w]] \in BackupRun
          BY <3>1
        <4>1. r \in BackupRun
          BY ONLY <4>0, RunUpdates
        <4>2. runs' = [runs EXCEPT ![rid[w]] = r]
          BY <2>1 DEF FinishBackupRun
        <4> HIDE DEF r
        <4> QED  BY <3>1, <4>1, <4>2
      <3>2. CASE rid[w] \notin DOMAIN runs
        <4>1. runs' = runs
          BY <2>1, <3>2 DEF FinishBackupRun
        <4> QED  BY <4>1
      <3> QED  BY <3>1, <3>2
    <2>3. lock' \in [Targets -> Workers \cup {Nobody}]
      BY <1>5 DEF RunFinish, Unlock
    <2> QED  BY <1>5, <2>2, <2>3 DEF RunFinish, Goto, Places
  <1>6. ASSUME NEW r \in 1..MaxRuns, cmdWrites(r) \/ cmdExits(r)
        PROVE  Types'
    <2>1. r \in Slots
      BY DEF Slots
    <2>2. /\ [mtime |-> clock, complete |-> FALSE] \in File
          /\ [mtime |-> clock, complete |-> TRUE] \in File
      BY DEF File
    <2>3. /\ cmd' \in [1..MaxRuns -> {"none", "running", "ok", "error"}]
          /\ files' = files \/ \E f \in File : files' = [files EXCEPT ![r] = f]
          /\ UNCHANGED <<phase, clock, lock, runs, pc, rid, picked, sum, source>>
      BY <1>6, <2>2 DEF cmdWrites, cmdExits, tables, locals, found
    <2>4. /\ files' \in [Slots -> File \cup {NoFile}]
          /\ \A i \in Slots : files[i] \in File => files'[i] \in File
      <3>0. files \in [Slots -> File \cup {NoFile}]
        OBVIOUS
      <3>1. CASE files' = files
        BY ONLY <3>0, <3>1
      <3>2. ASSUME NEW f \in File, files' = [files EXCEPT ![r] = f]
            PROVE  /\ files' \in [Slots -> File \cup {NoFile}]
                   /\ \A i \in Slots : files[i] \in File => files'[i] \in File
        BY ONLY <2>1, <3>0, <3>2
      <3> QED  BY ONLY <2>3, <3>1, <3>2
    <2> QED  BY <2>3, <2>4
  <1>7. ASSUME NEW w \in Workers, RestoreRequest(w)
        PROVE  Types'
    <2>1. PICK t \in Targets, d \in BOOLEAN :
             /\ source' = [source EXCEPT ![w] = [target |-> t, inDir |-> d, id |-> restores']]
             /\ lock' = lock \/ lock' = [lock EXCEPT ![t] = w]
      BY <1>7, RestoreRequests
    <2>2. restores' \in 1..MaxRestores /\ UNCHANGED <<phase, clock, runs, files, cmd, rid, picked, sum>>
          /\ (pc' = [pc EXCEPT ![w] = "create"] \/ pc' = [pc EXCEPT ![w] = "copy"])
      BY <1>7, RestoreRequests
    <2>3. [target |-> t, inDir |-> d, id |-> restores'] \in Source
      BY <2>2 DEF Source
    <2>4. source' \in [Workers -> Source] /\ lock' \in [Targets -> Workers \cup {Nobody}]
      BY <2>1, <2>3
    <2>5. pc' \in [Workers -> Places]
          /\ \A v \in Workers : pc'[v] \in {"hash", "finish"} => pc[v] \in {"hash", "finish"}
      BY <2>2 DEF Places
    <2> QED  BY <2>2, <2>4, <2>5
  <1>8. ASSUME NEW w \in Workers, CloneCreate(w) \/ CloneStart(w)
        PROVE  Types'
    <2>1. \E place \in {"idle", "start", "lock"} : Proceed(w, place)
      BY <1>8 DEF CloneCreate, CloneStart
    <2>2. UNCHANGED <<phase, clock, lock, runs, files, cmd, rid, picked, sum>>
      BY <1>8 DEF CloneCreate, CloneStart, tables, found
    <2> QED  BY <2>1, <2>2, NoSourceTyped DEF Proceed, Goto, Places
  <1>9. ASSUME NEW w \in Workers, RestoreLock(w)
        PROVE  Types'
    <2>1. UNCHANGED <<phase, clock, runs, files, cmd, rid, picked, sum>>
          /\ lock' \in [Targets -> Workers \cup {Nobody}]
          /\ \E place \in {"idle", "copy"} : Proceed(w, place)
      BY <1>9 DEF RestoreLock, TryLock, Targets, tables, found
    <2> QED  BY <2>1, NoSourceTyped DEF Proceed, Goto, Places
  <1>10. ASSUME NEW w \in Workers, RestoreCopy(w)
        PROVE  Types'
    <2>1. UNCHANGED <<phase, clock, runs, cmd, rid, picked, sum>>
          /\ lock' \in [Targets -> Workers \cup {Nobody}]
          /\ \E place \in {"idle", "restore"} : Proceed(w, place)
      BY <1>10 DEF RestoreCopy, Unlock, tables, found
    <2>2. files' = files \/ \E f \in File : files' = [files EXCEPT ![0] = f]
      BY <1>10 DEF RestoreCopy, CopiedFile, File
    <2>3. /\ files' \in [Slots -> File \cup {NoFile}]
          /\ \A i \in Slots : files[i] \in File => files'[i] \in File
      BY <2>2 DEF Slots
    <2> QED  BY <2>1, <2>3, NoSourceTyped DEF Proceed, Goto, Places
  <1>11. ASSUME NEW w \in Workers, RestoreExec(w) \/ RestoreReturns(w)
        PROVE  Types'
    <2>1. UNCHANGED <<phase, clock, runs, files, cmd, rid, picked, sum>>
          /\ lock' \in [Targets -> Workers \cup {Nobody}]
          /\ \E place \in {"idle", "restoring"} : Proceed(w, place)
      BY <1>11 DEF RestoreExec, RestoreReturns, Unlock, tables, found
    <2> QED  BY <2>1, NoSourceTyped DEF Proceed, Goto, Places
  <1>12. CASE Tick \/ \E i \in 1..MaxRestores : rcmdExits(i)
    BY <1>12 DEF Tick, rcmdExits, tables, locals, found
  <1>13. CASE Crash
    BY <1>13, NoSourceTyped DEF Crash, Places, tables
  <1>14. CASE Boot
    <2> DEFINE New(i) == IF runs[i].status = "in_progress"
                         THEN [runs[i] EXCEPT !.status = "failed"] ELSE runs[i]
    <2>1. runs' = [i \in DOMAIN runs |-> New(i)]
      BY <1>14 DEF Boot, ResetStaleBackups
    <2>2. ASSUME NEW i \in DOMAIN runs
          PROVE  New(i) \in BackupRun
      <3>1. runs[i] \in BackupRun
        OBVIOUS
      <3>2. [runs[i] EXCEPT !.status = "failed"] \in BackupRun
        BY ONLY <3>1, RunUpdates
      <3> QED  BY <3>1, <3>2
    <2> HIDE DEF New
    <2>3. runs' \in Seq(BackupRun) /\ Len(runs') = Len(runs)
      BY <2>1, <2>2
    <2> QED  BY <1>14, <2>3 DEF Boot, ResetStaleBackups, locals, found
  <1>15. CASE UNCHANGED vars
    BY <1>15 DEF vars, tables, locals, found
  <1> QED  BY <1>1, <1>2, <1>3, <1>4, <1>5, <1>6, <1>7, <1>8, <1>9, <1>10, <1>11, <1>12,
              <1>13, <1>14, <1>15 DEF Next, RunStep, RestoreStep

\* A restore keeps its number and its target until it returns.
LEMMA SourceInductive == Types /\ SourceInv /\ [Next]_vars => SourceInv'
  <1> SUFFICES ASSUME Types, SourceInv, [Next]_vars
               PROVE  SourceInv'
    OBVIOUS
  <1>0. pc \in [Workers -> Places] /\ source \in [Workers -> Source]
        /\ restores \in 0..MaxRestores /\ rcmd \in [1..MaxRestores -> Targets \cup {"none"}]
    BY DEF Types, SourceInv
  <1> DEFINE Numbered(w) == /\ pc[w] \in Cloning \cup Restoring => source[w].id \in 1..MaxRestores
                            /\ pc[w] \in Cloning => source[w].target = "clone"
  <1>a. \A w \in Workers : Numbered(w)
    BY DEF SourceInv
  <1>b. ASSUME restores' = restores, rcmd' = rcmd, \A w \in Workers : Numbered(w)'
        PROVE  SourceInv'
    BY <1>0, <1>b DEF SourceInv
  <1>2. ASSUME NEW w \in Workers, RunBegin(w) \/ RunStep(w)
        PROVE  SourceInv'
    <2>1. UNCHANGED <<source, rcmd, restores>>
      BY <1>2 DEF RunBegin, RunStep, ExecReturns, ExecTimeout, ExecKilled, newestMatch, hashFile,
         RunFinish, locals, counters
    <2>2. \E place \in {"idle", "exec", "killed", "locate", "hash", "finish", "fail"} :
             Goto(w, place)
      BY <1>2 DEF RunBegin, RunStep, ExecReturns, ExecTimeout, ExecKilled, newestMatch, hashFile,
         RunFinish
    <2>3. \A v \in Workers : Numbered(v)'
      BY <1>0, <1>a, <2>1, <2>2 DEF Goto, Cloning, Restoring
    <2> QED  BY <1>b, <2>1, <2>3
  <1>3. ASSUME NEW w \in Workers, RestoreRequest(w)
        PROVE  SourceInv'
    <2>1. restores' \in 1..MaxRestores /\ rcmd' = rcmd
      BY <1>3, RestoreRequests
    <2>2. PICK t \in Targets, d \in BOOLEAN, place \in {"create", "copy"} :
             /\ source' = [source EXCEPT ![w] = [target |-> t, inDir |-> d, id |-> restores']]
             /\ pc' = [pc EXCEPT ![w] = place]
             /\ place = "create" => t = "clone"
      BY <1>3, RestoreRequests
    <2>3. \A v \in Workers : v # w => source'[v] = source[v] /\ pc'[v] = pc[v]
      BY <1>0, <2>2
    <2>4. source'[w].id = restores' /\ source'[w].target = t /\ pc'[w] = place
      BY <1>0, <2>2
    <2>5. \A v \in Workers : Numbered(v)'
      BY <1>a, <2>1, <2>2, <2>3, <2>4 DEF Cloning, Restoring
    <2> QED  BY <1>0, <2>1, <2>5 DEF SourceInv
  <1>4. ASSUME NEW w \in Workers, RestoreStep(w)
        PROVE  SourceInv'
    <2>1. PICK place \in {"idle", "start", "lock", "copy", "restore", "restoring"} :
             /\ Proceed(w, place)
             /\ place \in Cloning => pc[w] \in Cloning
             /\ pc[w] \in Cloning \cup Restoring
      BY <1>4 DEF RestoreStep, CloneCreate, CloneStart, RestoreLock, RestoreCopy, RestoreExec,
         RestoreReturns, Cloning, Restoring
    <2>2. \A v \in Workers : v # w => source'[v] = source[v] /\ pc'[v] = pc[v]
      BY <1>0, <2>1 DEF Proceed, Goto
    <2>3. pc'[w] = place /\ (place # "idle" => source'[w] = source[w])
      BY <1>0, <2>1 DEF Proceed, Goto
    <2>4. \A v \in Workers : Numbered(v)'
      BY <1>a, <2>1, <2>2, <2>3 DEF Cloning, Restoring
    <2>5. restores' = restores
      BY <1>4 DEF RestoreStep, CloneCreate, CloneStart, RestoreLock, RestoreCopy, RestoreExec,
         RestoreReturns, counters
    <2>6. rcmd' \in [1..MaxRestores -> Targets \cup {"none"}]
      <3>1. source[w].target \in Targets
        BY <1>0 DEF Source
      <3> QED  BY <1>0, <1>4, <3>1 DEF RestoreStep, CloneCreate, CloneStart, RestoreLock,
                  RestoreCopy, RestoreExec, RestoreReturns
    <2> QED  BY <1>0, <2>4, <2>5, <2>6 DEF SourceInv
  <1>5. CASE Crash
    BY <1>b, <1>5 DEF Crash, Cloning, Restoring
  <1>6. CASE Tick \/ Boot \/ UNCHANGED vars
    BY <1>a, <1>b, <1>6 DEF Tick, Boot, vars, locals, counters
  <1>7. ASSUME NEW r \in 1..MaxRuns, cmdWrites(r) \/ cmdExits(r)
        PROVE  SourceInv'
    BY <1>a, <1>b, <1>7 DEF cmdWrites, cmdExits, locals, counters
  <1>8. ASSUME NEW i \in 1..MaxRestores, rcmdExits(i)
        PROVE  SourceInv'
    <2>1. UNCHANGED <<pc, source, restores>> /\ rcmd' \in [1..MaxRestores -> Targets \cup {"none"}]
      BY <1>0, <1>8 DEF rcmdExits, locals, counters
    <2> QED  BY <1>0, <1>a, <2>1 DEF SourceInv
  <1> QED  BY <1>2, <1>3, <1>4, <1>5, <1>6, <1>7, <1>8 DEF Next

\* A lock is taken by TryLock only when it is free, and given back by its
\* holder or lost in a crash.
LEMMA LockInductive == Types /\ SourceInv /\ LockInv /\ [Next]_vars => LockInv'
  <1> SUFFICES ASSUME Types, SourceInv, LockInv, [Next]_vars
               PROVE  LockInv'
    OBVIOUS
  <1> USE DEF LockInv, Running, Restoring
  <1>0. /\ lock \in [Targets -> Workers \cup {Nobody}] /\ pc \in [Workers -> Places]
        /\ "project" \in Targets
        /\ \A w \in Workers : source[w].target \in Targets
        /\ source \in [Workers -> Source]
    BY DEF Types, Targets, Source
  <1>1. ASSUME NEW w \in Workers, RunBegin(w)
        PROVE  LockInv'
    BY <1>0, <1>1 DEF RunBegin, TryLock, Goto
  <1>2. ASSUME NEW w \in Workers, ExecReturns(w) \/ ExecTimeout(w) \/ ExecKilled(w)
        PROVE  LockInv'
    BY <1>0, <1>2 DEF ExecReturns, ExecTimeout, ExecKilled, Goto, locals
  <1>3. ASSUME NEW w \in Workers, newestMatch(w) \/ hashFile(w)
        PROVE  LockInv'
    BY <1>0, <1>3 DEF newestMatch, hashFile, Goto
  <1>4. ASSUME NEW w \in Workers, RunFinish(w)
        PROVE  LockInv'
    BY <1>0, <1>4 DEF RunFinish, Unlock, Goto
  <1>5. ASSUME NEW r \in 1..MaxRuns, cmdWrites(r) \/ cmdExits(r)
        PROVE  LockInv'
    BY <1>5 DEF cmdWrites, cmdExits, locals
  <1>6. ASSUME NEW w \in Workers, RestoreRequest(w)
        PROVE  LockInv'
    BY <1>0, <1>6, RestoreRequests
  <1>7. ASSUME NEW w \in Workers, CloneCreate(w) \/ CloneStart(w)
        PROVE  LockInv'
    <2>1. \E place \in {"idle", "start", "lock"} : Proceed(w, place)
      BY <1>7 DEF CloneCreate, CloneStart
    <2>2. UNCHANGED <<phase, lock>> /\ pc[w] \in {"create", "start"}
      BY <1>7 DEF CloneCreate, CloneStart
    <2> QED  BY <1>0, <2>1, <2>2 DEF Proceed, Goto
  <1>8. ASSUME NEW w \in Workers, RestoreLock(w)
        PROVE  LockInv'
    <2>0. pc[w] = "lock" /\ source[w].target = "clone" /\ "clone" \in Targets /\ phase' = phase
      BY <1>8 DEF RestoreLock, SourceInv, Cloning, Targets
    <2>1. CASE TryLock(w, "clone") /\ Proceed(w, "copy")
      BY <1>0, <2>0, <2>1 DEF TryLock, Proceed, Goto
    <2>2. CASE lock' = lock /\ Proceed(w, "idle")
      BY <1>0, <2>0, <2>2 DEF Proceed, Goto
    <2> QED  BY <1>8, <2>1, <2>2 DEF RestoreLock
  <1>9. ASSUME NEW w \in Workers, RestoreCopy(w)
        PROVE  LockInv'
    BY <1>0, <1>9 DEF RestoreCopy, CopiedFile, Unlock, Proceed, Goto
  <1>10. ASSUME NEW w \in Workers, RestoreExec(w) \/ RestoreReturns(w)
        PROVE  LockInv'
    BY <1>0, <1>10 DEF RestoreExec, RestoreReturns, Unlock, Proceed, Goto
  <1>11. CASE Tick \/ \E i \in 1..MaxRestores : rcmdExits(i)
    BY <1>11 DEF Tick, rcmdExits, locals
  <1>12. CASE Crash
    BY <1>12 DEF Crash
  <1>13. CASE Boot
    BY <1>0, <1>13 DEF Boot, ResetStaleBackups, locals
  <1>14. CASE UNCHANGED vars
    BY <1>14 DEF vars, locals
  <1> QED  BY <1>1, <1>2, <1>3, <1>4, <1>5, <1>6, <1>7, <1>8, <1>9, <1>10, <1>11, <1>12,
              <1>13, <1>14 DEF Next, RunStep, RestoreStep

\* Two goroutines are never both inside Service.Run.
LEMMA OneRunner ==
    ASSUME LockInv, NEW v \in Workers, NEW w \in Workers, pc[v] \in Running, pc[w] \in Running
    PROVE  v = w
  BY DEF LockInv

\* What leaves the table, the goroutines inside Service.Run and the lock they
\* hold alone, leaves the record in progress where it is.
LEMMA RecordFrame ==
    ASSUME RecordInv, runs' = runs, rid' = rid, phase' = phase,
           \A w \in Workers : pc'[w] \in Running <=> pc[w] \in Running,
           \A w \in Workers : pc[w] \in Running /\ lock["project"] = w => lock'["project"] = w
    PROVE  RecordInv'
  <1>1. \A r : InProgress(r)' <=> InProgress(r)
    BY DEF InProgress
  <1> QED  BY <1>1 DEF RecordInv

\* A record is opened with the lock, closed before it is given back, and the
\* one that a crash leaves is closed at the next start.
LEMMA RecordInductive ==
    Types /\ SourceInv /\ LockInv /\ RecordInv /\ [Next]_vars => RecordInv'
  <1> SUFFICES ASSUME Types, SourceInv, LockInv, RecordInv, [Next]_vars
               PROVE  RecordInv'
    OBVIOUS
  <1>0. /\ lock \in [Targets -> Workers \cup {Nobody}] /\ pc \in [Workers -> Places]
        /\ "project" \in Targets /\ runs \in Seq(BackupRun) /\ DOMAIN runs = 1..Len(runs)
        /\ Len(runs) \in Nat
        /\ rid \in [Workers -> 1..MaxRuns \cup {NoRun}]
        /\ source \in [Workers -> Source]
    BY DEF Types, Targets
  <1>1. ASSUME NEW w \in Workers, RunBegin(w)
        PROVE  RecordInv'
    <2> DEFINE r == [status |-> "in_progress", started |-> clock, file |-> NoFile, complete |-> FALSE]
               n == Len(runs) + 1
    <2>1. /\ DOMAIN runs' = 1..n /\ runs'[n].status = "in_progress" /\ Len(runs') = n
          /\ \A i \in DOMAIN runs : runs'[i] = runs[i]
      BY <1>0, <1>1 DEF RunBegin, TryLock
    <2>2. \A i \in DOMAIN runs : ~InProgress(i)
      BY <1>1 DEF RunBegin, TryLock, RecordInv
    <2>3. \A i : InProgress(i)' <=> i = n
      <3>1. ASSUME NEW i, i = n
            PROVE  InProgress(i)'
        BY <1>0, <2>1, <3>1 DEF InProgress
      <3>2. ASSUME NEW i \in 1..n, i # n
            PROVE  ~InProgress(i)'
        <4>1. i \in DOMAIN runs /\ runs'[i] = runs[i]
          BY <1>0, <2>1, <3>2
        <4> QED  BY <2>2, <4>1 DEF InProgress
      <3>3. ASSUME NEW i, InProgress(i)'
            PROVE  i \in 1..n
        BY <2>1, <3>3 DEF InProgress
      <3> QED  BY <3>1, <3>2, <3>3
    <2>4. rid' = [rid EXCEPT ![w] = n] /\ lock' = [lock EXCEPT !["project"] = w]
          /\ pc' = [pc EXCEPT ![w] = "exec"]
      BY <1>1, <2>1 DEF RunBegin, TryLock, Goto
    <2>5. \A v \in Workers : pc[v] \notin Running
      BY <1>0, <1>1 DEF RunBegin, TryLock, LockInv
    <2>6. \A v \in Workers : pc'[v] \in Running => v = w
      BY <1>0, <2>4, <2>5 DEF Running
    <2> HIDE DEF n
    <2> QED  BY <1>0, <2>3, <2>4, <2>6 DEF RecordInv, Running
  <1>2. ASSUME NEW w \in Workers, ExecReturns(w) \/ ExecTimeout(w) \/ ExecKilled(w)
        PROVE  RecordInv'
    BY <1>0, <1>2, RecordFrame DEF ExecReturns, ExecTimeout, ExecKilled, Goto, Running, tables, locals, found
  <1>3. ASSUME NEW w \in Workers, newestMatch(w) \/ hashFile(w)
        PROVE  RecordInv'
    BY <1>0, <1>3, RecordFrame DEF newestMatch, hashFile, Goto, Running, tables
  <1>4. ASSUME NEW w \in Workers, RunFinish(w)
        PROVE  RecordInv'
    <2>1. pc[w] \in Running /\ pc' = [pc EXCEPT ![w] = "idle"] /\ phase' = phase /\ phase = "up"
      BY <1>4 DEF RunFinish, Goto, Running, LockInv
    <2>2. InProgress(rid[w]) /\ rid[w] \in DOMAIN runs
      BY <2>1 DEF RecordInv, InProgress
    <2>3. \A i \in DOMAIN runs : InProgress(i) => i = rid[w]
      BY <2>1, <2>2 DEF RecordInv
    <2>4. DOMAIN runs' = DOMAIN runs /\ \A i \in DOMAIN runs : i # rid[w] => runs'[i] = runs[i]
      BY <1>0, <1>4 DEF RunFinish, FinishBackupRun
    <2>5. runs'[rid[w]].status # "in_progress"
      <3>1. runs[rid[w]] \in BackupRun
        BY <1>0, <2>2
      <3>2. PICK status \in {"success", "failed"}, f \in Slots \cup {NoFile}, c \in BOOLEAN :
              FinishBackupRun(w, status, f, c)
        BY <1>4, FinishClosesRun
      <3>3. runs'[rid[w]].status = status
        BY <1>0, <2>2, <3>1, <3>2 DEF BackupRun, FinishBackupRun
      <3> QED  BY <3>2, <3>3
    <2>6. \A i : ~InProgress(i)'
      BY <2>3, <2>4, <2>5 DEF InProgress
    <2>7. \A v \in Workers : pc'[v] \notin Running
      BY <1>0, <2>1, OneRunner DEF Running
    <2> QED  BY <2>6, <2>7 DEF RecordInv
  <1>5. ASSUME NEW r \in 1..MaxRuns, cmdWrites(r) \/ cmdExits(r)
        PROVE  RecordInv'
    BY <1>5, RecordFrame DEF cmdWrites, cmdExits, tables, locals, found
  <1>6. ASSUME NEW w \in Workers, RestoreRequest(w)
        PROVE  RecordInv'
    <2>1. /\ UNCHANGED <<runs, rid, phase>>
          /\ \A v \in Workers : pc'[v] \in Running <=> pc[v] \in Running
          /\ \A v \in Workers : lock["project"] = v => lock'["project"] = v
      <3>1. /\ UNCHANGED <<runs, rid, phase>> /\ pc[w] = "idle"
            /\ \/ pc' = [pc EXCEPT ![w] = "create"] /\ lock' = lock
               \/ /\ pc' = [pc EXCEPT ![w] = "copy"]
                  /\ \E t \in Targets : lock[t] = Nobody /\ lock' = [lock EXCEPT ![t] = w]
        BY <1>6, RestoreRequests
      <3>2. lock \in [Targets -> Workers \cup {Nobody}]
        BY DEF Types
      <3> QED  BY <1>0, <3>1, <3>2 DEF Running
    <2> QED  BY <2>1, RecordFrame
  <1>7. ASSUME NEW w \in Workers, CloneCreate(w) \/ CloneStart(w)
        PROVE  RecordInv'
    <2>1. \E place \in {"idle", "start", "lock"} : Proceed(w, place)
      BY <1>7 DEF CloneCreate, CloneStart
    <2>2. UNCHANGED <<phase, lock, runs, rid>> /\ pc[w] \in {"create", "start"}
      BY <1>7 DEF CloneCreate, CloneStart, tables, found
    <2> QED  BY <1>0, <2>1, <2>2, RecordFrame DEF Proceed, Goto, Running
  <1>8. ASSUME NEW w \in Workers, RestoreLock(w)
        PROVE  RecordInv'
    <2>1. UNCHANGED <<phase, runs, rid>> /\ pc[w] = "lock" /\ pc' \in {[pc EXCEPT ![w] = "copy"], [pc EXCEPT ![w] = "idle"]}
      BY <1>8 DEF RestoreLock, TryLock, Proceed, Goto, tables, found
    <2>2. \A v \in Workers : lock["project"] = v => lock'["project"] = v
      BY <1>0, <1>8 DEF RestoreLock, TryLock
    <2> QED  BY <1>0, <2>1, <2>2, RecordFrame DEF Running
  <1>9. ASSUME NEW w \in Workers, RestoreCopy(w)
        PROVE  RecordInv'
    BY <1>0, <1>9, RecordFrame DEF RestoreCopy, CopiedFile, Unlock, Proceed, Goto, Running, tables, found
  <1>10. ASSUME NEW w \in Workers, RestoreExec(w) \/ RestoreReturns(w)
        PROVE  RecordInv'
    BY <1>0, <1>10, RecordFrame DEF RestoreExec, RestoreReturns, Unlock, Proceed, Goto, Running, tables, found
  <1>11. CASE Tick \/ \E i \in 1..MaxRestores : rcmdExits(i)
    BY <1>11, RecordFrame DEF Tick, rcmdExits, tables, locals, found
  <1>12. CASE Crash
    BY <1>12 DEF Crash, RecordInv, InProgress, Running, tables
  <1>13. CASE Boot
    <2>1. /\ DOMAIN runs' = DOMAIN runs /\ phase = "down" /\ pc' = pc
          /\ \A i \in DOMAIN runs : runs'[i] = IF runs[i].status = "in_progress"
                                               THEN [runs[i] EXCEPT !.status = "failed"]
                                               ELSE runs[i]
      BY <1>13 DEF Boot, ResetStaleBackups
    <2>2. ASSUME NEW i \in DOMAIN runs
          PROVE  runs'[i].status # "in_progress"
      <3>1. runs[i] \in BackupRun
        BY <1>0
      <3> QED  BY <2>1, <3>1 DEF BackupRun
    <2>3. \A i : ~InProgress(i)'
      BY <2>1, <2>2 DEF InProgress
    <2>4. \A w \in Workers : pc[w] = "idle"
      BY <2>1 DEF LockInv
    <2> QED  BY <2>1, <2>3, <2>4 DEF RecordInv, Running
  <1>14. CASE UNCHANGED vars
    BY <1>14, RecordFrame DEF vars, tables, locals, found
  <1> QED  BY <1>1, <1>2, <1>3, <1>4, <1>5, <1>6, <1>7, <1>8, <1>9, <1>10, <1>11, <1>12,
              <1>13, <1>14 DEF Next, RunStep, RestoreStep

\* Files and runs are stamped with the time of the clock, which only advances.
LEMMA ClockInductive == Types /\ ClockInv /\ [Next]_vars => ClockInv'
  <1> SUFFICES ASSUME Types, ClockInv, [Next]_vars
               PROVE  ClockInv'
    OBVIOUS
  <1>0. /\ clock \in Nat /\ runs \in Seq(BackupRun) /\ Len(runs) \in Nat
        /\ DOMAIN runs = 1..Len(runs) /\ files \in [Slots -> File \cup {NoFile}]
        /\ \A i \in DOMAIN runs : runs[i] \in BackupRun
    BY DEF Types
  <1>1. ASSUME clock' = clock, files' = files, DOMAIN runs' = DOMAIN runs,
               \A i \in DOMAIN runs : runs'[i].started = runs[i].started
        PROVE  ClockInv'
    BY <1>1 DEF ClockInv
  <1>2. ASSUME NEW w \in Workers, RunBegin(w)
        PROVE  ClockInv'
    <2> DEFINE r == [status |-> "in_progress", started |-> clock, file |-> NoFile, complete |-> FALSE]
    <2>1. runs' = Append(runs, r) /\ r.started = clock
      BY <1>2 DEF RunBegin, TryLock
    <2> HIDE DEF r
    <2>2. \A i \in DOMAIN runs' : runs'[i].started <= clock
      BY <1>0, <2>1 DEF ClockInv
    <2> QED  BY <1>2, <2>2 DEF RunBegin, TryLock, counters, ClockInv
  <1>3. ASSUME NEW w \in Workers, RunStep(w), ~RunFinish(w)
        PROVE  ClockInv'
    BY <1>1, <1>3 DEF RunStep, ExecReturns, ExecTimeout, ExecKilled, newestMatch, hashFile, tables, counters
  <1>4. ASSUME NEW w \in Workers, RunFinish(w)
        PROVE  ClockInv'
    <2>1. PICK status, f, c :
            runs' = [runs EXCEPT ![rid[w]] = [runs[rid[w]] EXCEPT !.status = status,
                                                !.file = f, !.complete = c]]
      BY <1>4 DEF RunFinish, FinishBackupRun
    <2>2. ASSUME NEW i \in DOMAIN runs
          PROVE  runs'[i].started = runs[i].started
      <3>1. runs[i] \in BackupRun
        BY <1>0
      <3> QED  BY <1>0, <2>1, <3>1 DEF BackupRun
    <2>3. DOMAIN runs' = DOMAIN runs
      BY <2>1
    <2> QED  BY <1>1, <1>4, <2>2, <2>3 DEF RunFinish, counters
  <1>5. ASSUME NEW f \in [mtime : {clock}, complete : BOOLEAN], NEW i \in Slots,
               clock' = clock, runs' = runs,
               files' = [files EXCEPT ![i] = f]
        PROVE  ClockInv'
    BY <1>0, <1>5 DEF ClockInv
  <1>6. ASSUME NEW r \in 1..MaxRuns, cmdWrites(r) \/ cmdExits(r)
        PROVE  ClockInv'
    <2>1. r \in Slots
      BY DEF Slots
    <2>2. \/ files' = files
          \/ files' = [files EXCEPT ![r] = [mtime |-> clock, complete |-> FALSE]]
          \/ files' = [files EXCEPT ![r] = [mtime |-> clock, complete |-> TRUE]]
      BY <1>6 DEF cmdWrites, cmdExits
    <2>3. UNCHANGED <<clock, runs, expired, crashed>>
      BY <1>6 DEF cmdWrites, cmdExits, tables, counters
    <2> QED  BY <1>1, <1>5, <2>1, <2>2, <2>3
  <1>7. ASSUME NEW w \in Workers, RestoreCopy(w)
        PROVE  ClockInv'
    <2>1. 0 \in Slots
      BY DEF Slots
    <2>2. files' = files \/ \E f \in [mtime : {clock}, complete : BOOLEAN] :
                               files' = [files EXCEPT ![0] = f]
      BY <1>7 DEF RestoreCopy, CopiedFile
    <2>3. UNCHANGED <<clock, runs, expired, crashed>>
      BY <1>7 DEF RestoreCopy, CopiedFile, Unlock, tables, counters
    <2> QED  BY <1>1, <1>5, <2>1, <2>2, <2>3
  <1>8. ASSUME NEW w \in Workers, RestoreStep(w), ~RestoreCopy(w)
        PROVE  ClockInv'
    BY <1>1, <1>8 DEF RestoreStep, CloneCreate, CloneStart, RestoreLock, TryLock, RestoreExec,
       RestoreReturns,
       tables, counters
  <1>9. ASSUME NEW w \in Workers, RestoreRequest(w)
        PROVE  ClockInv'
    BY <1>1, <1>9 DEF RestoreRequest, RestoreAs, RestoreInPlace, TryLock, RestoreBegin, tables
  <1>r. ASSUME NEW i \in 1..MaxRestores, rcmdExits(i)
        PROVE  ClockInv'
    BY <1>1, <1>r DEF rcmdExits, tables
  <1>10. CASE Tick
    <2>1. clock' = clock + 1 /\ UNCHANGED <<files, runs, expired, crashed>>
      BY <1>10 DEF Tick, tables, counters
    <2>2. \A i \in Slots : files[i] # NoFile => files[i].mtime \in Nat
      BY <1>0 DEF File
    <2>3. \A r \in DOMAIN runs : runs[r].started \in Nat
      BY <1>0 DEF BackupRun
    <2> QED  BY <1>0, <2>1, <2>2, <2>3 DEF ClockInv
  <1>11. CASE Crash
    BY <1>1, <1>11 DEF Crash, tables
  <1>12. CASE Boot
    <2>1. ASSUME NEW i \in DOMAIN runs
          PROVE  runs'[i].started = runs[i].started
      <3>1. runs[i] \in BackupRun
        BY <1>0
      <3> QED  BY <1>12, <3>1 DEF Boot, ResetStaleBackups, BackupRun
    <2> QED  BY <1>1, <1>12, <2>1 DEF Boot, ResetStaleBackups, counters
  <1>13. CASE UNCHANGED vars
    BY <1>1, <1>13 DEF vars, tables, counters
  <1> QED  BY <1>2, <1>3, <1>4, <1>6, <1>7, <1>8, <1>9, <1>10, <1>11, <1>12, <1>13,
              <1>r DEF Next

\* What leaves the files, the commands and the goroutines inside Service.Run
\* alone, preserves what holds of them.
LEMMA FileFrame ==
    ASSUME FileInv, UNCHANGED <<files, cmd, rid, picked, sum, runs>>,
           ~expired' => ~expired, ~crashed' => ~crashed,
           \A w \in Workers : pc[w] \in Running \/ pc'[w] \in Running => pc'[w] = pc[w]
    PROVE  FileInv'
  BY DEF FileInv, Whole, Running

\* When nobody is inside Service.Run and no command runs, there is nothing to
\* show.
LEMMA FileVacuous ==
    ASSUME \A w \in Workers : pc'[w] \notin Running,
           ~expired' /\ ~crashed' => \A r \in 1..MaxRuns : cmd'[r] # "running"
    PROVE  FileInv'
  BY DEF FileInv, Running

\* From the exit of its command to the end of the run nothing writes a file.
LEMMA FileInductive ==
    Types /\ SourceInv /\ LockInv /\ RecordInv /\ ClockInv /\ FileInv /\ [Next]_vars => FileInv'
  <1> SUFFICES ASSUME Types, SourceInv, LockInv, RecordInv, ClockInv, FileInv, [Next]_vars
               PROVE  FileInv'
    OBVIOUS
  <1>0. /\ pc \in [Workers -> Places] /\ rid \in [Workers -> 1..MaxRuns \cup {NoRun}]
        /\ picked \in [Workers -> Slots \cup {NoFile}] /\ sum \in [Workers -> BOOLEAN]
        /\ cmd \in [1..MaxRuns -> {"none", "running", "ok", "error"}]
        /\ files \in [Slots -> File \cup {NoFile}] /\ runs \in Seq(BackupRun)
        /\ clock \in Nat
    BY DEF Types, ClockInv
  <1>r. ASSUME NEW w \in Workers, pc[w] \in Running
        PROVE  rid[w] \in 1..MaxRuns /\ rid[w] \in Slots /\ rid[w] \in DOMAIN runs
    <2>1. rid[w] \in DOMAIN runs
      BY <1>r DEF RecordInv, InProgress
    <2>2. DOMAIN runs = 1..Len(runs) /\ Len(runs) \in Nat /\ Len(runs) <= MaxRuns
      BY DEF Types
    <2> QED  BY <2>1, <2>2 DEF Slots
  <1>1. ASSUME NEW w \in Workers, RunBegin(w)
        PROVE  FileInv'
    <2> DEFINE n == Len(runs')
    <2>1. /\ rid' = [rid EXCEPT ![w] = n] /\ pc' = [pc EXCEPT ![w] = "exec"]
          /\ cmd' = [cmd EXCEPT ![n] = "running"]
          /\ UNCHANGED <<expired, crashed>>
      BY <1>1 DEF RunBegin, TryLock, Goto, counters
    <2>2. \A v \in Workers : pc[v] \notin Running
      BY <1>1 DEF RunBegin, TryLock, LockInv
    <2>3. n \in 1..MaxRuns
      <3>1. Len(runs) \in Nat /\ Len(runs) < MaxRuns /\ n = Len(runs) + 1
        BY <1>1 DEF RunBegin, TryLock, Types
      <3> QED  BY <3>1
    <2> HIDE DEF n
    <2>4. \A v \in Workers : pc'[v] \in Running => v = w
      BY <1>0, <2>1, <2>2
    <2>5. pc'[w] = "exec" /\ rid'[w] = n /\ cmd'[n] = "running"
      BY <1>0, <2>1, <2>3
    <2>6. ASSUME ~expired /\ ~crashed, NEW r \in 1..MaxRuns, cmd'[r] = "running"
          PROVE  r = n
      BY <1>0, <2>1, <2>2, <2>6 DEF FileInv, Running
    <2> QED  BY <2>1, <2>4, <2>5, <2>6 DEF FileInv, Running
  <1>2. ASSUME NEW w \in Workers, ExecReturns(w)
        PROVE  FileInv'
    <2>1. /\ UNCHANGED <<files, cmd, rid, picked, sum, runs, expired, crashed>>
          /\ pc[w] = "exec" /\ cmd[rid[w]] \in {"ok", "error"}
          /\ pc' = [pc EXCEPT ![w] = IF cmd[rid[w]] = "ok" THEN "locate" ELSE "fail"]
      BY <1>2 DEF ExecReturns, Goto, tables, locals, found, counters
    <2>2. \A v \in Workers : v # w => pc'[v] = pc[v]
      BY <1>0, <2>1
    <2>3. pc'[w] = IF cmd[rid[w]] = "ok" THEN "locate" ELSE "fail"
      BY <1>0, <2>1
    <2> QED  BY <2>1, <2>2, <2>3 DEF FileInv, Whole, Running
  <1>k. ASSUME NEW w \in Workers, ExecKilled(w)
        PROVE  FileInv'
    <2>1. /\ UNCHANGED <<files, cmd, rid, picked, sum, runs, expired, crashed>>
          /\ pc[w] = "killed" /\ pc' = [pc EXCEPT ![w] = "fail"]
      BY <1>k DEF ExecKilled, Goto, tables, locals, found, counters
    <2>2. \A v \in Workers : v # w => pc'[v] = pc[v]
      BY <1>0, <2>1
    <2>3. pc'[w] = "fail"
      BY <1>0, <2>1
    <2> QED  BY <2>1, <2>2, <2>3 DEF FileInv, Whole, Running
  <1>3. ASSUME NEW w \in Workers, ExecTimeout(w)
        PROVE  FileInv'
    <2>1. expired'
      BY <1>3 DEF ExecTimeout
    <2> QED  BY <2>1 DEF FileInv
  <1>4. ASSUME NEW w \in Workers, newestMatch(w)
        PROVE  FileInv'
    <2>0. /\ UNCHANGED <<files, cmd, rid, sum, runs, expired, crashed>> /\ pc[w] = "locate"
          /\ \A v \in Workers : v # w => pc'[v] = pc[v] /\ picked'[v] = picked[v]
      BY <1>0, <1>4 DEF newestMatch, Goto, tables, counters
    <2>r. rid[w] \in Slots /\ rid[w] \in DOMAIN runs
      BY <1>r, <2>0 DEF Running
    <2>1. CASE pc'[w] = "fail"
      BY <2>0, <2>1 DEF FileInv, Whole, Running
    <2>2. ASSUME NEW i \in Newest(rid[w]), picked' = [picked EXCEPT ![w] = i], pc'[w] = "hash"
          PROVE  FileInv'
      <3>1. picked'[w] = i /\ i \in Slots /\ files[i] # NoFile
        BY <1>0, <2>2 DEF Newest, Recent
      <3>2. ASSUME ~expired /\ ~crashed, files[rid[w]] # NoFile
            PROVE  files[rid[w]].mtime <= files[i].mtime
        <4>1. runs[rid[w]].started <= files[rid[w]].mtime
          BY <2>0, <3>2 DEF FileInv, Whole, Running
        <4>2. files[rid[w]].mtime \in Nat
          BY <1>0, <2>r, <3>2 DEF File
        <4>3. runs[rid[w]].started \in Nat
          <5>1. runs[rid[w]] \in BackupRun
            BY <1>0, <2>r
          <5> QED  BY <5>1 DEF BackupRun
        <4>4. rid[w] \in Recent(rid[w])
          BY <2>r, <3>2, <4>1, <4>2, <4>3 DEF Recent
        <4> QED  BY <2>2, <4>4 DEF Newest
      <3> QED  BY <2>0, <2>2, <3>1, <3>2 DEF FileInv, Whole, Running
    <2>3. \/ pc'[w] = "fail"
          \/ \E i \in Newest(rid[w]) : picked' = [picked EXCEPT ![w] = i] /\ pc'[w] = "hash"
      BY <1>0, <1>4 DEF newestMatch, Goto
    <2> QED  BY <2>1, <2>2, <2>3
  <1>5. ASSUME NEW w \in Workers, hashFile(w)
        PROVE  FileInv'
    <2>1. /\ UNCHANGED <<files, cmd, rid, picked, runs, expired, crashed>> /\ pc[w] = "hash"
          /\ \A v \in Workers : v # w => pc'[v] = pc[v] /\ sum'[v] = sum[v]
          /\ \/ pc'[w] = "finish" /\ sum'[w] = files[picked[w]].complete
             \/ pc'[w] = "fail"
      BY <1>0, <1>5 DEF hashFile, Goto, tables, counters
    <2> QED  BY <2>1 DEF FileInv, Whole, Running
  <1>6. ASSUME NEW w \in Workers, RunFinish(w)
        PROVE  FileInv'
    <2>1. pc[w] \in {"finish", "fail"} /\ UNCHANGED <<cmd, expired, crashed>>
          /\ pc' = [pc EXCEPT ![w] = "idle"]
      BY <1>6 DEF RunFinish, Goto, counters
    <2>2. \A v \in Workers : pc[v] \in Running => v = w
      BY <2>1, OneRunner DEF Running
    <2>3. \A v \in Workers : pc'[v] \notin Running
      BY <1>0, <2>1, <2>2 DEF Running
    <2> QED  BY <2>1, <2>2, <2>3, FileVacuous DEF FileInv, Running
  <1>7. ASSUME NEW r \in 1..MaxRuns, cmdWrites(r) \/ cmdExits(r)
        PROVE  FileInv'
    <2> SUFFICES ASSUME ~expired, ~crashed
                 PROVE  FileInv'
      BY <1>7 DEF cmdWrites, cmdExits, counters, FileInv
    <2>1. cmd[r] = "running" /\ UNCHANGED <<pc, rid, picked, sum, runs, expired, crashed>>
      BY <1>7 DEF cmdWrites, cmdExits, tables, locals, found, counters
    <2>2. PICK w \in Workers : pc[w] = "exec" /\ rid[w] = r
      BY <2>1 DEF FileInv
    <2>3. \A v \in Workers : pc[v] \in Running => v = w
      BY <2>2, OneRunner DEF Running
    <2>4. r \in Slots
      BY DEF Slots
    <2>5. \A q \in 1..MaxRuns : cmd'[q] = "running" => cmd[q] = "running"
      BY <1>0, <1>7 DEF cmdWrites, cmdExits
    <2>6. cmd'[r] = "ok" => Whole(w)'
      <3> SUFFICES ASSUME cmd'[r] = "ok", files'[r] # NoFile
                   PROVE  Whole(w)'
        BY <2>1, <2>2 DEF Whole
      <3>1. cmdExits(r)
        BY <1>7, <2>1, <2>4 DEF cmdWrites
      <3>2. files' = [files EXCEPT ![r] = [mtime |-> clock, complete |-> TRUE]]
        BY <1>0, <2>4, <3>1 DEF cmdExits
      <3>3. files'[r].mtime = clock /\ files'[r].complete
        BY <1>0, <2>4, <3>2
      <3>4. \A i \in Slots : files'[i] # NoFile => files'[i].mtime <= clock
        BY <1>0, <2>4, <3>2 DEF ClockInv
      <3>5. runs'[r].started <= clock
        BY <1>r, <2>1, <2>2 DEF ClockInv, Running
      <3> QED  BY <2>1, <2>2, <3>3, <3>4, <3>5 DEF Whole
    <2> QED  BY <2>1, <2>2, <2>3, <2>5, <2>6 DEF FileInv, Running
  <1>8. ASSUME NEW w \in Workers, RestoreRequest(w)
        PROVE  FileInv'
    <2>1. /\ UNCHANGED <<files, cmd, rid, picked, sum, runs, expired, crashed>>
          /\ \A v \in Workers : pc[v] \in Running \/ pc'[v] \in Running => pc'[v] = pc[v]
      <3>1. /\ UNCHANGED <<files, cmd, rid, picked, sum, runs, expired, crashed>> /\ pc[w] = "idle"
            /\ pc' = [pc EXCEPT ![w] = "create"] \/ pc' = [pc EXCEPT ![w] = "copy"]
        BY <1>8, RestoreRequests
      <3> QED  BY <1>0, <3>1 DEF Running
    <2> QED  BY <2>1, FileFrame
  <1>9. ASSUME NEW w \in Workers, CloneCreate(w) \/ CloneStart(w)
        PROVE  FileInv'
    <2>1. \E place \in {"idle", "start", "lock"} : Proceed(w, place)
      BY <1>9 DEF CloneCreate, CloneStart
    <2>2. /\ UNCHANGED <<files, cmd, rid, picked, sum, runs, expired, crashed>>
          /\ pc[w] \in {"create", "start"}
      BY <1>9 DEF CloneCreate, CloneStart, tables, found, counters
    <2> QED  BY <1>0, <2>1, <2>2, FileFrame DEF Proceed, Goto, Running
  <1>10. ASSUME NEW w \in Workers, RestoreLock(w)
        PROVE  FileInv'
    <2>1. /\ UNCHANGED <<files, cmd, rid, picked, sum, runs, expired, crashed>>
          /\ pc[w] = "lock" /\ \E place \in {"copy", "idle"} : pc' = [pc EXCEPT ![w] = place]
      BY <1>10 DEF RestoreLock, TryLock, Proceed, Goto, tables, found, counters
    <2> QED  BY <1>0, <2>1, FileFrame DEF Running
  <1>11. ASSUME NEW w \in Workers, RestoreCopy(w)
        PROVE  FileInv'
    <2>1. /\ UNCHANGED <<cmd, rid, picked, sum, runs, expired, crashed>>
          /\ pc[w] = "copy" /\ \E place \in {"idle", "restore"} : pc' = [pc EXCEPT ![w] = place]
      BY <1>11 DEF RestoreCopy, Proceed, Goto, tables, found, counters
    <2>2. CASE source[w].target = "project"
      <3>1. \A v \in Workers : pc[v] \notin Running
        BY <2>1, <2>2 DEF LockInv, Running, Restoring
      <3>2. \A v \in Workers : pc'[v] \notin Running
        BY <1>0, <2>1, <3>1 DEF Running
      <3> QED  BY <2>1, <3>1, <3>2, FileVacuous DEF FileInv, Running
    <2>3. CASE source[w].target # "project"
      <3>1. files' = files
        BY <1>11, <2>3 DEF RestoreCopy, CopiedFile, Unlock
      <3> QED  BY <1>0, <2>1, <3>1, FileFrame DEF Running
    <2> QED  BY <2>2, <2>3
  <1>12. ASSUME NEW w \in Workers, RestoreExec(w) \/ RestoreReturns(w)
        PROVE  FileInv'
    <2>1. /\ UNCHANGED <<files, cmd, rid, picked, sum, runs, crashed>> /\ (~expired' => ~expired)
          /\ pc[w] \in {"restore", "restoring"}
          /\ \E place \in {"idle", "restoring"} : pc' = [pc EXCEPT ![w] = place]
      <3>1. CASE RestoreExec(w)
        BY <3>1 DEF RestoreExec, Proceed, Goto, tables, found
      <3>2. CASE RestoreReturns(w)
        BY <3>2 DEF RestoreReturns, Proceed, Goto, tables, found
      <3> QED  BY <1>12, <3>1, <3>2
    <2>2. \A v \in Workers : pc[v] \in Running \/ pc'[v] \in Running => pc'[v] = pc[v]
      BY <1>0, <2>1 DEF Running
    <2> QED  BY <2>1, <2>2, FileFrame
  <1>13. CASE Tick \/ \E i \in 1..MaxRestores : rcmdExits(i)
    BY <1>13, FileFrame DEF Tick, rcmdExits, tables, locals, found, counters
  <1>14. CASE Crash
    <2>1. crashed'
      BY <1>14 DEF Crash
    <2> QED  BY <2>1 DEF FileInv
  <1>15. CASE Boot
    <2>1. phase = "down" /\ UNCHANGED <<pc, cmd, expired, crashed>>
      BY <1>15 DEF Boot, ResetStaleBackups, counters
    <2>2. \A w \in Workers : pc[w] = "idle"
      BY <2>1 DEF LockInv
    <2> QED  BY <2>1, <2>2, FileVacuous DEF FileInv, Running
  <1>16. CASE UNCHANGED vars
    BY <1>16, FileFrame DEF vars, tables, locals, found, counters
  <1> QED  BY <1>1, <1>2, <1>3, <1>4, <1>5, <1>6, <1>7, <1>8, <1>9, <1>10, <1>11, <1>12,
              <1>13, <1>14, <1>15, <1>16, <1>k DEF Next, RunStep, RestoreStep

\* Without an expired context, a restore's goroutine leaves only when its
\* command has left.
LEMMA RestoreInductive == Types /\ SourceInv /\ RestoreInv /\ [Next]_vars => RestoreInv'
  <1> SUFFICES ASSUME Types, SourceInv, RestoreInv, [Next]_vars, ~expired', ~crashed'
               PROVE  RestoreInv'
    BY DEF RestoreInv
  <1>0. /\ pc \in [Workers -> Places] /\ source \in [Workers -> Source]
        /\ rcmd \in [1..MaxRestores -> Targets \cup {"none"}]
    BY DEF Types, SourceInv
  <1>1. ASSUME ~expired, ~crashed, rcmd' = rcmd,
               \A w \in Workers : pc[w] = "restoring" => pc'[w] = pc[w] /\ source'[w] = source[w]
        PROVE  RestoreInv'
    BY <1>1 DEF RestoreInv
  <1>2. ASSUME NEW w \in Workers, RunBegin(w) \/ RunStep(w)
        PROVE  RestoreInv'
    <2>0. pc[w] # "restoring"
      BY <1>2 DEF RunBegin, RunStep, ExecReturns, ExecTimeout, ExecKilled, newestMatch, hashFile,
         RunFinish
    <2>1. UNCHANGED <<rcmd, source, crashed>> /\ (~expired' => ~expired)
      <3>1. CASE RunBegin(w) \/ RunFinish(w)
        <4>1. CASE RunBegin(w)
          BY <4>1 DEF RunBegin, counters
        <4>2. CASE RunFinish(w)
          BY <4>2 DEF RunFinish, counters
        <4> QED  BY <3>1, <4>1, <4>2
      <3>2. CASE ExecReturns(w) \/ ExecKilled(w)
        BY <3>2 DEF ExecReturns, ExecKilled, locals, counters
      <3>3. CASE ExecTimeout(w)
        BY <3>3 DEF ExecTimeout, locals
      <3>4. CASE newestMatch(w)
        BY <3>4 DEF newestMatch, counters
      <3>5. CASE hashFile(w)
        BY <3>5 DEF hashFile
      <3> QED  BY <1>2, <3>1, <3>2, <3>3, <3>4, <3>5 DEF RunStep
    <2>2. \A v \in Workers : v # w => pc'[v] = pc[v]
      BY <1>0, <1>2 DEF RunBegin, RunStep, ExecReturns, ExecTimeout, ExecKilled, newestMatch,
         hashFile, RunFinish, Goto
    <2> QED  BY <1>1, <2>0, <2>1, <2>2
  <1>3. ASSUME NEW w \in Workers, RestoreRequest(w)
        PROVE  RestoreInv'
    <2>1. /\ UNCHANGED <<rcmd, expired, crashed>> /\ pc[w] # "restoring"
          /\ \A v \in Workers : v # w => pc'[v] = pc[v] /\ source'[v] = source[v]
      BY <1>0, <1>3, RestoreRequests
    <2> QED  BY <1>1, <2>1
  <1>4. ASSUME NEW w \in Workers, CloneCreate(w) \/ CloneStart(w) \/ RestoreLock(w)
                                   \/ RestoreCopy(w)
        PROVE  RestoreInv'
    <2>1. /\ UNCHANGED <<rcmd, expired, crashed>> /\ pc[w] # "restoring"
          /\ \E place \in Places : Proceed(w, place)
      BY <1>4 DEF CloneCreate, CloneStart, RestoreLock, RestoreCopy, counters, Places
    <2>2. \A v \in Workers : v # w => pc'[v] = pc[v] /\ source'[v] = source[v]
      BY <1>0, <2>1 DEF Proceed, Goto
    <2> QED  BY <1>1, <2>1, <2>2
  <1>5. ASSUME NEW w \in Workers, RestoreExec(w)
        PROVE  RestoreInv'
    <2>1. /\ UNCHANGED <<expired, crashed>> /\ pc[w] = "restore"
          /\ \E place \in Places : Proceed(w, place)
      BY <1>5 DEF RestoreExec, Places
    <2>2. \A v \in Workers : v # w => pc'[v] = pc[v] /\ source'[v] = source[v]
      BY <1>0, <2>1 DEF Proceed, Goto
    <2>3. CASE rcmd' = rcmd
      BY <1>1, <2>1, <2>2, <2>3
    <2>4. CASE /\ rcmd' = [rcmd EXCEPT ![source[w].id] = source[w].target]
               /\ Proceed(w, "restoring")
      <3>1. /\ pc'[w] = "restoring" /\ source' = source
        BY <1>0, <2>4 DEF Proceed, Goto
      <3>2. source[w].id \in 1..MaxRestores
        BY <2>1 DEF SourceInv, Restoring
      <3>3. ASSUME NEW i \in 1..MaxRestores, i # source[w].id, rcmd[i] # "none"
            PROVE  \E v \in Workers :
                      pc'[v] = "restoring" /\ source'[v].id = i /\ source'[v].target = rcmd[i]
        <4>1. PICK v \in Workers :
                 pc[v] = "restoring" /\ source[v].id = i /\ source[v].target = rcmd[i]
          BY <2>1, <3>3 DEF RestoreInv
        <4> QED  BY <2>1, <2>2, <4>1
      <3>4. \A i \in 1..MaxRestores : i # source[w].id => rcmd'[i] = rcmd[i]
        BY <1>0, <2>4, <3>2
      <3>5. rcmd'[source[w].id] = source[w].target
        BY <1>0, <2>4, <3>2
      <3> QED  BY <2>4, <3>1, <3>2, <3>3, <3>4, <3>5 DEF RestoreInv
    <2> QED  BY <1>5, <2>3, <2>4 DEF RestoreExec
  <1>6. ASSUME NEW w \in Workers, RestoreReturns(w)
        PROVE  RestoreInv'
    <2>1. /\ rcmd[source[w].id] = "none" /\ ~expired /\ ~crashed /\ rcmd' = rcmd
          /\ Proceed(w, "idle")
      BY <1>6 DEF RestoreReturns
    <2>2. \A v \in Workers : v # w => pc'[v] = pc[v] /\ source'[v] = source[v]
      BY <1>0, <2>1 DEF Proceed, Goto
    <2>3. ASSUME NEW i \in 1..MaxRestores, rcmd'[i] # "none"
          PROVE  \E v \in Workers :
                    pc'[v] = "restoring" /\ source'[v].id = i /\ source'[v].target = rcmd'[i]
      <3>1. PICK v \in Workers :
               pc[v] = "restoring" /\ source[v].id = i /\ source[v].target = rcmd[i]
        BY <2>1, <2>3 DEF RestoreInv
      <3>2. v # w
        BY <2>1, <2>3, <3>1
      <3> QED  BY <2>1, <2>2, <3>1, <3>2
    <2> QED  BY <2>3 DEF RestoreInv
  <1>7. ASSUME NEW i \in 1..MaxRestores, rcmdExits(i)
        PROVE  RestoreInv'
    <2>1. /\ UNCHANGED <<pc, source, expired, crashed>>
          /\ \A j \in 1..MaxRestores : rcmd'[j] # "none" => rcmd'[j] = rcmd[j]
      BY <1>0, <1>7 DEF rcmdExits, locals, counters
    <2> QED  BY <2>1 DEF RestoreInv
  <1>8. ASSUME NEW r \in 1..MaxRuns, cmdWrites(r) \/ cmdExits(r)
        PROVE  RestoreInv'
    BY <1>1, <1>8 DEF cmdWrites, cmdExits, locals, counters
  <1>9. CASE Tick \/ Boot \/ UNCHANGED vars
    BY <1>1, <1>9 DEF Tick, Boot, vars, locals, counters
  <1>10. ~Crash
    BY DEF Crash
  <1> QED  BY <1>2, <1>3, <1>4, <1>5, <1>6, <1>7, <1>8, <1>9, <1>10 DEF Next, RestoreStep

-----------------------------------------------------------------------------
BackupInv ==
    Types /\ SourceInv /\ LockInv /\ RecordInv /\ ClockInv /\ FileInv /\ RestoreInv

\* A daemon that starts with an empty table satisfies the invariant.
LEMMA InitInv == Init => BackupInv
  <1> SUFFICES ASSUME Init
               PROVE  BackupInv
    OBVIOUS
  <1>1. Types
    BY NoSourceTyped DEF Init, Types, Targets, Places, Slots
  <1>2. LockInv
    BY DEF Init, LockInv, Running, Restoring
  <1>3. RecordInv
    BY DEF Init, RecordInv, InProgress, Running
  <1>4. ClockInv /\ FileInv
    BY DEF Init, ClockInv, FileInv, Running
  <1>5. SourceInv /\ RestoreInv
    BY DEF Init, SourceInv, RestoreInv, Cloning, Restoring
  <1> QED  BY <1>1, <1>2, <1>3, <1>4, <1>5 DEF BackupInv

\* The invariant holds in every reachable state.
LEMMA Invariance == Spec => []BackupInv
  <1>1. BackupInv /\ [Next]_vars => BackupInv'
    BY TypesInductive, SourceInductive, LockInductive, RecordInductive, ClockInductive,
       FileInductive, RestoreInductive DEF BackupInv
  <1> QED  BY <1>1, InitInv, PTL DEF Spec

\* Only the beginning and the end of a run and ResetStaleBackups write the
\* table.
LEMMA TableWriters ==
    ASSUME [Next]_vars
    PROVE  \/ runs' = runs \/ Boot
           \/ \E w \in Workers : RunBegin(w) \/ RunFinish(w)
  <1>1. ASSUME NEW w \in Workers, RunStep(w), ~RunFinish(w)
        PROVE  runs' = runs
    BY <1>1 DEF RunStep, ExecReturns, ExecTimeout, ExecKilled, newestMatch, hashFile, tables
  <1>2. ASSUME NEW w \in Workers, RestoreStep(w)
        PROVE  runs' = runs
    BY <1>2 DEF RestoreStep, CloneCreate, CloneStart, RestoreLock, RestoreCopy,
       RestoreExec, RestoreReturns, tables
  <1>3. ASSUME NEW w \in Workers, RestoreRequest(w)
        PROVE  runs' = runs
    BY <1>3 DEF RestoreRequest, RestoreAs, RestoreInPlace, TryLock, RestoreBegin, tables
  <1>4. ASSUME NEW r \in 1..MaxRuns, cmdWrites(r) \/ cmdExits(r)
        PROVE  runs' = runs
    BY <1>4 DEF cmdWrites, cmdExits, tables
  <1>5. CASE Tick \/ Crash \/ UNCHANGED vars \/ \E i \in 1..MaxRestores : rcmdExits(i)
    BY <1>5 DEF Tick, Crash, rcmdExits, vars, tables
  <1> QED  BY <1>1, <1>2, <1>3, <1>4, <1>5 DEF Next

\* The audit log does not lie: a record in progress belongs to the goroutine
\* that holds the project's lock, unless the daemon is being started.
THEOREM OwnedInProgress == Spec => []InProgressIsOwned
  <1>1. BackupInv => InProgressIsOwned
    BY DEF BackupInv, Types, RecordInv, InProgress, InProgressIsOwned
  <1> QED  BY <1>1, Invariance, PTL

\* The table of runs implements BackupLog: one run at a time, closed once, and
\* never rewritten; ResetStaleBackups closes at most one.
THEOREM AuditRefinesLog == Spec => LogRefinement
  <1>1. Init => Log!LogInit
    BY DEF Init, Audit, Log!LogInit
  <1>2. BackupInv /\ [Next]_vars => [Log!LogNext]_Audit
    <2> SUFFICES ASSUME BackupInv, [Next]_vars
                 PROVE  Log!LogNext \/ Audit' = Audit
      OBVIOUS
    <2>0. /\ runs \in Seq(BackupRun) /\ Len(runs) \in Nat /\ DOMAIN runs = 1..Len(runs)
          /\ DOMAIN Audit = DOMAIN runs /\ Audit \in Seq({"in_progress", "success", "failed"})
          /\ \A i \in DOMAIN runs : Audit[i] = runs[i].status
      <3>1. runs \in Seq(BackupRun) /\ Len(runs) \in Nat /\ DOMAIN runs = 1..Len(runs)
        BY DEF BackupInv, Types
      <3>2. ASSUME NEW i \in DOMAIN runs
            PROVE  runs[i].status \in {"in_progress", "success", "failed"}
        <4>1. runs[i] \in BackupRun
          BY <3>1
        <4> QED  BY <4>1 DEF BackupRun
      <3> QED  BY <3>1, <3>2 DEF Audit
    <2>1. ASSUME NEW w \in Workers, RunBegin(w)
          PROVE  Log!OpenRun
      <3>1. \A i \in DOMAIN Audit : Audit[i] # "in_progress"
        BY <2>0, <2>1 DEF RunBegin, TryLock, BackupInv, RecordInv, InProgress
      <3>2. Audit' = Append(Audit, "in_progress")
        <4> DEFINE r == [status |-> "in_progress", started |-> clock,
                         file |-> NoFile, complete |-> FALSE]
        <4>1. runs' = Append(runs, r) /\ r.status = "in_progress"
          BY <2>1 DEF RunBegin, TryLock
        <4> HIDE DEF r
        <4> QED  BY <2>0, <4>1 DEF Audit
      <3> QED  BY <3>1, <3>2 DEF Log!OpenRun
    <2>2. ASSUME NEW w \in Workers, RunFinish(w)
          PROVE  Log!LogNext
      <3>1. InProgress(rid[w])
        BY <2>2 DEF RunFinish, Running, BackupInv, RecordInv
      <3>2. PICK status \in {"success", "failed"}, f \in Slots \cup {NoFile}, c \in BOOLEAN :
              FinishBackupRun(w, status, f, c)
        BY <2>2, FinishClosesRun DEF BackupInv
      <3>3. runs[rid[w]] \in BackupRun /\ rid[w] \in DOMAIN runs
        BY <2>0, <3>1 DEF InProgress
      <3>4. DOMAIN runs' = DOMAIN runs /\ runs'[rid[w]].status = status
            /\ \A i \in DOMAIN runs : i # rid[w] => runs'[i] = runs[i]
        BY <2>0, <3>2, <3>3 DEF BackupRun, FinishBackupRun
      <3>5. Audit' = [Audit EXCEPT ![rid[w]] = status]
        BY <2>0, <3>3, <3>4 DEF Audit
      <3>6. Log!CloseRun(rid[w], status)
        BY <2>0, <3>1, <3>3, <3>5 DEF Log!CloseRun, InProgress
      <3> QED  BY <2>0, <3>3, <3>6 DEF Log!LogNext
    <2>3. CASE Boot
      <3>1. /\ DOMAIN runs' = DOMAIN runs
            /\ \A i \in DOMAIN runs : runs'[i] = IF runs[i].status = "in_progress"
                                                 THEN [runs[i] EXCEPT !.status = "failed"]
                                                 ELSE runs[i]
        BY <2>3 DEF Boot, ResetStaleBackups
      <3>2. ASSUME NEW i \in DOMAIN runs
            PROVE  runs'[i].status = IF runs[i].status = "in_progress" THEN "failed"
                                     ELSE runs[i].status
        <4>1. runs[i] \in BackupRun
          BY <2>0
        <4> QED  BY <3>1, <4>1 DEF BackupRun
      <3>3. CASE \A i \in DOMAIN runs : ~InProgress(i)
        BY <2>0, <3>1, <3>2, <3>3 DEF Audit, InProgress
      <3>4. ASSUME NEW i \in DOMAIN runs, InProgress(i)
            PROVE  Log!LogNext
        <4>1. \A j \in DOMAIN runs : j # i => runs[j].status # "in_progress"
          BY <3>4 DEF BackupInv, RecordInv, InProgress
        <4>2. Audit' = [Audit EXCEPT ![i] = "failed"]
          BY <2>0, <3>1, <3>2, <3>4, <4>1 DEF Audit, InProgress
        <4>3. Log!CloseRun(i, "failed")
          BY <2>0, <3>4, <4>2 DEF Log!CloseRun, InProgress
        <4> QED  BY <2>0, <4>3 DEF Log!LogNext
      <3> QED  BY <3>3, <3>4
    <2>4. CASE runs' = runs
      BY <2>4 DEF Audit
    <2>5. \/ runs' = runs \/ Boot
          \/ \E w \in Workers : RunBegin(w) \/ RunFinish(w)
      BY TableWriters
    <2> QED  BY <2>1, <2>2, <2>3, <2>4, <2>5 DEF Log!LogNext
  <1> QED  BY <1>1, <1>2, Invariance, PTL DEF Spec, LogRefinement, Log!LogSpec

\* "One backup or restore in flight per project": while no context expires and
\* the daemon lives, no two commands are at work in the containers of one
\* project, for any number of goroutines, backups and restores.
THEOREM CommandsExclude == Spec => []OneInFlight
  <1>1. BackupInv => OneInFlight
    <2> SUFFICES ASSUME BackupInv, ~expired, ~crashed, NEW t \in Targets,
                        NEW a \in AtWork(t), NEW b \in AtWork(t)
                 PROVE  a = b
      BY DEF OneInFlight
    <2>1. ASSUME NEW c \in AtWork(t)
          PROVE  \E w \in Workers :
                   /\ lock[t] = w
                   /\ \/ pc[w] = "exec" /\ c = <<"backup", rid[w]>>
                      \/ pc[w] = "restoring" /\ c = <<"restore", source[w].id>>
      <3>1. CASE \E r \in 1..MaxRuns : cmd[r] = "running" /\ t = "project" /\ c = <<"backup", r>>
        BY <3>1 DEF BackupInv, FileInv, LockInv, Running
      <3>2. CASE \E i \in 1..MaxRestores : rcmd[i] = t /\ c = <<"restore", i>>
        <4>1. PICK i \in 1..MaxRestores : rcmd[i] = t /\ c = <<"restore", i>>
          BY <3>2
        <4>2. rcmd[i] # "none"
          BY <4>1 DEF Targets
        <4>3. PICK w \in Workers :
                 pc[w] = "restoring" /\ source[w].id = i /\ source[w].target = rcmd[i]
          BY <4>2 DEF BackupInv, RestoreInv
        <4> QED  BY <4>1, <4>3 DEF BackupInv, LockInv, Restoring
      <3> QED  BY <2>1, <3>1, <3>2 DEF AtWork
    <2> QED  BY <2>1
  <1> QED  BY <1>1, Invariance, PTL

\* While no context expires and the daemon lives, a run that succeeds names
\* the file of its own command and the hash of all of it, unless that command
\* wrote none; files of one clock tick are not told apart.
THEOREM SuccessNamesOwnFile == Spec => RecordedFileIsOwn
  <1> DEFINE Own == ~expired /\ ~crashed =>
                      \A r \in DOMAIN runs :
                        runs[r].status = "in_progress" /\ runs'[r].status = "success" =>
                          IF runs'[r].file = r THEN runs'[r].complete
                          ELSE files[r] = NoFile \/ files[r].mtime = files[runs'[r].file].mtime
  <1>1. BackupInv /\ [Next]_vars => [Own]_vars
    <2> SUFFICES ASSUME BackupInv, Next, ~expired, ~crashed, NEW r \in DOMAIN runs,
                        runs[r].status = "in_progress", runs'[r].status = "success"
                 PROVE  IF runs'[r].file = r THEN runs'[r].complete
                        ELSE files[r] = NoFile \/ files[r].mtime = files[runs'[r].file].mtime
      OBVIOUS
    <2>0. /\ runs \in Seq(BackupRun) /\ runs[r] \in BackupRun
          /\ files \in [Slots -> File \cup {NoFile}]
      BY DEF BackupInv, Types
    <2>1. PICK w \in Workers : RunFinish(w)
      <3>1. ASSUME NEW w \in Workers, RunBegin(w)
            PROVE  FALSE
        BY <2>0, <3>1 DEF RunBegin, TryLock
      <3>2. ~Boot
        <4> SUFFICES ASSUME Boot
                     PROVE  FALSE
          OBVIOUS
        <4>1. runs'[r] = [runs[r] EXCEPT !.status = "failed"]
          BY DEF Boot, ResetStaleBackups
        <4> QED  BY <2>0, <4>1 DEF BackupRun
      <3>3. runs' # runs
        OBVIOUS
      <3> QED  BY <3>1, <3>2, <3>3, TableWriters
    <2>2. rid[w] = r /\ pc[w] \in {"finish", "fail"}
      <3>1. pc[w] \in {"finish", "fail"}
        BY <2>1 DEF RunFinish
      <3>2. InProgress(rid[w]) /\ InProgress(r)
        BY <3>1 DEF BackupInv, RecordInv, Running, InProgress
      <3> QED  BY <3>1, <3>2 DEF BackupInv, RecordInv, InProgress
    <2>3. /\ pc[w] = "finish"
          /\ runs'[r].file = picked[w] /\ runs'[r].complete = sum[w]
      <3>1. CASE pc[w] = "fail"
        <4>1. runs'[r] = [runs[r] EXCEPT !.status = "failed", !.file = picked[w], !.complete = FALSE]
          BY <2>0, <2>1, <2>2, <3>1 DEF RunFinish, FinishBackupRun
        <4> QED  BY <2>0, <4>1 DEF BackupRun
      <3>2. CASE pc[w] = "finish"
        <4>1. runs'[r] = [runs[r] EXCEPT !.status = "success", !.file = picked[w], !.complete = sum[w]]
          BY <2>0, <2>1, <2>2, <3>2 DEF RunFinish, FinishBackupRun
        <4> QED  BY <2>0, <3>2, <4>1 DEF BackupRun
      <3> QED  BY <2>2, <3>1, <3>2
    <2>4. CASE picked[w] = r
      BY <2>2, <2>3, <2>4 DEF BackupInv, FileInv
    <2>5. CASE picked[w] # r /\ files[r] # NoFile
      <3>1. files[r].mtime <= files[picked[w]].mtime /\ files[picked[w]] # NoFile
        BY <2>2, <2>3, <2>5 DEF BackupInv, FileInv
      <3>2. files[picked[w]].mtime <= files[r].mtime
        <4>1. picked[w] \in Slots
          BY <2>3 DEF BackupInv, Types
        <4> QED  BY <2>2, <2>3, <2>5, <3>1, <4>1 DEF BackupInv, FileInv, Whole, Running
      <3>3. files[picked[w]].mtime \in Nat /\ files[r].mtime \in Nat
        <4>1. picked[w] \in Slots /\ r \in Slots
          BY <2>3 DEF BackupInv, Types, Slots
        <4> QED  BY <2>0, <2>5, <3>1, <4>1 DEF File
      <3> QED  BY <2>3, <2>5, <3>1, <3>2, <3>3
    <2> QED  BY <2>3, <2>4, <2>5
  <1> QED  BY <1>1, Invariance, PTL DEF Spec, RecordedFileIsOwn
=============================================================================
