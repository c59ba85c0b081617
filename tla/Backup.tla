------------------------------- MODULE Backup -------------------------------
(***************************************************************************)
(* internal/backup: Service.Run and Service.Restore for one project, with  *)
(* the table backup_runs and the startup reset of db.go.  The commands run *)
(* inside containers (external): the daemon waits for them with a timeout, *)
(* but a command whose client was killed runs on.                          *)
(***************************************************************************)
EXTENDS Naturals, Sequences

CONSTANTS
    Workers,        \* request goroutines
    Nobody,         \* the mutex is free
    NoFile,         \* there is no such file
    NoRun,          \* not in a run
    Skew,           \* newestMatch takes files this much older than the run
    MaxRuns,        \* bound: backup runs
    MaxClock,       \* bound: clock ticks
    MaxRestores,    \* bound: restores
    MaxFaults       \* bound: unreadable files, failing starts, crashes of the daemon

ASSUME BackupAssumption ==
    /\ Nobody \notin Workers
    /\ Skew \in Nat
    /\ MaxRuns \in Nat /\ MaxClock \in Nat /\ MaxRestores \in Nat
    /\ MaxFaults \in Nat

VARIABLES
    phase,    \* "up", or "down" between a crash and ResetStaleBackups
    clock,
    lock,     \* Service.locks of the project and of the clone
    runs,     \* table backup_runs, in order of id
    files,    \* {StackPath}/backups: file i is written by run i's command;
              \* file 0 was fetched by the operator and copied in by a restore
    cmd,      \* the command of run i, inside the container
    rcmd,     \* the target in whose container the command of restore i is at work
    pc, rid, picked, sum, source,   \* goroutine: place and locals
    clone,    \* the clone's row: "none", "created" or "started"
    expired,  \* history: the context of some command expired or was cancelled
    crashed,  \* history: the daemon died
    restores, faults

tables == <<runs, clone>>
found == <<rid, picked, sum>>
locals == <<found, source>>
counters == <<expired, crashed, restores, faults>>
vars == <<phase, clock, lock, tables, files, cmd, rcmd, pc, locals, counters>>

Slots == 0..MaxRuns
File == [mtime : 0..MaxClock, complete : BOOLEAN]
Targets == {"project", "clone"}
Source == [target : Targets, inDir : BOOLEAN, id : 0..MaxRestores]
NoSource == [target |-> "project", inDir |-> FALSE, id |-> 0]
BackupRun == [status : {"in_progress", "success", "failed"}, started : 0..MaxClock,
              file : Slots \cup {NoFile}, complete : BOOLEAN]
Places == {"idle", "exec", "killed", "locate", "hash", "finish", "fail",
           "create", "start", "lock", "copy", "restore", "restoring"}

TypeOK ==
    /\ phase \in {"up", "down"}
    /\ clock \in 0..MaxClock
    /\ lock \in [Targets -> Workers \cup {Nobody}]
    /\ runs \in Seq(BackupRun) /\ Len(runs) <= MaxRuns
    /\ files \in [Slots -> File \cup {NoFile}]
    /\ cmd \in [1..MaxRuns -> {"none", "running", "ok", "error"}]
    /\ rcmd \in [1..MaxRestores -> Targets \cup {"none"}]
    /\ pc \in [Workers -> Places]
    /\ rid \in [Workers -> 1..MaxRuns \cup {NoRun}]
    /\ \A w \in Workers : pc[w] = "idle" => \A t \in Targets : lock[t] # w
    /\ picked \in [Workers -> Slots \cup {NoFile}]
    /\ sum \in [Workers -> BOOLEAN]
    /\ source \in [Workers -> Source]
    /\ clone \in {"none", "created", "started"}
    /\ expired \in BOOLEAN /\ crashed \in BOOLEAN
    /\ restores \in 0..MaxRestores /\ faults \in 0..MaxFaults

Init ==
    /\ phase = "up"
    /\ clock = 0
    /\ lock = [t \in Targets |-> Nobody]
    /\ runs = <<>>
    /\ files = [i \in Slots |-> NoFile]
    /\ cmd = [i \in 1..MaxRuns |-> "none"]
    /\ rcmd = [i \in 1..MaxRestores |-> "none"]
    /\ pc = [w \in Workers |-> "idle"]
    /\ rid = [w \in Workers |-> NoRun]
    /\ picked = [w \in Workers |-> NoFile]
    /\ sum = [w \in Workers |-> FALSE]
    /\ source = [w \in Workers |-> NoSource]
    /\ clone = "none"
    /\ expired = FALSE /\ crashed = FALSE /\ restores = 0 /\ faults = 0

Goto(w, place) == pc' = [pc EXCEPT ![w] = place]

\* A restore goes on, or returns.
Proceed(w, place) ==
    /\ Goto(w, place)
    /\ source' = IF place = "idle" THEN [source EXCEPT ![w] = NoSource] ELSE source

MutTryLock(w, t) == lock' = [lock EXCEPT ![t] = w]

TryLock(w, t) == lock[t] = Nobody /\ lock' = [lock EXCEPT ![t] = w]

Unlock(w) == lock' = [t \in Targets |-> IF lock[t] = w THEN Nobody ELSE lock[t]]

-----------------------------------------------------------------------------
\* Service.Run.

\* TryLock, or an error at once; the record; the command is started.  A
\* service that is not running is an error before the record is made.
RunBegin(w) ==
    /\ phase = "up" /\ pc[w] = "idle"
    /\ Len(runs) < MaxRuns
    /\ TryLock(w, "project")
    /\ runs' = Append(runs, [status |-> "in_progress", started |-> clock,
                             file |-> NoFile, complete |-> FALSE])
    /\ rid' = [rid EXCEPT ![w] = Len(runs')]
    /\ cmd' = [cmd EXCEPT ![Len(runs')] = "running"]
    /\ Goto(w, "exec")
    /\ UNCHANGED <<phase, clock, files, rcmd, picked, sum, source, clone, counters>>

\* The command's exit is seen ...
ExecReturns(w) ==
    /\ pc[w] = "exec" /\ cmd[rid[w]] \in {"ok", "error"}
    /\ Goto(w, IF cmd[rid[w]] = "ok" THEN "locate" ELSE "fail")
    /\ UNCHANGED <<phase, clock, lock, tables, files, cmd, rcmd, locals, counters>>

\* ... or timeout_sec is over, or the client went away: the compose process is
\* killed, the command in the container is not.
ExecTimeout(w) ==
    /\ pc[w] = "exec"
    /\ expired' = TRUE
    /\ Goto(w, "killed")
    /\ UNCHANGED <<phase, clock, lock, tables, files, cmd, rcmd, locals,
                   crashed, restores, faults>>

\* cmd.Run still waits until nobody holds the output pipes: a provider that
\* compose started has them, perhaps until its command ends.
ExecKilled(w) ==
    /\ pc[w] = "killed"
    /\ Goto(w, "fail")
    /\ UNCHANGED <<phase, clock, lock, tables, files, cmd, rcmd, locals, counters>>

\* The files newestMatch accepts for a run, and the newest of them.
Recent(r) ==
    {i \in Slots : files[i] # NoFile /\ files[i].mtime + Skew >= runs[r].started}
MutNewest(r) ==
    {i \in Recent(r) : \A j \in Recent(r) : files[j].mtime >= files[i].mtime}

Newest(r) ==
    {i \in Recent(r) : \A j \in Recent(r) : files[j].mtime <= files[i].mtime}

newestMatch(w) ==
    /\ pc[w] = "locate"
    /\ \/ /\ Newest(rid[w]) = {}
          /\ Goto(w, "fail") /\ UNCHANGED picked
       \/ \E i \in Newest(rid[w]) :
            /\ picked' = [picked EXCEPT ![w] = i]
            /\ Goto(w, "hash")
    /\ UNCHANGED <<phase, clock, lock, tables, files, cmd, rcmd, rid, sum, source, counters>>

\* The hash is that of the bytes the file has now; a file that cannot be read
\* is named in the failed record.
hashFile(w) ==
    /\ pc[w] = "hash"
    /\ \/ /\ sum' = [sum EXCEPT ![w] = files[picked[w]].complete]
          /\ Goto(w, "finish") /\ UNCHANGED faults
       \/ /\ faults < MaxFaults /\ faults' = faults + 1
          /\ Goto(w, "fail") /\ UNCHANGED sum
    /\ UNCHANGED <<phase, clock, lock, tables, files, cmd, rcmd, rid, picked, source,
                   expired, crashed, restores>>

FinishBackupRun(w, status, file, complete) ==
    runs' = [runs EXCEPT ![rid[w]] =
                [@ EXCEPT !.status = status, !.file = file, !.complete = complete]]

MutRunFinishSilent(w) ==
    /\ \/ pc[w] = "finish" /\ FinishBackupRun(w, "success", picked[w], sum[w])
       \/ pc[w] = "fail" /\ UNCHANGED runs
    /\ Unlock(w)
    /\ Goto(w, "idle")
    /\ rid' = [rid EXCEPT ![w] = NoRun]
    /\ picked' = [picked EXCEPT ![w] = NoFile] /\ sum' = [sum EXCEPT ![w] = FALSE]
    /\ UNCHANGED <<phase, clock, files, cmd, rcmd, source, clone, counters>>

RunFinish(w) ==
    /\ \/ pc[w] = "finish" /\ FinishBackupRun(w, "success", picked[w], sum[w])
       \/ pc[w] = "fail" /\ FinishBackupRun(w, "failed", picked[w], FALSE)
    /\ Unlock(w)
    /\ Goto(w, "idle")
    /\ rid' = [rid EXCEPT ![w] = NoRun]
    /\ picked' = [picked EXCEPT ![w] = NoFile] /\ sum' = [sum EXCEPT ![w] = FALSE]
    /\ UNCHANGED <<phase, clock, files, cmd, rcmd, source, clone, counters>>

-----------------------------------------------------------------------------
\* The container: a command writes its file and exits, exits without one, or
\* fails, perhaps after writing a part.

cmdWrites(r) ==
    /\ cmd[r] = "running" /\ files[r] = NoFile
    /\ files' = [files EXCEPT ![r] = [mtime |-> clock, complete |-> FALSE]]
    /\ UNCHANGED <<phase, clock, lock, tables, cmd, rcmd, pc, locals, counters>>

cmdExits(r) ==
    /\ cmd[r] = "running"
    /\ \/ /\ files[r] # NoFile
          /\ files' = [files EXCEPT ![r] = [mtime |-> clock, complete |-> TRUE]]
          /\ cmd' = [cmd EXCEPT ![r] = "ok"]
       \/ /\ files[r] = NoFile
          /\ cmd' = [cmd EXCEPT ![r] = "ok"] /\ UNCHANGED files
       \/ cmd' = [cmd EXCEPT ![r] = "error"] /\ UNCHANGED files
    /\ UNCHANGED <<phase, clock, lock, tables, rcmd, pc, locals, counters>>

-----------------------------------------------------------------------------
\* Service.Restore: in place, or into a clone that is created and started
\* first.  The file is in the target's own directory (inDir), or it becomes
\* file 0 of it; the files of the clone's directory are left out.

RestoreBegin(w, target, inDir) ==
    /\ phase = "up" /\ pc[w] = "idle"
    /\ restores < MaxRestores /\ restores' = restores + 1
    /\ source' = [source EXCEPT ![w] =
                    [target |-> target, inDir |-> inDir, id |-> restores']]
    /\ UNCHANGED <<phase, clock, tables, files, cmd, rcmd, found, expired, crashed, faults>>

\* Into a project that is there, which a clone is too: TryLock, or an error at
\* once.
RestoreInPlace(w, target, inDir) ==
    /\ RestoreBegin(w, target, inDir)
    /\ target = "clone" => clone # "none"
    /\ inDir => target = "project" /\ \E i \in Slots : files[i] # NoFile
    /\ TryLock(w, target)
    /\ Goto(w, "copy")

\* GetProject: an id that is taken is refused ...
RestoreAs(w) ==
    /\ RestoreBegin(w, "clone", FALSE)
    /\ clone = "none"
    /\ Goto(w, "create")
    /\ UNCHANGED lock

\* ... and CreateProject refuses one that was taken meanwhile.
CloneCreate(w) ==
    /\ pc[w] = "create"
    /\ clone' = IF clone = "none" THEN "created" ELSE clone
    /\ Proceed(w, IF clone = "none" THEN "start" ELSE "idle")
    /\ UNCHANGED <<phase, clock, lock, runs, files, cmd, rcmd, found, counters>>

\* deployer.Start of the clone; ports were picked before and may be taken.
CloneStart(w) ==
    /\ pc[w] = "start"
    /\ \/ clone' = "started" /\ Proceed(w, "lock") /\ UNCHANGED faults
       \/ faults < MaxFaults /\ faults' = faults + 1 /\ Proceed(w, "idle") /\ UNCHANGED clone
    /\ UNCHANGED <<phase, clock, lock, runs, files, cmd, rcmd, found,
                   expired, crashed, restores>>

RestoreLock(w) ==
    /\ pc[w] = "lock"
    /\ \/ TryLock(w, "clone") /\ Proceed(w, "copy")
       \/ lock["clone"] # Nobody /\ Proceed(w, "idle") /\ UNCHANGED lock
    /\ UNCHANGED <<phase, clock, tables, files, cmd, rcmd, found, counters>>

\* copyFile: into the target's own directory, unless the file is there; a copy
\* that fails leaves a part of it.
CopiedFile(w, complete) ==
    files' = IF source[w].target = "project" /\ ~source[w].inDir
             THEN [files EXCEPT ![0] = [mtime |-> clock, complete |-> complete]]
             ELSE files

RestoreCopy(w) ==
    /\ pc[w] = "copy"
    /\ \/ CopiedFile(w, TRUE) /\ Proceed(w, "restore") /\ UNCHANGED <<lock, faults>>
       \/ /\ faults < MaxFaults /\ faults' = faults + 1
          /\ CopiedFile(w, FALSE) /\ Unlock(w) /\ Proceed(w, "idle")
    /\ UNCHANGED <<phase, clock, tables, cmd, rcmd, found, expired, crashed, restores>>

\* The restore command is started, unless the service does not run.
RestoreExec(w) ==
    /\ pc[w] = "restore"
    /\ \/ /\ rcmd' = [rcmd EXCEPT ![source[w].id] = source[w].target]
          /\ Proceed(w, "restoring") /\ UNCHANGED <<lock, faults>>
       \/ /\ faults < MaxFaults /\ faults' = faults + 1
          /\ Unlock(w) /\ Proceed(w, "idle") /\ UNCHANGED rcmd
    /\ UNCHANGED <<phase, clock, tables, files, cmd, found, expired, crashed, restores>>

\* Its exit is seen, good or bad; or the context expires, and the call returns
\* when the output pipes are closed.
RestoreReturns(w) ==
    /\ pc[w] = "restoring"
    /\ expired' = (expired \/ rcmd[source[w].id] # "none")
    /\ Unlock(w)
    /\ Proceed(w, "idle")
    /\ UNCHANGED <<phase, clock, tables, files, cmd, rcmd, found, crashed, restores, faults>>

\* In the container: the command replaces data as long as it is at work.
rcmdExits(i) ==
    /\ rcmd[i] # "none"
    /\ rcmd' = [rcmd EXCEPT ![i] = "none"]
    /\ UNCHANGED <<phase, clock, lock, tables, files, cmd, pc, locals, counters>>

-----------------------------------------------------------------------------
Tick ==
    /\ clock < MaxClock /\ clock' = clock + 1
    /\ UNCHANGED <<phase, lock, tables, files, cmd, rcmd, pc, locals, counters>>

\* The daemon dies; commands in containers run on.
Crash ==
    /\ phase = "up"
    /\ faults < MaxFaults /\ faults' = faults + 1 /\ crashed' = TRUE
    /\ phase' = "down"
    /\ lock' = [t \in Targets |-> Nobody]
    /\ pc' = [w \in Workers |-> "idle"]
    /\ rid' = [w \in Workers |-> NoRun] /\ picked' = [w \in Workers |-> NoFile]
    /\ sum' = [w \in Workers |-> FALSE] /\ source' = [w \in Workers |-> NoSource]
    /\ UNCHANGED <<clock, tables, files, cmd, rcmd,
                   expired, restores>>

MutResetNothing == phase = "down" /\ phase' = "up" /\ UNCHANGED runs

MutResetEverything ==
    /\ phase = "down" /\ phase' = "up"
    /\ runs' = [i \in DOMAIN runs |-> [runs[i] EXCEPT !.status = "failed"]]

ResetStaleBackups ==
    /\ phase = "down" /\ phase' = "up"
    /\ runs' = [i \in DOMAIN runs |->
                 IF runs[i].status = "in_progress" THEN [runs[i] EXCEPT !.status = "failed"]
                 ELSE runs[i]]

Boot ==
    /\ ResetStaleBackups
    /\ UNCHANGED <<clock, lock, files, cmd, rcmd, pc, locals, clone, counters>>

RunStep(w) ==
    \/ ExecReturns(w) \/ ExecTimeout(w) \/ ExecKilled(w)
    \/ newestMatch(w) \/ hashFile(w) \/ RunFinish(w)

RestoreRequest(w) ==
    RestoreAs(w) \/ \E t \in Targets, inDir \in BOOLEAN : RestoreInPlace(w, t, inDir)

RestoreStep(w) ==
    \/ CloneCreate(w) \/ CloneStart(w) \/ RestoreLock(w)
    \/ RestoreCopy(w) \/ RestoreExec(w) \/ RestoreReturns(w)

Next ==
    \/ \E w \in Workers :
        RunBegin(w) \/ RunStep(w) \/ RestoreRequest(w) \/ RestoreStep(w)
    \/ \E r \in 1..MaxRuns : cmdWrites(r) \/ cmdExits(r)
    \/ \E i \in 1..MaxRestores : rcmdExits(i)
    \/ Tick
    \/ Crash
    \/ Boot

Spec == Init /\ [][Next]_vars

\* The killed client of a command that is still at work may wait for good.
Held(w) == pc[w] = "killed" /\ cmd[rid[w]] = "running"

\* The timer of the context fires, the pipes are closed once the command has
\* ended, every other call of Run returns, systemd restarts the daemon.
\* Nothing is assumed of the commands in the containers, nor of restores.
FairSpec ==
    /\ Spec
    /\ WF_vars(Boot)
    /\ \A w \in Workers : WF_vars(RunStep(w) /\ ~Held(w))

-----------------------------------------------------------------------------
\* docs/backups.md:162: the audit log does not lie.  A record in progress
\* belongs to the goroutine that holds the project's lock, or to a daemon
\* that has not finished starting.
InProgressIsOwned ==
    \A r \in DOMAIN runs : runs[r].status = "in_progress" =>
        phase = "down" \/ \E w \in Workers : lock["project"] = w /\ rid[w] = r

\* Every run ends, across crashes and with a command that hangs, but for one
\* case: after the timeout the client was killed, the command in the container
\* hangs on, and whoever holds the output pipes never closes them
\* (exec.go:93).  Should that command end, the run does.
BackupsEnd ==
    \A r \in 1..MaxRuns :
        (r \in DOMAIN runs /\ runs[r].status = "in_progress")
            ~> \/ r \in DOMAIN runs /\ runs[r].status # "in_progress"
               \/ \E w \in Workers : Held(w) /\ rid[w] = r

\* The audit trail implements BackupLog.
Audit == [r \in DOMAIN runs |-> runs[r].status]
Log == INSTANCE BackupLog WITH log <- Audit
LogRefinement == Log!LogSpec

\* docs/backups.md:152: while no context expires and the daemon lives, a
\* success names the file its own command finished, with the hash of all of
\* it, unless that command wrote none: then it may be a file of an earlier
\* run, up to Skew older.  (Two files of one clock tick are not told apart.)
RecordedFileIsOwn ==
    [][~expired /\ ~crashed =>
        \A r \in DOMAIN runs :
            runs[r].status = "in_progress" /\ runs'[r].status = "success" =>
                IF runs'[r].file = r THEN runs'[r].complete
                ELSE files[r] = NoFile \/ files[r].mtime = files[runs'[r].file].mtime]_vars

\* The commands at work in the containers of a target.
AtWork(target) ==
    {<<"backup", r>> : r \in {r \in 1..MaxRuns : cmd[r] = "running" /\ target = "project"}}
        \cup {<<"restore", i>> : i \in {i \in 1..MaxRestores : rcmd[i] = target}}

\* docs/backups.md:147: "One backup or restore in flight per project", and not
\* just for the goroutines: while no context expires and the daemon lives, two
\* commands are never at work in the containers of the project, nor in those
\* of a clone, which has no lock while it is created and started.  (A clone
\* mounts the absolute volumes of the project, restore.go:167: there a restore
\* of the clone may still meet a backup of the project, each with its lock.)
OneInFlight ==
    ~expired /\ ~crashed =>
        \A t \in Targets : \A a, b \in AtWork(t) : a = b
=============================================================================
