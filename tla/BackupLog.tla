----------------------------- MODULE BackupLog -----------------------------
(***************************************************************************)
(* What the audit trail of backups promises: at most one run of a project  *)
(* is in progress, a run ends once, in success or failure, and what has    *)
(* ended is never rewritten.                                               *)
(***************************************************************************)
EXTENDS Naturals, Sequences

VARIABLE log   \* the statuses of the runs, in order of their ids

LogInit == log = <<>>

OpenRun ==
    /\ \A i \in DOMAIN log : log[i] # "in_progress"
    /\ log' = Append(log, "in_progress")

CloseRun(i, status) ==
    /\ log[i] = "in_progress"
    /\ log' = [log EXCEPT ![i] = status]

LogNext ==
    \/ OpenRun
    \/ \E i \in DOMAIN log, s \in {"success", "failed"} : CloseRun(i, s)

LogSpec == LogInit /\ [][LogNext]_log
=============================================================================
