--------------------------- MODULE DeploymentLog ---------------------------
(***************************************************************************)
(* What the deployment history promises, whoever deploys and whenever the  *)
(* daemon dies: a project has at most one deployment in progress; a        *)
(* deployment starts from nothing or from digests that an earlier one      *)
(* deployed successfully; it ends once, in success or failure; and only    *)
(* the newest, failed one, if it had something to go back to, can still    *)
(* turn into rolled_back.                                                  *)
(***************************************************************************)
EXTENDS Naturals, Sequences

CONSTANTS Maps, Empty   \* digest maps, and the one without an entry

VARIABLE log

Deployed(m) == \E i \in DOMAIN log : log[i].status = "success" /\ log[i].to = m

LogInit == log = <<>>

Open(from, to) ==
    /\ \A i \in DOMAIN log : log[i].status # "in_progress"
    /\ from = Empty \/ Deployed(from)
    /\ to # Empty
    /\ log' = Append(log, [from |-> from, to |-> to, status |-> "in_progress"])

Close(i, status) ==
    /\ log[i].status = "in_progress"
    /\ status \in {"success", "failed"}
    /\ log' = [log EXCEPT ![i].status = status]

RollBack(i) ==
    /\ i = Len(log)
    /\ log[i].status = "failed"
    /\ log[i].from # Empty
    /\ log' = [log EXCEPT ![i].status = "rolled_back"]

LogNext ==
    \/ \E from, to \in Maps : Open(from, to)
    \/ \E i \in DOMAIN log : RollBack(i) \/ \E s \in {"success", "failed"} : Close(i, s)

LogSpec == LogInit /\ [][LogNext]_log
=============================================================================
