----------------------------- MODULE Scheduler -----------------------------
(***************************************************************************)
(* internal/scheduler: reconcileOne, which polls the registry and calls    *)
(* Deploy.  The polling loop runs it on its own goroutine; a "deploy"      *)
(* request (TriggerManualReconcile) runs the same code on the request's.   *)
(* The state row is read when the poll begins and written back, whole, up  *)
(* to three times while registry lookups take their time.                  *)
(***************************************************************************)
EXTENDS Deployer

VARIABLE todo   \* the services each worker's loop has not looked up yet

ReconcilePC == {"check", "poll"}

SchedulerTypeOK ==
    /\ todo \in [Workers -> SUBSET Services]
    /\ pc \in [Workers -> {"idle", "tryLock"} \cup DeployPC \cup StopPC
                          \cup StartPC \cup ReconcilePC]

SchedulerInit == todo = [w \in Workers |-> {}]

\* GetState by the caller of reconcileOne (reconcileAll, TriggerManualReconcile).
ReconcileBegin(w) ==
    /\ Step(w, "idle", "check")
    /\ ReadState(w)
    /\ UNCHANGED <<lock, target, dep, storeVars, hostVars, remote, faults, todo>>

\* LastCheckAt = now; UpdateState; then the loop over the polled services.
ReconcileCheck(w) ==
    /\ Step(w, "check", "poll")
    /\ UpdateState(st[w])
    /\ todo' = [todo EXCEPT ![w] = Services]
    /\ UNCHANGED <<lock, localVars, deployments, hostVars, remote, faults>>

\* digestFn for one service; an error is saved (LastError) and ends the poll.
ReconcilePoll(w) ==
    /\ pc[w] = "poll"
    /\ \E s \in todo[w] :
        \/ /\ st' = [st EXCEPT ![w].desired[s] = remote[s]]
           /\ todo' = [todo EXCEPT ![w] = @ \ {s}]
           /\ UNCHANGED <<pc, target, dep, row, faults>>
        \/ /\ Fault
           /\ UpdateState(st[w])
           /\ Return(w)
           /\ todo' = [todo EXCEPT ![w] = {}]
    /\ UNCHANGED <<lock, deployments, hostVars, remote>>

\* The loop's "changed": desired was just set for every polled service.
Changed(s) == s.desired # s.current

\* Mutant: a failed project is not deployed again.
MutSkipsFailed(s) == s.status \in {"deploying", "failed"}

\* "deployment already in progress", as far as the row says.
SkipsDeploy(s) == s.status = "deploying"

\* LastError = ""; UpdateState; then up to date, skipped, or Deploy(desired).
ReconcileDecide(w) ==
    /\ pc[w] = "poll" /\ todo[w] = {}
    /\ UpdateState(st[w])
    /\ \/ /\ ~Changed(st[w]) \/ SkipsDeploy(st[w])
          /\ Return(w)
       \/ /\ Changed(st[w]) /\ ~SkipsDeploy(st[w])
          /\ Goto(w, "tryLock")
          /\ target' = [target EXCEPT ![w] = st[w].desired]
          /\ st' = [st EXCEPT ![w] = NewRow]
          /\ UNCHANGED dep
    /\ UNCHANGED <<lock, deployments, hostVars, remote, faults, todo>>

ReconcileStep(w) == ReconcileCheck(w) \/ ReconcilePoll(w) \/ ReconcileDecide(w)
=============================================================================
