-------------------------- MODULE LifecycleProofs --------------------------
(***************************************************************************)
(* What holds of Lifecycle for any number of goroutines, projects,         *)
(* operations and failing commands.  Three arguments of their own: who     *)
(* holds the mutex and whose the open record is; what a deletion that      *)
(* nothing overlaps leaves behind; and what operations that never overlap  *)
(* make of the status.  Then Transfer and VolumePaths: how a project gets  *)
(* to another host.                                                        *)
(***************************************************************************)
EXTENDS Lifecycle, Transfer, WellFoundedInduction, TLAPS

Pcs == {"idle", "lock", "get", "insert", "mark", "compose", "failed",
        "rollback", "finish", "save", "delete"}

ProcType ==
    [pc : Pcs,
     kind : {"none", "deploy", "start", "stop", "delete"},
     gen : Nat, has : BOOLEAN, st : [status : Statuses, cur : Nat], id : Nat]

\* The types, with no bound on the counters.
Types ==
    /\ gen \in Nat /\ up \in Nat /\ created \in Nat /\ nextId \in Nat
    /\ state \in [status : Statuses, cur : Nat]
    /\ recs \in [active : SUBSET Nat, ended : SUBSET Nat]
    /\ mu \subseteq Procs
    /\ disturbed \subseteq {"deletion", "operation"}
    /\ proc \in [Procs -> ProcType]

\* Which steps an operation of each kind has.
Course(r) ==
    /\ r.pc = "idle" <=> r.kind = "none"
    /\ r.pc \in {"lock", "insert", "failed", "rollback", "finish"} => r.kind = "deploy"
    /\ r.pc = "delete" => r.kind = "delete"

\* The mutex is held from TryLock to the end of Deploy, and by nothing else.
LockInv ==
    /\ \A p, q \in mu : p = q
    /\ \A p \in Procs : /\ Course(proc[p])
                        /\ p \in mu <=> proc[p].kind = "deploy" /\ proc[p].pc # "lock"

\* The holder of the mutex is between the two statements that open and close
\* the record.
RecordInv ==
    \A i \in recs.active :
        /\ mu # {}
        /\ \A p \in mu : proc[p].id = i /\ proc[p].pc \in {"mark", "compose", "failed", "finish"}

\* Unless a deletion was disturbed: it runs alone, leaves no containers, and
\* nothing runs for a project that is gone.
DeletionInv ==
    "deletion" \notin disturbed =>
        /\ \A p, q \in Procs : proc[p].kind = "delete" /\ ~Idle(q) => p = q
        /\ \A p \in Procs : proc[p].kind = "delete" /\ proc[p].pc \in {"save", "delete"} => up = 0
        /\ gen = 0 => up = 0 /\ AllIdle

\* A status that says something about the containers tells the truth.
Match(st) ==
    /\ st.status \in {"running", "rolled_back"} => up = gen
    /\ st.status = "stopped" => up = 0

\* Unless two operations ever overlapped, or a deletion was disturbed: one
\* operation at a time, of the project that is there, working on its own copy
\* of the state, which is true again when it is written back.
QuietInv ==
    disturbed = {} =>
        /\ \A p, q \in Procs : ~Idle(p) /\ ~Idle(q) => p = q
        /\ \A p \in Procs : ~Idle(p) =>
             /\ gen # 0 /\ proc[p].gen = gen
             /\ proc[p].pc \in {"lock", "get", "insert", "mark"} => Match(state)
             /\ proc[p].pc \notin {"lock", "get"} => proc[p].has
             /\ proc[p].pc \in {"failed", "rollback"} => proc[p].st.status = "failed"
             /\ proc[p].pc = "finish" => proc[p].st.status = "running" /\ up = gen
             /\ proc[p].pc = "save" => Match(proc[p].st)
        /\ AllIdle /\ gen # 0 => Match(state)

LifeInv == Types /\ LockInv /\ RecordInv /\ DeletionInv /\ QuietInv

-----------------------------------------------------------------------------
\* Steps change some fields of the record of one goroutine, which stays one.
LEMMA RecordUpdates ==
    ASSUME NEW r \in ProcType, NEW a \in Pcs
    PROVE  /\ \A b \in Statuses : [r EXCEPT !.pc = a, !.st.status = b] \in ProcType
           /\ \A g \in Nat : [r EXCEPT !.pc = a, !.st.cur = g] \in ProcType
           /\ \A st \in [status : Statuses, cur : Nat] :
                /\ [r EXCEPT !.pc = a, !.st = st] \in ProcType
                /\ \A x \in BOOLEAN : [r EXCEPT !.has = x, !.st = st, !.pc = a] \in ProcType
  <1>1. ASSUME NEW b \in Statuses
        PROVE  [r EXCEPT !.pc = a, !.st.status = b] \in ProcType
    <2>1. [r.st EXCEPT !.status = b] \in [status : Statuses, cur : Nat]
      BY DEF ProcType
    <2>2. [r EXCEPT !.pc = a, !.st = [r.st EXCEPT !.status = b]] \in ProcType
      BY <2>1 DEF ProcType
    <2>3. [r EXCEPT !.pc = a, !.st.status = b]
            = [r EXCEPT !.pc = a, !.st = [r.st EXCEPT !.status = b]]
      BY DEF ProcType
    <2> QED  BY <2>2, <2>3
  <1>2. ASSUME NEW g \in Nat
        PROVE  [r EXCEPT !.pc = a, !.st.cur = g] \in ProcType
    <2>1. [r.st EXCEPT !.cur = g] \in [status : Statuses, cur : Nat]
      BY DEF ProcType
    <2>2. [r EXCEPT !.pc = a, !.st = [r.st EXCEPT !.cur = g]] \in ProcType
      BY <2>1 DEF ProcType
    <2>3. [r EXCEPT !.pc = a, !.st.cur = g]
            = [r EXCEPT !.pc = a, !.st = [r.st EXCEPT !.cur = g]]
      BY DEF ProcType
    <2> QED  BY <2>2, <2>3
  <1>3. ASSUME NEW st \in [status : Statuses, cur : Nat]
        PROVE  [r EXCEPT !.pc = a, !.st = st] \in ProcType
    BY DEF ProcType
  <1>4. ASSUME NEW st \in [status : Statuses, cur : Nat], NEW x \in BOOLEAN
        PROVE  [r EXCEPT !.has = x, !.st = st, !.pc = a] \in ProcType
    BY DEF ProcType
  <1> QED  BY <1>1, <1>2, <1>3, <1>4

\* Changing two fields of one goroutine's record is replacing that record.
LEMMA NestedUpdate ==
    ASSUME NEW f \in [Procs -> ProcType], NEW p \in Procs, NEW a, NEW b
    PROVE  [f EXCEPT ![p].pc = a, ![p].st.status = b]
             = [f EXCEPT ![p] = [f[p] EXCEPT !.pc = a, !.st.status = b]]
  OBVIOUS

\* No step loses a type.
LEMMA TypesInductive == Types /\ [Next]_vars => Types'
  <1> SUFFICES ASSUME Types, [Next]_vars
               PROVE  Types'
    OBVIOUS
  <1> USE DEF Types
  <1>0. NoProc \in ProcType /\ NoState \in [status : Statuses, cur : Nat]
    BY DEF NoProc, NoState, ProcType, Pcs, Statuses
  <1>1. CASE CreateProject
    BY <1>0, <1>1 DEF CreateProject
  <1>2. ASSUME NEW p \in Procs, NEW kind \in {"deploy", "start", "stop", "delete"},
               Request(p, kind)
        PROVE  Types'
    BY <1>0, <1>2 DEF Request, ProcType, Pcs, NoProc, NoState, Statuses
  <1>3. ASSUME NEW p \in Procs, TryLock(p)
        PROVE  Types'
    BY <1>0, <1>3 DEF TryLock, Goto, End, counters, ProcType, Pcs
  <1>4. ASSUME NEW p \in Procs, GetState(p)
        PROVE  Types'
    <2>1. CASE proc[p].kind = "deploy" /\ gen = 0
      BY <1>0, <1>4, <2>1 DEF GetState, End, counters
    <2>2. CASE ~(proc[p].kind = "deploy" /\ gen = 0)
      <3> DEFINE a == IF proc[p].kind = "deploy" THEN "insert" ELSE "mark"
                 r == [proc[p] EXCEPT !.has = (gen # 0), !.st = state, !.pc = a]
      <3>1. r \in ProcType
        BY RecordUpdates DEF Pcs
      <3>2. proc' = [proc EXCEPT ![p] = r]
        BY <1>4, <2>2 DEF GetState
      <3> QED  BY <1>4, <2>2, <3>1, <3>2 DEF GetState, counters
    <2> QED  BY <2>1, <2>2
  <1>5. ASSUME NEW p \in Procs, InsertDeployment(p)
        PROVE  Types'
    BY <1>0, <1>5 DEF InsertDeployment, End, ProcType, Pcs
  <1>6. ASSUME NEW p \in Procs, MarkBusy(p)
        PROVE  Types'
    <2> DEFINE st == [proc[p].st EXCEPT !.status = Busy(proc[p].kind)]
               r == [proc[p] EXCEPT !.pc = "compose", !.st = st]
    <2>1. st \in [status : Statuses, cur : Nat]
      BY DEF ProcType, Busy, Statuses
    <2>2. r \in ProcType
      BY <2>1, RecordUpdates DEF Pcs
    <2>3. proc' = [proc EXCEPT ![p] = r]
      BY <1>6 DEF MarkBusy
    <2> QED  BY <1>6, <2>1, <2>2, <2>3 DEF MarkBusy, UpdateState, counters
  <1>7. ASSUME NEW p \in Procs, Compose(p)
        PROVE  Types'
    <2> DEFINE a == IF proc[p].kind = "deploy" THEN "finish" ELSE "save"
               b == IF proc[p].kind \in {"stop", "delete"} THEN "stopped" ELSE "running"
               r == [proc[p] EXCEPT !.pc = a, !.st.status = b]
    <2>1. r \in ProcType
      BY RecordUpdates DEF Pcs, Statuses
    <2>2. proc' = [proc EXCEPT ![p] = r]
      BY <1>7 DEF Compose
    <2>3. proc[p].gen \in Nat
      BY DEF ProcType
    <2> QED  BY <1>7, <2>1, <2>2, <2>3 DEF Compose, counters
  <1>8. ASSUME NEW p \in Procs, ComposeFails(p)
        PROVE  Types'
    <2> DEFINE a == IF proc[p].kind = "deploy" THEN "failed" ELSE "save"
               b == "failed"
               r == [proc[p] EXCEPT !.pc = a, !.st.status = b]
    <2>1. proc' = [proc EXCEPT ![p].pc = a, ![p].st.status = b]
      BY <1>8 DEF ComposeFails
    <2>2. a \in Pcs /\ b \in Statuses
      BY DEF Pcs, Statuses
    <2> HIDE DEF b
    <2>3. r \in ProcType
      BY <2>2, RecordUpdates
    <2>4. proc' = [proc EXCEPT ![p] = r]
      BY <2>1, ZenonT(30)
    <2>5. proc[p].gen \in Nat
      BY DEF ProcType
    <2> HIDE DEF r
    <2>6. up' \in Nat
      BY <1>8, <2>5 DEF ComposeFails
    <2>7. proc' \in [Procs -> ProcType]
      BY <2>3, <2>4
    <2> QED  BY <1>8, <2>6, <2>7 DEF ComposeFails
  <1>9. ASSUME NEW p \in Procs, FinishFailed(p)
        PROVE  Types'
    BY <1>0, <1>9 DEF FinishFailed, EndRecord, Goto, counters, ProcType, Pcs
  <1>10. ASSUME NEW p \in Procs, Rollback(p)
        PROVE  Types'
    <2> DEFINE b == "rolled_back"
               r == [proc[p] EXCEPT !.pc = "save", !.st.status = b]
               s == [proc[p] EXCEPT !.pc = "save"]
    <2>1. \/ proc' = [proc EXCEPT ![p].pc = "save", ![p].st.status = b]
          \/ proc' = [proc EXCEPT ![p].pc = "save"]
      BY <1>10 DEF Rollback, Goto
    <2>2. b \in Statuses /\ "save" \in Pcs
      BY DEF Pcs, Statuses
    <2> HIDE DEF b
    <2>3. r \in ProcType
      BY <2>2, RecordUpdates
    <2>4. s \in ProcType /\ proc[p].gen \in Nat
      BY DEF ProcType, Pcs
    <2>5. proc' = [proc EXCEPT ![p] = r] \/ proc' = [proc EXCEPT ![p] = s]
      BY <2>1, NestedUpdate
    <2> HIDE DEF r, s
    <2> QED  BY <1>10, <2>3, <2>4, <2>5 DEF Rollback, counters
  <1>11. ASSUME NEW p \in Procs, FinishSuccess(p)
        PROVE  Types'
    <2> DEFINE r == [proc[p] EXCEPT !.pc = "save", !.st.cur = proc[p].gen]
    <2>1. proc[p].gen \in Nat
      BY DEF ProcType
    <2>2. r \in ProcType
      BY <2>1, RecordUpdates DEF Pcs
    <2>3. proc' = [proc EXCEPT ![p] = r]
      BY <1>11 DEF FinishSuccess
    <2> QED  BY <1>11, <2>2, <2>3 DEF FinishSuccess, EndRecord, counters
  <1>12. ASSUME NEW p \in Procs, Save(p)
        PROVE  Types'
    BY <1>0, <1>12 DEF Save, UpdateState, Goto, End, counters, ProcType, Pcs
  <1>13. ASSUME NEW p \in Procs, DeleteProject(p)
        PROVE  Types'
    BY <1>0, <1>13 DEF DeleteProject, End, counters
  <1>14. CASE UNCHANGED vars
    BY <1>14 DEF vars
  <1> QED  BY <1>1, <1>2, <1>3, <1>4, <1>5, <1>6, <1>7, <1>8, <1>9, <1>10, <1>11, <1>12,
              <1>13, <1>14 DEF Next, Step

\* A step changes the record of its own goroutine only.
LEMMA OthersStay ==
    ASSUME Types, NEW p \in Procs, NEW q \in Procs, q # p,
           Step(p) \/ \E kind \in {"deploy", "start", "stop", "delete"} : Request(p, kind)
    PROVE  proc'[q] = proc[q]
  <1>1. CASE TryLock(p) \/ GetState(p) \/ InsertDeployment(p)
    BY <1>1 DEF TryLock, GetState, InsertDeployment, Goto, End, Types
  <1>2. CASE MarkBusy(p)
    BY <1>2 DEF MarkBusy, Types
  <1>3. CASE Compose(p)
    BY <1>3 DEF Compose, Types
  <1>4. CASE ComposeFails(p)
    BY <1>4 DEF ComposeFails, Types
  <1>5. CASE FinishFailed(p) \/ FinishSuccess(p)
    BY <1>5 DEF FinishFailed, FinishSuccess, Goto, Types
  <1>6. CASE Rollback(p)
    BY <1>6 DEF Rollback, Goto, Types
  <1>7. CASE Save(p) \/ DeleteProject(p)
    BY <1>7 DEF Save, DeleteProject, Goto, End, Types
  <1>8. CASE \E kind \in {"deploy", "start", "stop", "delete"} : Request(p, kind)
    BY <1>8 DEF Request, Types
  <1> QED  BY <1>1, <1>2, <1>3, <1>4, <1>5, <1>6, <1>7, <1>8 DEF Step

\* The row is the same project's, and the operation of a goroutine stays what
\* it is and for the same project.
Untouched == gen' = gen /\ disturbed' = disturbed
Keeps(p) == proc'[p].kind = proc[p].kind /\ proc'[p].gen = proc[p].gen

\* Deploy is refused, or goes on with the mutex.
LEMMA TryLockMoves ==
    ASSUME Types, NEW p \in Procs, TryLock(p)
    PROVE  /\ proc[p].pc = "lock" /\ recs' = recs /\ Untouched /\ up' = up /\ state' = state
           /\ \/ proc'[p] = NoProc /\ mu' = mu
              \/ proc'[p].pc = "get" /\ Keeps(p) /\ mu = {} /\ mu' = {p}
  BY DEF TryLock, Goto, End, Untouched, Keeps, Types, ProcType

\* Deploy gives up without a row; otherwise the goroutine has the row.
LEMMA GetStateMoves ==
    ASSUME Types, NEW p \in Procs, GetState(p)
    PROVE  /\ proc[p].pc = "get" /\ recs' = recs /\ Untouched /\ up' = up /\ state' = state
           /\ \/ proc'[p] = NoProc /\ gen = 0 /\ proc[p].kind = "deploy" /\ mu' = mu \ {p}
              \/ /\ proc'[p].pc = IF proc[p].kind = "deploy" THEN "insert" ELSE "mark"
                 /\ Keeps(p) /\ (gen # 0 => proc'[p].has) /\ mu' = mu
  BY DEF GetState, End, Untouched, Keeps, Types, ProcType

\* Deploy gives up without a project; otherwise it knows its record.
LEMMA InsertDeploymentMoves ==
    ASSUME Types, NEW p \in Procs, InsertDeployment(p)
    PROVE  /\ proc[p].pc = "insert" /\ Untouched /\ up' = up /\ state' = state
           /\ \/ proc'[p] = NoProc /\ gen = 0 /\ recs' = recs /\ mu' = mu \ {p}
              \/ /\ proc'[p].pc = "mark" /\ proc'[p].id = nextId
                 /\ Keeps(p) /\ proc'[p].has = proc[p].has /\ mu' = mu
                 /\ recs'.active = recs.active \cup {nextId}
  BY DEF InsertDeployment, End, Untouched, Keeps, Types, ProcType

\* The operation goes on to its compose command.
LEMMA MarkBusyMoves ==
    ASSUME Types, NEW p \in Procs, MarkBusy(p)
    PROVE  /\ proc[p].pc = "mark" /\ recs' = recs /\ mu' = mu /\ Untouched /\ up' = up
           /\ proc'[p].pc = "compose" /\ proc'[p].id = proc[p].id
           /\ Keeps(p) /\ proc'[p].has = proc[p].has
  BY DEF MarkBusy, Untouched, Keeps, Types, ProcType

\* The status the operation will write is decided by its kind.
LEMMA ComposeMoves ==
    ASSUME Types, NEW p \in Procs, Compose(p)
    PROVE  /\ proc[p].pc = "compose" /\ recs' = recs /\ mu' = mu /\ Untouched /\ state' = state
           /\ proc'[p].pc = IF proc[p].kind = "deploy" THEN "finish" ELSE "save"
           /\ proc'[p].id = proc[p].id /\ Keeps(p) /\ proc'[p].has = proc[p].has
           /\ up' = IF proc[p].kind \in {"stop", "delete"} THEN 0 ELSE proc[p].gen
           /\ proc'[p].st.status = IF proc[p].kind \in {"stop", "delete"} THEN "stopped"
                                   ELSE "running"
  BY DEF Compose, Untouched, Keeps, Types, ProcType

\* The status it will write is failed.
LEMMA ComposeFailsMoves ==
    ASSUME Types, NEW p \in Procs, ComposeFails(p)
    PROVE  /\ proc[p].pc = "compose" /\ recs' = recs /\ mu' = mu /\ gen' = gen /\ state' = state
           /\ proc'[p].pc = IF proc[p].kind = "deploy" THEN "failed" ELSE "save"
           /\ proc'[p].id = proc[p].id /\ Keeps(p) /\ proc'[p].has = proc[p].has
           /\ disturbed \subseteq disturbed'
           /\ proc[p].kind = "delete" => "deletion" \in disturbed'
           /\ proc'[p].st.status = "failed"
  BY DEF ComposeFails, Keeps, Types, ProcType

\* A failed deployment closes its record and rolls back.
LEMMA FinishFailedMoves ==
    ASSUME Types, NEW p \in Procs, FinishFailed(p)
    PROVE  /\ proc[p].pc = "failed" /\ mu' = mu /\ Untouched /\ up' = up /\ state' = state
           /\ proc'[p].pc = "rollback" /\ Keeps(p) /\ proc'[p].has = proc[p].has
           /\ proc'[p].st.status = proc[p].st.status
           /\ recs'.active = recs.active \ {proc[p].id}
  BY DEF FinishFailed, EndRecord, Goto, Untouched, Keeps, Types, ProcType

\* Only a rollback whose compose up succeeded says so.
LEMMA RollbackMoves ==
    ASSUME Types, NEW p \in Procs, Rollback(p)
    PROVE  /\ proc[p].pc = "rollback" /\ recs' = recs /\ mu' = mu /\ Untouched /\ state' = state
           /\ proc'[p].pc = "save" /\ Keeps(p) /\ proc'[p].has = proc[p].has
           /\ \/ proc'[p].st.status = proc[p].st.status
              \/ proc'[p].st.status = "rolled_back" /\ up' = proc[p].gen
  BY DEF Rollback, Goto, Untouched, Keeps, Types, ProcType

\* A deployment that succeeded closes its record.
LEMMA FinishSuccessMoves ==
    ASSUME Types, NEW p \in Procs, FinishSuccess(p)
    PROVE  /\ proc[p].pc = "finish" /\ mu' = mu /\ Untouched /\ up' = up /\ state' = state
           /\ proc'[p].pc = "save" /\ Keeps(p) /\ proc'[p].has = proc[p].has
           /\ proc'[p].st.status = proc[p].st.status
           /\ recs'.active = recs.active \ {proc[p].id}
  BY DEF FinishSuccess, EndRecord, Untouched, Keeps, Types, ProcType

\* The operation ends, or goes on to delete the row.
LEMMA SaveMoves ==
    ASSUME Types, NEW p \in Procs, Save(p)
    PROVE  /\ proc[p].pc = "save" /\ recs' = recs /\ mu' = mu \ {p} /\ Untouched /\ up' = up
           /\ proc[p].has /\ gen # 0 => state' = proc[p].st
           /\ IF proc[p].kind = "delete"
              THEN proc'[p].pc = "delete" /\ Keeps(p) /\ proc'[p].has = proc[p].has
              ELSE proc'[p] = NoProc
  BY DEF Save, UpdateState, Goto, End, Untouched, Keeps, Types, ProcType

\* A deletion ends with nothing left of the row.
LEMMA DeleteProjectMoves ==
    ASSUME Types, NEW p \in Procs, DeleteProject(p)
    PROVE  /\ proc[p].pc = "delete" /\ proc'[p] = NoProc /\ mu' = mu /\ up' = up
           /\ gen' = 0 /\ disturbed' = disturbed /\ recs'.active = {}
  BY DEF DeleteProject, End, Types

\* A request begins at the mutex if it deploys, and with GetState otherwise.
LEMMA RequestMoves ==
    ASSUME Types, NEW p \in Procs, NEW kind \in {"deploy", "start", "stop", "delete"},
           Request(p, kind)
    PROVE  /\ proc[p].pc = "idle" /\ recs' = recs /\ mu' = mu /\ up' = up /\ state' = state
           /\ gen' = gen /\ gen # 0
           /\ proc'[p].pc = IF kind = "deploy" THEN "lock" ELSE "get"
           /\ proc'[p].kind = kind /\ proc'[p].gen = gen
           /\ disturbed \subseteq disturbed'
           /\ ~AllIdle => "operation" \in disturbed'
           /\ Deleting(p, kind) => "deletion" \in disturbed'
  BY DEF Request, NoProc, Types, Idle

-----------------------------------------------------------------------------
\* No step gives the mutex to two goroutines or to one that does not deploy,
\* or loses it before Deploy returns.
LEMMA LockInductive == Types /\ LockInv /\ [Next]_vars => LockInv'
  <1> SUFFICES ASSUME Types, LockInv, [Next]_vars
               PROVE  LockInv'
    OBVIOUS
  <1> USE DEF LockInv, Course, Keeps
  <1>0. mu \subseteq Procs /\ NoProc.pc = "idle" /\ NoProc.kind = "none"
    BY DEF NoProc, Types
  <1>1. CASE CreateProject
    BY <1>1 DEF CreateProject
  <1>2. ASSUME NEW p \in Procs, NEW kind \in {"deploy", "start", "stop", "delete"},
               Request(p, kind)
        PROVE  LockInv'
    <2>1. \A q \in Procs : q # p => proc'[q] = proc[q]
      BY <1>2, OthersStay
    <2> QED  BY <1>0, <1>2, <2>1, RequestMoves
  <1>3. ASSUME NEW p \in Procs, TryLock(p)
        PROVE  LockInv'
    <2>1. \A q \in Procs : q # p => proc'[q] = proc[q]
      BY <1>3, OthersStay DEF Step
    <2> QED  BY <1>0, <1>3, <2>1, TryLockMoves
  <1>4. ASSUME NEW p \in Procs, GetState(p)
        PROVE  LockInv'
    <2>1. \A q \in Procs : q # p => proc'[q] = proc[q]
      BY <1>4, OthersStay DEF Step
    <2> QED  BY <1>0, <1>4, <2>1, GetStateMoves
  <1>5. ASSUME NEW p \in Procs, InsertDeployment(p)
        PROVE  LockInv'
    <2>1. \A q \in Procs : q # p => proc'[q] = proc[q]
      BY <1>5, OthersStay DEF Step
    <2> QED  BY <1>0, <1>5, <2>1, InsertDeploymentMoves
  <1>6. ASSUME NEW p \in Procs, MarkBusy(p)
        PROVE  LockInv'
    <2>1. \A q \in Procs : q # p => proc'[q] = proc[q]
      BY <1>6, OthersStay DEF Step
    <2> QED  BY <1>0, <1>6, <2>1, MarkBusyMoves
  <1>7. ASSUME NEW p \in Procs, Compose(p)
        PROVE  LockInv'
    <2>1. \A q \in Procs : q # p => proc'[q] = proc[q]
      BY <1>7, OthersStay DEF Step
    <2> QED  BY <1>0, <1>7, <2>1, ComposeMoves
  <1>8. ASSUME NEW p \in Procs, ComposeFails(p)
        PROVE  LockInv'
    <2>1. \A q \in Procs : q # p => proc'[q] = proc[q]
      BY <1>8, OthersStay DEF Step
    <2> QED  BY <1>0, <1>8, <2>1, ComposeFailsMoves
  <1>9. ASSUME NEW p \in Procs, FinishFailed(p)
        PROVE  LockInv'
    <2>1. \A q \in Procs : q # p => proc'[q] = proc[q]
      BY <1>9, OthersStay DEF Step
    <2> QED  BY <1>0, <1>9, <2>1, FinishFailedMoves
  <1>10. ASSUME NEW p \in Procs, Rollback(p)
        PROVE  LockInv'
    <2>1. \A q \in Procs : q # p => proc'[q] = proc[q]
      BY <1>10, OthersStay DEF Step
    <2> QED  BY <1>0, <1>10, <2>1, RollbackMoves
  <1>11. ASSUME NEW p \in Procs, FinishSuccess(p)
        PROVE  LockInv'
    <2>1. \A q \in Procs : q # p => proc'[q] = proc[q]
      BY <1>11, OthersStay DEF Step
    <2> QED  BY <1>0, <1>11, <2>1, FinishSuccessMoves
  <1>12. ASSUME NEW p \in Procs, Save(p)
        PROVE  LockInv'
    <2>1. \A q \in Procs : q # p => proc'[q] = proc[q]
      BY <1>12, OthersStay DEF Step
    <2> QED  BY <1>0, <1>12, <2>1, SaveMoves
  <1>13. ASSUME NEW p \in Procs, DeleteProject(p)
        PROVE  LockInv'
    <2>1. \A q \in Procs : q # p => proc'[q] = proc[q]
      BY <1>13, OthersStay DEF Step
    <2> QED  BY <1>0, <1>13, <2>1, DeleteProjectMoves
  <1>14. CASE UNCHANGED vars
    BY <1>14 DEF vars
  <1> QED  BY <1>1, <1>2, <1>3, <1>4, <1>5, <1>6, <1>7, <1>8, <1>9, <1>10, <1>11, <1>12,
              <1>13, <1>14 DEF Next, Step

\* A record is closed, or its project deleted, before its owner releases the
\* mutex.
LEMMA RecordInductive == Types /\ LockInv /\ RecordInv /\ [Next]_vars => RecordInv'
  <1> SUFFICES ASSUME Types, LockInv, RecordInv, [Next]_vars
               PROVE  RecordInv'
    OBVIOUS
  <1> USE DEF LockInv, RecordInv, Course, Keeps
  <1>0. mu \subseteq Procs /\ NoProc.pc = "idle" /\ NoProc.kind = "none"
    BY DEF NoProc, Types
  <1>1. CASE CreateProject
    BY <1>1 DEF CreateProject
  <1>2. ASSUME NEW p \in Procs, NEW kind \in {"deploy", "start", "stop", "delete"},
               Request(p, kind)
        PROVE  RecordInv'
    <2>1. \A q \in Procs : q # p => proc'[q] = proc[q]
      BY <1>2, OthersStay
    <2> QED  BY <1>0, <1>2, <2>1, RequestMoves
  <1>3. ASSUME NEW p \in Procs, TryLock(p)
        PROVE  RecordInv'
    <2>1. \A q \in Procs : q # p => proc'[q] = proc[q]
      BY <1>3, OthersStay DEF Step
    <2> QED  BY <1>0, <1>3, <2>1, TryLockMoves
  <1>4. ASSUME NEW p \in Procs, GetState(p)
        PROVE  RecordInv'
    <2>1. \A q \in Procs : q # p => proc'[q] = proc[q]
      BY <1>4, OthersStay DEF Step
    <2> QED  BY <1>0, <1>4, <2>1, GetStateMoves
  <1>5. ASSUME NEW p \in Procs, InsertDeployment(p)
        PROVE  RecordInv'
    <2>1. \A q \in Procs : q # p => proc'[q] = proc[q]
      BY <1>5, OthersStay DEF Step
    <2> QED  BY <1>0, <1>5, <2>1, InsertDeploymentMoves
  <1>6. ASSUME NEW p \in Procs, MarkBusy(p)
        PROVE  RecordInv'
    <2>1. \A q \in Procs : q # p => proc'[q] = proc[q]
      BY <1>6, OthersStay DEF Step
    <2> QED  BY <1>0, <1>6, <2>1, MarkBusyMoves
  <1>7. ASSUME NEW p \in Procs, Compose(p)
        PROVE  RecordInv'
    <2>1. \A q \in Procs : q # p => proc'[q] = proc[q]
      BY <1>7, OthersStay DEF Step
    <2> QED  BY <1>0, <1>7, <2>1, ComposeMoves
  <1>8. ASSUME NEW p \in Procs, ComposeFails(p)
        PROVE  RecordInv'
    <2>1. \A q \in Procs : q # p => proc'[q] = proc[q]
      BY <1>8, OthersStay DEF Step
    <2> QED  BY <1>0, <1>8, <2>1, ComposeFailsMoves
  <1>9. ASSUME NEW p \in Procs, FinishFailed(p)
        PROVE  RecordInv'
    <2>1. \A q \in Procs : q # p => proc'[q] = proc[q]
      BY <1>9, OthersStay DEF Step
    <2> QED  BY <1>0, <1>9, <2>1, FinishFailedMoves
  <1>10. ASSUME NEW p \in Procs, Rollback(p)
        PROVE  RecordInv'
    <2>1. \A q \in Procs : q # p => proc'[q] = proc[q]
      BY <1>10, OthersStay DEF Step
    <2> QED  BY <1>0, <1>10, <2>1, RollbackMoves
  <1>11. ASSUME NEW p \in Procs, FinishSuccess(p)
        PROVE  RecordInv'
    <2>1. \A q \in Procs : q # p => proc'[q] = proc[q]
      BY <1>11, OthersStay DEF Step
    <2> QED  BY <1>0, <1>11, <2>1, FinishSuccessMoves
  <1>12. ASSUME NEW p \in Procs, Save(p)
        PROVE  RecordInv'
    <2>1. \A q \in Procs : q # p => proc'[q] = proc[q]
      BY <1>12, OthersStay DEF Step
    <2> QED  BY <1>0, <1>12, <2>1, SaveMoves
  <1>13. ASSUME NEW p \in Procs, DeleteProject(p)
        PROVE  RecordInv'
    <2>1. \A q \in Procs : q # p => proc'[q] = proc[q]
      BY <1>13, OthersStay DEF Step
    <2> QED  BY <1>0, <1>13, <2>1, DeleteProjectMoves
  <1>14. CASE UNCHANGED vars
    BY <1>14 DEF vars
  <1> QED  BY <1>1, <1>2, <1>3, <1>4, <1>5, <1>6, <1>7, <1>8, <1>9, <1>10, <1>11, <1>12,
              <1>13, <1>14 DEF Next, Step

\* As long as nothing overlaps a deletion, it leaves no containers.
LEMMA DeletionInductive == Types /\ LockInv /\ DeletionInv /\ [Next]_vars => DeletionInv'
  <1> SUFFICES ASSUME Types, LockInv, DeletionInv, [Next]_vars
               PROVE  DeletionInv'
    OBVIOUS
  <1> USE DEF LockInv, DeletionInv, Deleting, Course, Keeps, Idle, AllIdle, Untouched
  <1>0. mu \subseteq Procs /\ NoProc.pc = "idle" /\ NoProc.kind = "none"
    BY DEF NoProc, Types
  <1>1. CASE CreateProject
    BY <1>1 DEF CreateProject, Types
  <1>2. ASSUME NEW p \in Procs, NEW kind \in {"deploy", "start", "stop", "delete"},
               Request(p, kind)
        PROVE  DeletionInv'
    <2>1. \A q \in Procs : q # p => proc'[q] = proc[q]
      BY <1>2, OthersStay
    <2> QED  BY <1>0, <1>2, <2>1, RequestMoves
  <1>3. ASSUME NEW p \in Procs, TryLock(p)
        PROVE  DeletionInv'
    <2>1. \A q \in Procs : q # p => proc'[q] = proc[q]
      BY <1>3, OthersStay DEF Step
    <2> QED  BY <1>0, <1>3, <2>1, TryLockMoves
  <1>4. ASSUME NEW p \in Procs, GetState(p)
        PROVE  DeletionInv'
    <2>1. \A q \in Procs : q # p => proc'[q] = proc[q]
      BY <1>4, OthersStay DEF Step
    <2> QED  BY <1>0, <1>4, <2>1, GetStateMoves
  <1>5. ASSUME NEW p \in Procs, InsertDeployment(p)
        PROVE  DeletionInv'
    <2>1. \A q \in Procs : q # p => proc'[q] = proc[q]
      BY <1>5, OthersStay DEF Step
    <2> QED  BY <1>0, <1>5, <2>1, InsertDeploymentMoves
  <1>6. ASSUME NEW p \in Procs, MarkBusy(p)
        PROVE  DeletionInv'
    <2>1. \A q \in Procs : q # p => proc'[q] = proc[q]
      BY <1>6, OthersStay DEF Step
    <2> QED  BY <1>0, <1>6, <2>1, MarkBusyMoves
  <1>7. ASSUME NEW p \in Procs, Compose(p)
        PROVE  DeletionInv'
    <2>1. \A q \in Procs : q # p => proc'[q] = proc[q]
      BY <1>7, OthersStay DEF Step
    <2> QED  BY <1>0, <1>7, <2>1, ComposeMoves
  <1>8. ASSUME NEW p \in Procs, ComposeFails(p)
        PROVE  DeletionInv'
    <2>1. \A q \in Procs : q # p => proc'[q] = proc[q]
      BY <1>8, OthersStay DEF Step
    <2> QED  BY <1>0, <1>8, <2>1, ComposeFailsMoves
  <1>9. ASSUME NEW p \in Procs, FinishFailed(p)
        PROVE  DeletionInv'
    <2>1. \A q \in Procs : q # p => proc'[q] = proc[q]
      BY <1>9, OthersStay DEF Step
    <2> QED  BY <1>0, <1>9, <2>1, FinishFailedMoves
  <1>10. ASSUME NEW p \in Procs, Rollback(p)
        PROVE  DeletionInv'
    <2>1. \A q \in Procs : q # p => proc'[q] = proc[q]
      BY <1>10, OthersStay DEF Step
    <2> QED  BY <1>0, <1>10, <2>1, RollbackMoves
  <1>11. ASSUME NEW p \in Procs, FinishSuccess(p)
        PROVE  DeletionInv'
    <2>1. \A q \in Procs : q # p => proc'[q] = proc[q]
      BY <1>11, OthersStay DEF Step
    <2> QED  BY <1>0, <1>11, <2>1, FinishSuccessMoves
  <1>12. ASSUME NEW p \in Procs, Save(p)
        PROVE  DeletionInv'
    <2>1. \A q \in Procs : q # p => proc'[q] = proc[q]
      BY <1>12, OthersStay DEF Step
    <2> QED  BY <1>0, <1>12, <2>1, SaveMoves
  <1>13. ASSUME NEW p \in Procs, DeleteProject(p)
        PROVE  DeletionInv'
    <2>1. \A q \in Procs : q # p => proc'[q] = proc[q]
      BY <1>13, OthersStay DEF Step
    <2> QED  BY <1>0, <1>13, <2>1, DeleteProjectMoves
  <1>14. CASE UNCHANGED vars
    BY <1>14 DEF vars
  <1> QED  BY <1>1, <1>2, <1>3, <1>4, <1>5, <1>6, <1>7, <1>8, <1>9, <1>10, <1>11, <1>12,
              <1>13, <1>14 DEF Next, Step

\* As long as operations do not overlap, the status they leave is true.
LEMMA QuietInductive == Types /\ LockInv /\ QuietInv /\ [Next]_vars => QuietInv'
  <1> SUFFICES ASSUME Types, LockInv, QuietInv, [Next]_vars
               PROVE  QuietInv'
    OBVIOUS
  <1> USE DEF LockInv, QuietInv, Course, Keeps, Idle, AllIdle, Untouched, Match
  <1>0. mu \subseteq Procs /\ NoProc.pc = "idle" /\ NoProc.kind = "none"
    BY DEF NoProc, Types
  <1>1. CASE CreateProject
    BY <1>1 DEF CreateProject, NoState, Types
  <1>2. ASSUME NEW p \in Procs, NEW kind \in {"deploy", "start", "stop", "delete"},
               Request(p, kind)
        PROVE  QuietInv'
    <2>1. \A q \in Procs : q # p => proc'[q] = proc[q]
      BY <1>2, OthersStay
    <2> QED  BY <1>0, <1>2, <2>1, RequestMoves
  <1>3. ASSUME NEW p \in Procs, TryLock(p)
        PROVE  QuietInv'
    <2>1. \A q \in Procs : q # p => proc'[q] = proc[q]
      BY <1>3, OthersStay DEF Step
    <2> QED  BY <1>0, <1>3, <2>1, TryLockMoves
  <1>4. ASSUME NEW p \in Procs, GetState(p)
        PROVE  QuietInv'
    <2>1. \A q \in Procs : q # p => proc'[q] = proc[q]
      BY <1>4, OthersStay DEF Step
    <2> QED  BY <1>0, <1>4, <2>1, GetStateMoves
  <1>5. ASSUME NEW p \in Procs, InsertDeployment(p)
        PROVE  QuietInv'
    <2>1. \A q \in Procs : q # p => proc'[q] = proc[q]
      BY <1>5, OthersStay DEF Step
    <2> QED  BY <1>0, <1>5, <2>1, InsertDeploymentMoves
  <1>6. ASSUME NEW p \in Procs, MarkBusy(p)
        PROVE  QuietInv'
    <2>1. \A q \in Procs : q # p => proc'[q] = proc[q]
      BY <1>6, OthersStay DEF Step
    <2> QED  BY <1>0, <1>6, <2>1, MarkBusyMoves
  <1>7. ASSUME NEW p \in Procs, Compose(p)
        PROVE  QuietInv'
    <2>1. \A q \in Procs : q # p => proc'[q] = proc[q]
      BY <1>7, OthersStay DEF Step
    <2> QED  BY <1>0, <1>7, <2>1, ComposeMoves
  <1>8. ASSUME NEW p \in Procs, ComposeFails(p)
        PROVE  QuietInv'
    <2>1. \A q \in Procs : q # p => proc'[q] = proc[q]
      BY <1>8, OthersStay DEF Step
    <2> QED  BY <1>0, <1>8, <2>1, ComposeFailsMoves
  <1>9. ASSUME NEW p \in Procs, FinishFailed(p)
        PROVE  QuietInv'
    <2>1. \A q \in Procs : q # p => proc'[q] = proc[q]
      BY <1>9, OthersStay DEF Step
    <2> QED  BY <1>0, <1>9, <2>1, FinishFailedMoves
  <1>10. ASSUME NEW p \in Procs, Rollback(p)
        PROVE  QuietInv'
    <2>1. \A q \in Procs : q # p => proc'[q] = proc[q]
      BY <1>10, OthersStay DEF Step
    <2> QED  BY <1>0, <1>10, <2>1, RollbackMoves
  <1>11. ASSUME NEW p \in Procs, FinishSuccess(p)
        PROVE  QuietInv'
    <2>1. \A q \in Procs : q # p => proc'[q] = proc[q]
      BY <1>11, OthersStay DEF Step
    <2> QED  BY <1>0, <1>11, <2>1, FinishSuccessMoves
  <1>12. ASSUME NEW p \in Procs, Save(p)
        PROVE  QuietInv'
    <2>1. \A q \in Procs : q # p => proc'[q] = proc[q]
      BY <1>12, OthersStay DEF Step
    <2> QED  BY <1>0, <1>12, <2>1, SaveMoves
  <1>13. ASSUME NEW p \in Procs, DeleteProject(p)
        PROVE  QuietInv'
    <2>1. \A q \in Procs : q # p => proc'[q] = proc[q]
      BY <1>13, OthersStay DEF Step
    <2> QED  BY <1>0, <1>13, <2>1, DeleteProjectMoves
  <1>14. CASE UNCHANGED vars
    BY <1>14 DEF vars
  <1> QED  BY <1>1, <1>2, <1>3, <1>4, <1>5, <1>6, <1>7, <1>8, <1>9, <1>10, <1>11, <1>12,
              <1>13, <1>14 DEF Next, Step

-----------------------------------------------------------------------------
\* An empty database and no operation satisfy the invariant.
LEMMA InitInv == Init => LifeInv
  <1> SUFFICES ASSUME Init
               PROVE  LifeInv
    OBVIOUS
  <1>1. /\ NoProc \in ProcType /\ NoState \in [status : Statuses, cur : Nat]
        /\ NoProc.pc = "idle" /\ NoProc.kind = "none"
    BY DEF NoProc, NoState, ProcType, Pcs, Statuses
  <1>2. Types
    BY <1>1 DEF Init, Types
  <1> QED  BY <1>1, <1>2 DEF Init, LifeInv, LockInv, Course, RecordInv, DeletionInv,
              QuietInv, Idle, AllIdle

\* The invariant holds in every reachable state.
LEMMA Invariance == Spec => []LifeInv
  <1>1. LifeInv /\ [Next]_vars => LifeInv'
    BY TypesInductive, LockInductive, RecordInductive, DeletionInductive, QuietInductive
       DEF LifeInv
  <1> QED  BY <1>1, InitInv, PTL DEF Spec

\* A deployment in progress belongs to the goroutine that holds the mutex, over
\* any number of deletions and new projects of its id.
THEOREM RecordsOwned == Spec => []RecordsAreOwned
  <1>1. LifeInv => RecordsAreOwned
    BY DEF LifeInv, RecordInv, RecordsAreOwned
  <1> QED  BY <1>1, Invariance, PTL

\* A project that is deleted while nothing overlaps the deletion, by a compose
\* down that succeeds, leaves no containers.
THEOREM NoContainersLeft == Spec => []NothingLeftBehind
  <1>1. LifeInv => NothingLeftBehind
    BY DEF LifeInv, DeletionInv, NothingLeftBehind
  <1> QED  BY <1>1, Invariance, PTL

\* Operations that do not overlap leave a status that tells the truth about
\* the containers.
THEOREM StatusTrue == Spec => []StatusMatchesHost
  <1>1. LifeInv => StatusMatchesHost
    BY DEF LifeInv, QuietInv, Match, StatusMatchesHost
  <1> QED  BY <1>1, Invariance, PTL

-----------------------------------------------------------------------------
(***************************************************************************)
(* Transfer: exporting a project to a bundle and importing it on another   *)
(* host, for any number and size of files, any paths and any number of     *)
(* changes, imports and failures.                                          *)
(***************************************************************************)
Entries == [file : Files, declared : Nat, written : Nat]

\* The types, with no bound on sizes and counters.
BundleTypes ==
    /\ size \in [Files -> Nat]
    /\ pc \in {"store", "start", "stat", "copy", "failed", "ended"}
    /\ next \in 1..(NFiles + 1) /\ hdr \in Nat
    /\ tar \in Seq(Entries)
    /\ out \in {"none", "open", "kept", "removed"}
    /\ pos \in Nat /\ changes \in Nat
    /\ disk \in [Files -> {"none", "torn", "whole"}]

Whole(e) == e.written = e.declared

\* The entries come in the order of the walk, and only the last may be
\* incomplete; a header is written after a complete one only.
TarInv ==
    /\ \A i, j \in DOMAIN tar : i < j => tar[i].file < tar[j].file /\ Whole(tar[i])
    /\ \A i \in DOMAIN tar : tar[i].file < next
    /\ pc = "copy" => next <= NFiles /\ \A i \in DOMAIN tar : Whole(tar[i])

\* The bundle is written while the file is open and never changes afterwards.
OutInv ==
    /\ out = "none" <=> pc \in {"store", "start"}
    /\ out = "none" => next = 1 /\ tar = <<>>
    /\ out = "open" <=> pc \in {"stat", "copy", "failed"}
    /\ out = "kept" => trailer = LastComplete

\* Only a kept bundle is imported.  What an import has passed is on the disk,
\* whatever earlier imports left there.
ImportInv ==
    /\ imp # "none" => out = "kept"
    /\ imp = "extract" =>
         \A i \in DOMAIN tar : i < pos => Whole(tar[i]) /\ disk[tar[i].file] = "whole"
    /\ imp = "ok" => \A i \in DOMAIN tar : Whole(tar[i]) /\ disk[tar[i].file] = "whole"

\* While the containers change nothing, the walk meets no error, and the files
\* it has passed are in the bundle.
UndisturbedInv ==
    changes = 0 =>
      /\ gone = {} /\ pc # "failed"
      /\ pc = "copy" => hdr = size[next]
      /\ \A i \in DOMAIN tar : Whole(tar[i])
      /\ out = "kept" => next = NFiles + 1
      /\ EntryName(host) # <<>> =>
           \A f \in Files : f < next /\ out # "removed" => \E i \in DOMAIN tar : tar[i].file = f

BundleInv == BundleTypes /\ TarInv /\ OutInv /\ ImportInv /\ UndisturbedInv

\* What the steps of Transfer leave alone.
LEMMA BundleTypesStep ==
    ASSUME NFiles \in Nat \ {0}, MaxSize \in Nat, BundleInv, [TransferNext]_transferVars
    PROVE  BundleTypes'
<1> USE DEF BundleInv, BundleTypes, Files, src, export, target
<1>1. CASE \E f \in Files : Change(f)
  <2>1. size' \in [Files -> Nat] /\ changes' \in Nat
    BY <1>1 DEF Change
  <2> QED  BY <1>1, <2>1 DEF Change
<1>2. CASE Store
  BY <1>2 DEF Store
<1>3. CASE Pack
  BY <1>3 DEF Pack
<1>4. CASE PackStat
  BY <1>4 DEF PackStat
<1>5. CASE PackCopy
  <2>1. next \in Files /\ size[next] \in Nat
    BY <1>5 DEF PackCopy, TarInv
  <2> DEFINE bytes == IF next \in gone THEN 0 ELSE Least(size[next], hdr)
  <2>2. bytes \in Nat
    BY <2>1 DEF Least
  <2> DEFINE e == [file |-> next, declared |-> hdr, written |-> bytes]
  <2>3. e \in Entries
    BY <2>1, <2>2 DEF Entries
  <2>4. tar' = Append(tar, e)
    BY <1>5 DEF PackCopy
  <2> HIDE DEF e
  <2>5. tar' \in Seq(Entries)
    BY <2>3, <2>4
  <2> QED  BY <1>5, <2>1, <2>5 DEF PackCopy
<1>6. CASE PackEnd
  BY <1>6 DEF PackEnd
<1>7. CASE writeNewFileFails
  BY <1>7 DEF writeNewFileFails
<1>8. CASE ImportBegin
  BY <1>8 DEF ImportBegin
<1>9. CASE ImportEntry
  BY <1>9 DEF ImportEntry
<1>10. CASE ImportFails
  BY <1>10 DEF ImportFails
<1>11. CASE ImportEnd
  BY <1>11 DEF ImportEnd
<1>12. CASE UNCHANGED transferVars
  BY <1>12 DEF transferVars
<1> QED  BY <1>1, <1>2, <1>3, <1>4, <1>5, <1>6, <1>7, <1>8, <1>9, <1>10, <1>11, <1>12 DEF TransferNext

\* The entry that addFileToTar adds, and where the others stay.
LEMMA PackCopyTar ==
    ASSUME NFiles \in Nat \ {0}, BundleInv, PackCopy
    PROVE  /\ Len(tar) \in Nat /\ DOMAIN tar = 1..Len(tar) /\ DOMAIN tar' = 1..(Len(tar) + 1)
           /\ \A i \in DOMAIN tar : tar'[i] = tar[i]
           /\ tar'[Len(tar) + 1].file = next
           /\ changes = 0 => Whole(tar'[Len(tar) + 1])
           /\ next \in Files
<1>1. next \in Files /\ size[next] \in Nat /\ hdr \in Nat
  BY DEF PackCopy, BundleInv, TarInv, BundleTypes, Files
<1> DEFINE bytes == IF next \in gone THEN 0 ELSE Least(size[next], hdr)
           e == [file |-> next, declared |-> hdr, written |-> bytes]
<1>2. tar' = Append(tar, e) /\ tar \in Seq(Entries)
  BY DEF PackCopy, BundleInv, BundleTypes
<1>3. changes = 0 => bytes = hdr
  BY <1>1 DEF PackCopy, BundleInv, UndisturbedInv, Least
<1>4. e.file = next /\ (changes = 0 => Whole(e))
  BY <1>3 DEF Whole
<1> HIDE DEF e
<1>5. /\ Len(tar) \in Nat /\ DOMAIN tar = 1..Len(tar) /\ DOMAIN tar' = 1..(Len(tar) + 1)
      /\ \A i \in DOMAIN tar : tar'[i] = tar[i]
      /\ tar'[Len(tar) + 1] = e
  BY <1>2
<1> QED  BY <1>1, <1>4, <1>5

\* addFileToTar keeps the order of the entries.
LEMMA TarStep ==
    ASSUME NFiles \in Nat \ {0}, BundleInv, [TransferNext]_transferVars
    PROVE  TarInv'
<1> USE DEF TarInv, src, export, target
<1>0. /\ TarInv /\ next \in 1..(NFiles + 1) /\ tar \in Seq(Entries)
      /\ \A i \in DOMAIN tar : tar[i].file \in Nat
  <2>1. tar \in Seq(Entries) /\ TarInv /\ next \in 1..(NFiles + 1)
    BY DEF BundleInv, BundleTypes
  <2>2. \A i \in DOMAIN tar : tar[i] \in Entries
    BY <2>1
  <2>3. \A e \in Entries : e.file \in Nat
    BY DEF Entries, Files
  <2> QED  BY <2>1, <2>2, <2>3
<1>1. CASE PackCopy
  <2>1. /\ Len(tar) \in Nat /\ DOMAIN tar = 1..Len(tar) /\ DOMAIN tar' = 1..(Len(tar) + 1)
        /\ \A i \in DOMAIN tar : tar'[i] = tar[i]
        /\ tar'[Len(tar) + 1].file = next
    BY <1>1, PackCopyTar
  <2>2. /\ next' = next + 1 /\ pc' # "copy"
        /\ \A i \in DOMAIN tar : Whole(tar[i])
    BY <1>0, <1>1 DEF PackCopy
  <2>3. \A i \in DOMAIN tar' : i \in DOMAIN tar \/ i = Len(tar) + 1
    BY <2>1
  <2>4. \A i, j \in DOMAIN tar' : i < j => i \in DOMAIN tar
    BY <2>1
  <2>5. \A i \in DOMAIN tar' : tar'[i].file < next'
    BY <1>0, <2>1, <2>2, <2>3
  <2>6. ASSUME NEW i \in DOMAIN tar', NEW j \in DOMAIN tar', i < j
        PROVE  tar'[i].file < tar'[j].file /\ Whole(tar'[i])
    <3>1. i \in DOMAIN tar /\ tar'[i] = tar[i]
      BY <2>1, <2>4, <2>6
    <3>2. CASE j \in DOMAIN tar
      BY <1>0, <2>1, <2>6, <3>1, <3>2
    <3>3. CASE j = Len(tar) + 1
      BY <1>0, <2>1, <2>2, <3>1, <3>3
    <3> QED  BY <2>3, <3>2, <3>3
  <2> QED  BY <2>2, <2>5, <2>6
<1>2. CASE PackStat
  <2>1. tar' = tar /\ next' >= next
    BY <1>0, <1>2 DEF PackStat
  <2>2. \A i \in DOMAIN tar' : tar'[i].file < next'
    <3>1. next' \in Nat /\ next \in Nat
      BY <1>0, <1>2 DEF PackStat
    <3> QED  BY <1>0, <2>1, <3>1
  <2>3. pc' = "copy" => next' <= NFiles /\ \A i \in DOMAIN tar : Whole(tar[i])
    <3>1. pc' = "copy" => LastComplete /\ next' = next /\ next <= NFiles
      BY <1>2 DEF PackStat
    <3>2. LastComplete => \A i \in DOMAIN tar : Whole(tar[i])
      <4> SUFFICES ASSUME LastComplete, NEW i \in DOMAIN tar PROVE Whole(tar[i])
        OBVIOUS
      <4>1. DOMAIN tar = 1..Len(tar) /\ Len(tar) \in Nat
        BY <1>0
      <4>2. CASE i = Len(tar)
        BY <4>2 DEF LastComplete, Whole
      <4>3. CASE i < Len(tar)
        BY <1>0, <4>1, <4>3
      <4> QED  BY <4>1, <4>2, <4>3
    <3> QED  BY <3>1, <3>2
  <2> QED  BY <1>0, <2>1, <2>2, <2>3
<1>3. CASE Pack
  <2>1. tar = <<>> /\ tar' = tar /\ pc' # "copy"
    BY <1>3 DEF Pack, BundleInv, OutInv
  <2> QED  BY <2>1
<1>4. CASE ~PackCopy /\ ~PackStat /\ ~Pack
  <2>1. /\ tar' = tar /\ next' = next
        /\ pc' = "copy" => pc = "copy"
    BY <1>4 DEF TransferNext, Change, Store, PackEnd, writeNewFileFails, ImportBegin,
            ImportEntry, ImportFails, ImportEnd, transferVars
  <2> QED  BY <1>0, <2>1
<1> QED  BY <1>1, <1>2, <1>3, <1>4

\* The export writes to an open file, and closes it once.
LEMMA OutStep ==
    ASSUME BundleInv, [TransferNext]_transferVars
    PROVE  OutInv'
<1> USE DEF OutInv, src, export, target
<1>0. /\ OutInv /\ out \in {"none", "open", "kept", "removed"}
      /\ pc \in {"store", "start", "stat", "copy", "failed", "ended"}
  BY DEF BundleInv, BundleTypes
<1>1. CASE \E f \in Files : Change(f)
  BY <1>0, <1>1 DEF Change, LastComplete
<1>2. CASE Store
  BY <1>0, <1>2 DEF Store, LastComplete
<1>3. CASE Pack
  BY <1>0, <1>3 DEF Pack, LastComplete
<1>4. CASE PackStat
  BY <1>0, <1>4 DEF PackStat, LastComplete
<1>5. CASE PackCopy
  BY <1>0, <1>5 DEF PackCopy, LastComplete
<1>6. CASE PackEnd
  BY <1>0, <1>6 DEF PackEnd, LastComplete
<1>7. CASE writeNewFileFails
  BY <1>0, <1>7 DEF writeNewFileFails
<1>8. CASE ImportBegin \/ ImportEntry \/ ImportFails \/ ImportEnd \/ UNCHANGED transferVars
  <2>1. UNCHANGED <<pc, next, tar, trailer, out>>
    BY <1>8 DEF ImportBegin, ImportEntry, ImportFails, ImportEnd, transferVars
  <2> QED  BY <1>0, <2>1 DEF LastComplete
<1> QED  BY <1>1, <1>2, <1>3, <1>4, <1>5, <1>6, <1>7, <1>8 DEF TransferNext

\* streamTarFile writes what it has read, entry by entry.
LEMMA ImportStep ==
    ASSUME NFiles \in Nat \ {0}, BundleInv, [TransferNext]_transferVars
    PROVE  ImportInv'
<1> USE DEF ImportInv, src, export, target
<1>0. /\ ImportInv /\ pos \in Nat /\ tar \in Seq(Entries)
      /\ disk \in [Files -> {"none", "torn", "whole"}]
      /\ Len(tar) \in Nat /\ DOMAIN tar = 1..Len(tar)
      /\ \A i \in DOMAIN tar : tar[i].file \in Files
      /\ \A i \in Files : i \in Nat
      /\ \A i, j \in DOMAIN tar : i < j => tar[i].file < tar[j].file
      /\ (out = "none" \/ out = "open") => imp = "none"
      /\ pc # "ended" => out = "none" \/ out = "open"
  <2>1. tar \in Seq(Entries)
    BY DEF BundleInv, BundleTypes
  <2>2. Len(tar) \in Nat /\ DOMAIN tar = 1..Len(tar) /\ \A i \in DOMAIN tar : tar[i] \in Entries
    BY <2>1
  <2>3. \A e \in Entries : e.file \in Files
    BY DEF Entries
  <2>4. \A i \in Files : i \in Nat
    BY DEF Files
  <2>5. \A i, j \in DOMAIN tar : i < j => tar[i].file < tar[j].file
    BY DEF BundleInv, TarInv
  <2> QED  BY <2>1, <2>2, <2>3, <2>4, <2>5 DEF BundleInv, BundleTypes, OutInv
<1>1. CASE \E f \in Files : Change(f)
  <2>1. UNCHANGED <<tar, out, imp, pos, disk>>
    BY <1>1 DEF Change
  <2> QED  BY <1>0, <2>1
<1>2. CASE Store \/ Pack \/ PackStat \/ PackCopy \/ PackEnd \/ writeNewFileFails
  <2>1. imp = "none" /\ imp' = imp
    BY <1>0, <1>2 DEF Store, Pack, PackStat, PackCopy, PackEnd, writeNewFileFails
  <2> QED  BY <2>1
<1>3. CASE ImportBegin
  <2>1. UNCHANGED <<tar, out, disk>> /\ imp' = "extract" /\ pos' = 1 /\ out = "kept"
    BY <1>3 DEF ImportBegin
  <2> QED  BY <1>0, <2>1
<1>4. CASE ImportEntry
  <2>1. /\ UNCHANGED <<tar, out>> /\ imp = "extract" /\ pos <= Len(tar)
    BY <1>4 DEF ImportEntry
  <2>2. CASE ~Whole(tar[pos])
    <3>1. imp' = "refused"
      BY <1>4, <2>2 DEF ImportEntry, Whole
    <3> QED  BY <1>0, <2>1, <3>1
  <2>3. CASE Whole(tar[pos])
    <3>1. disk' = [disk EXCEPT ![tar[pos].file] = "whole"] /\ pos' = pos + 1 /\ imp' = imp
      BY <1>4, <2>3 DEF ImportEntry, Whole
    <3>2. ASSUME NEW i \in DOMAIN tar, i < pos'
          PROVE  Whole(tar[i]) /\ disk'[tar[i].file] = "whole"
      <4>1. i < pos \/ i = pos
        BY <1>0, <3>1, <3>2
      <4>2. disk[tar[i].file] = "whole" => disk'[tar[i].file] = "whole"
        BY <1>0, <3>1
      <4>3. CASE i < pos
        BY <1>0, <2>1, <4>2, <4>3
      <4>4. CASE i = pos
        BY <1>0, <2>3, <3>1, <4>4
      <4> QED  BY <4>1, <4>3, <4>4
    <3> QED  BY <1>0, <2>1, <3>1, <3>2
  <2> QED  BY <2>2, <2>3
<1>5. CASE ImportFails
  <2>1. UNCHANGED <<tar, out>> /\ imp = "extract" /\ imp' = "refused"
    BY <1>5 DEF ImportFails
  <2> QED  BY <1>0, <2>1
<1>6. CASE ImportEnd
  <2>1. UNCHANGED <<tar, out, disk>> /\ imp = "extract" /\ imp' # "extract" /\ pos = Len(tar) + 1
    BY <1>6 DEF ImportEnd
  <2>2. \A i \in DOMAIN tar : i < pos
    BY <1>0, <2>1
  <2> QED  BY <1>0, <2>1, <2>2
<1>7. CASE UNCHANGED transferVars
  <2>1. UNCHANGED <<tar, out, imp, pos, disk>>
    BY <1>7 DEF transferVars
  <2> QED  BY <1>0, <2>1
<1> QED  BY <1>1, <1>2, <1>3, <1>4, <1>5, <1>6, <1>7 DEF TransferNext

\* An undisturbed walk leaves out no file.
LEMMA UndisturbedStep ==
    ASSUME NFiles \in Nat \ {0}, BundleInv, [TransferNext]_transferVars
    PROVE  UndisturbedInv'
<1> USE DEF UndisturbedInv, src, export, target
<1> SUFFICES ASSUME changes' = 0 PROVE UndisturbedInv'
  OBVIOUS
<1>0. /\ UndisturbedInv /\ OutInv /\ TarInv /\ changes \in Nat /\ next \in 1..(NFiles + 1)
      /\ tar \in Seq(Entries) /\ \A f \in Files : f \in Nat /\ f >= 1
      /\ pc \in {"store", "start", "stat", "copy", "failed", "ended"}
  BY DEF BundleInv, BundleTypes, Files
<1>1. CASE \E f \in Files : Change(f)
  <2>1. changes' = changes + 1
    BY <1>1 DEF Change
  <2> QED  BY <1>0, <2>1
<1>2. CASE ~(\E f \in Files : Change(f))
  <2>0. changes = 0 /\ UNCHANGED <<size, gone>>
    BY <1>2 DEF TransferNext, Store, Pack, PackStat, PackCopy, PackEnd,
            writeNewFileFails, ImportBegin, ImportEntry, ImportFails, ImportEnd, transferVars
  <2>1. CASE Store
    <3>1. UNCHANGED <<size, gone, hdr, next, tar, out>> /\ pc' = "start" /\ next = 1 /\ out = "none"
      BY <1>0, <2>1 DEF Store, OutInv
    <3> QED  BY <1>0, <2>0, <3>1
  <2>2. CASE Pack
    <3>1. UNCHANGED <<size, gone, hdr, tar, host>> /\ pc' = "stat" /\ next = 1 /\ out' = "open"
      BY <1>0, <2>2 DEF Pack, OutInv
    <3>2. EntryName(host) # <<>> => next' = 1
      BY <2>2, <3>1 DEF Pack
    <3> QED  BY <1>0, <2>0, <3>1, <3>2
  <2>3. CASE PackStat
    <3>1. \A i \in DOMAIN tar : Whole(tar[i])
      BY <1>0, <2>0
    <3>2. LastComplete
      BY <3>1 DEF LastComplete, Whole
    <3>3. /\ UNCHANGED <<size, gone, tar, host, out, next>> /\ pc' = "copy" /\ hdr' = size[next]
          /\ out = "open"
      BY <1>0, <2>0, <2>3, <3>2 DEF PackStat, OutInv
    <3> QED  BY <1>0, <2>0, <3>3
  <2>4. CASE PackCopy
    <3>1. /\ Len(tar) \in Nat /\ DOMAIN tar = 1..Len(tar) /\ DOMAIN tar' = 1..(Len(tar) + 1)
          /\ \A i \in DOMAIN tar : tar'[i] = tar[i]
          /\ tar'[Len(tar) + 1].file = next
          /\ Whole(tar'[Len(tar) + 1])
          /\ next \in Files
      BY <2>0, <2>4, PackCopyTar
    <3>2. /\ UNCHANGED <<host, out>> /\ next' = next + 1 /\ out = "open" /\ pc = "copy"
      BY <1>0, <2>4 DEF PackCopy, OutInv
    <3>3. size[next] = hdr /\ gone = {}
      BY <1>0, <2>0, <3>2
    <3>4. pc' = "stat"
      <4>1. size[next] \in Nat
        BY <3>1 DEF BundleInv, BundleTypes
      <4>2. ~(size[next] > hdr)
        BY <3>3, <4>1
      <4> QED  BY <2>4, <3>3, <4>2 DEF PackCopy
    <3>5. \A i \in DOMAIN tar' : Whole(tar'[i])
      <4>1. \A i \in DOMAIN tar' : i \in DOMAIN tar \/ i = Len(tar) + 1
        BY <3>1
      <4>2. \A i \in DOMAIN tar : Whole(tar[i])
        BY <1>0, <2>0
      <4> QED  BY <3>1, <4>1, <4>2
    <3>6. ASSUME NEW f \in Files, f < next', EntryName(host) # <<>>
          PROVE  \E i \in DOMAIN tar' : tar'[i].file = f
      <4>1. f < next \/ f = next
        BY <1>0, <3>2, <3>6
      <4>2. CASE f < next
        <5>1. PICK i \in DOMAIN tar : tar[i].file = f
          BY <1>0, <2>0, <3>2, <3>6, <4>2
        <5>2. i \in DOMAIN tar' /\ tar'[i].file = f
          BY <3>1, <5>1
        <5> QED  BY <5>2
      <4>3. CASE f = next
        <5>1. Len(tar) + 1 \in DOMAIN tar'
          BY <3>1
        <5> QED  BY <3>1, <4>3, <5>1
      <4> QED  BY <4>1, <4>2, <4>3
    <3> QED  BY <2>0, <3>2, <3>3, <3>4, <3>5, <3>6
  <2>5. CASE PackEnd
    <3>1. pc # "failed" /\ gone = {}
      BY <1>0, <2>0
    <3>2. /\ UNCHANGED <<hdr, next, tar, host>> /\ next = NFiles + 1 /\ pc' = "ended" /\ out' = "kept"
          /\ out = "open"
      BY <1>0, <2>5, <3>1 DEF PackEnd, OutInv
    <3> QED  BY <1>0, <2>0, <3>2
  <2>6. CASE writeNewFileFails
    BY <1>0, <2>0, <2>6 DEF writeNewFileFails
  <2>7. CASE ImportBegin \/ ImportEntry \/ ImportFails \/ ImportEnd \/ UNCHANGED transferVars
    <3>1. UNCHANGED <<pc, hdr, next, tar, host, out>>
      BY <2>7 DEF ImportBegin, ImportEntry, ImportFails, ImportEnd, transferVars
    <3> QED  BY <1>0, <2>0, <3>1
  <2> QED  BY <1>2, <2>1, <2>2, <2>3, <2>4, <2>5, <2>6, <2>7 DEF TransferNext
<1> QED  BY <1>1, <1>2

\* The inductive invariant of Transfer.
THEOREM BundleInvariant == TransferSpec => []BundleInv
<1>0. NFiles \in Nat \ {0} /\ MaxSize \in Nat
  BY TransferAssumption
<1>1. TransferInit => BundleInv
  <2> SUFFICES ASSUME TransferInit PROVE BundleInv
    OBVIOUS
  <2>0. /\ size \in [Files -> 0..MaxSize] /\ gone = {} /\ pc = "store" /\ next = 1 /\ hdr = 0
        /\ tar = <<>> /\ out = "none" /\ imp = "none" /\ pos = 1
        /\ disk = [f \in Files |-> "none"] /\ changes = 0
    BY DEF TransferInit
  <2>1. BundleTypes
    BY <1>0, <2>0 DEF BundleTypes
  <2>2. TarInv /\ OutInv /\ ImportInv
    BY <2>0 DEF TarInv, OutInv, ImportInv
  <2>3. UndisturbedInv
    BY <1>0, <2>0 DEF UndisturbedInv, Files
  <2> QED  BY <2>1, <2>2, <2>3 DEF BundleInv
<1>2. BundleInv /\ [TransferNext]_transferVars => BundleInv'
  BY <1>0, BundleTypesStep, TarStep, OutStep, ImportStep, UndisturbedStep DEF BundleInv
<1> QED  BY <1>1, <1>2, PTL DEF TransferSpec

\* An import that is answered with success has written every entry in full and
\* the bundle was closed properly (importTarball, streamTarFile), whatever
\* earlier imports left on the disk.
THEOREM ImportsAreWhole == TransferSpec => []ImportIsWhole
<1>1. BundleInv => ImportIsWhole
  BY DEF BundleInv, ImportInv, OutInv, Whole, LastComplete, ImportIsWhole
<1> QED  BY <1>1, BundleInvariant, PTL

\* A bundle that bbsit-ctl keeps and that reads as a complete archive holds
\* every file of the volume if nothing changed during the export
\* (writeProjectTarball, writeNewFile).
THEOREM QuietExportsAreComplete == TransferSpec => []KeptBundlesAreWhole
<1>1. BundleInv => KeptBundlesAreWhole
  BY TransferAssumption DEF BundleInv, BundleTypes, UndisturbedInv, KeptBundlesAreWhole, Files
<1> QED  BY <1>1, BundleInvariant, PTL

-----------------------------------------------------------------------------
(***************************************************************************)
(* VolumePaths: paths of any length.  Induction over data is first-order:  *)
(* a set stands for the predicate, and LoopExists gives the function that  *)
(* a recursive definition denotes.                                         *)
(***************************************************************************)
\* A set of natural numbers has a least element.
LEMMA LeastExists ==
    ASSUME NEW S \in SUBSET Nat, S # {}
    PROVE  \E x \in S : \A y \in S : x <= y
<1>1. PICK x \in S : \A y \in S : ~(<<y, x>> \in OpToRel(<, Nat))
  BY NatLessThanWellFounded, WFMin
<1>2. ASSUME NEW y \in S
      PROVE  x <= y
  <2>1. x \in Nat /\ y \in Nat
    OBVIOUS
  <2>2. ~(y < x)
    BY <1>1, <2>1, Zenon DEF OpToRel
  <2> QED BY <2>1, <2>2
<1> QED BY <1>2

\* Induction, with a set in the place of the predicate.
LEMMA SetInduction ==
    ASSUME NEW N \in Nat, NEW S, 0 \in S, \A n \in 1..N : n - 1 \in S => n \in S
    PROVE  \A n \in 0..N : n \in S
<1> DEFINE C == {n \in 0..N : n \notin S}
<1> SUFFICES ASSUME C # {} PROVE FALSE
  OBVIOUS
<1>1. C \in SUBSET Nat
  OBVIOUS
<1>2. PICK m \in C : \A k \in C : m <= k
  <2> HIDE DEF C
  <2> QED  BY <1>1, LeastExists
<1>3. m \in 0..N /\ m \notin S /\ m # 0
  BY <1>2
<1>4. m \in 1..N /\ m - 1 \in 0..N /\ ~(m <= m - 1)
  BY <1>3
<1>5. m - 1 \in S
  BY <1>2, <1>4
<1> QED  BY <1>3, <1>4, <1>5

\* f[n] is the result of n rounds of a loop that starts from v.
Iterates(f, v, n, G) == f[0] = v /\ \A k \in 1..n : f[k] = G[k][f[k - 1]]

\* A loop computes a function of the number of its rounds.
LEMMA LoopExists ==
    ASSUME NEW V, NEW v0 \in V, NEW N \in Nat, NEW G \in [Nat -> [V -> V]]
    PROVE  \E f \in [0..N -> V] : Iterates(f, v0, N, G)
<1> DEFINE S == {m \in 0..N : \E f \in [0..m -> V] : Iterates(f, v0, m, G)}
<1>1. 0 \in S
  <2> DEFINE f == [i \in 0..0 |-> v0]
  <2>1. f \in [0..0 -> V] /\ f[0] = v0
    OBVIOUS
  <2>2. Iterates(f, v0, 0, G)
    BY <2>1 DEF Iterates
  <2> HIDE DEF f
  <2> QED  BY <2>1, <2>2
<1>2. ASSUME NEW m \in 1..N, m - 1 \in S
      PROVE  m \in S
  <2>1. m \in Nat /\ m - 1 \in Nat /\ m - 1 \in 0..(m - 1) /\ 0 \in 0..m /\ 0 # m
    OBVIOUS
  <2>2. PICK f \in [0..(m - 1) -> V] : Iterates(f, v0, m - 1, G)
    BY <1>2
  <2> DEFINE v == G[m][f[m - 1]]
             g == [i \in 0..m |-> IF i = m THEN v ELSE f[i]]
  <2>3. v \in V
    <3>1. f[m - 1] \in V
      BY <2>1
    <3> QED  BY <2>1, <3>1
  <2>4. g \in [0..m -> V]
    <3>1. \A i \in 0..m : i # m => i \in 0..(m - 1)
      BY <2>1
    <3> HIDE DEF v
    <3> QED  BY <2>3, <3>1
  <2>5. g[0] = v0
    BY <2>1, <2>2 DEF Iterates
  <2>6. ASSUME NEW n \in 1..m
        PROVE  g[n] = G[n][g[n - 1]]
    <3>1. n - 1 \in 0..m /\ n - 1 # m /\ n \in 0..m /\ (n # m => n \in 1..(m - 1))
      BY <2>1
    <3>2. g[n - 1] = f[n - 1]
      BY <3>1
    <3>3. CASE n = m
      BY <3>1, <3>2, <3>3
    <3>4. CASE n # m
      <4>1. g[n] = f[n]
        BY <3>1, <3>4
      <4>2. f[n] = G[n][f[n - 1]]
        BY <2>2, <3>1, <3>4 DEF Iterates
      <4> QED  BY <3>2, <4>1, <4>2
    <3> QED  BY <3>3, <3>4
  <2>7. Iterates(g, v0, m, G)
    BY <2>5, <2>6 DEF Iterates
  <2> HIDE DEF g
  <2> QED  BY <2>1, <2>4, <2>7
<1>3. N \in S
  <2> HIDE DEF S
  <2>1. \A n \in 0..N : n \in S
    BY <1>1, <1>2, SetInduction
  <2> QED  BY <2>1
<1> QED  BY <1>3


-----------------------------------------------------------------------------
\* Induction over sequences, with a set in the place of the predicate.
LEMMA SeqInduction ==
    ASSUME NEW V, NEW S, <<>> \in S,
           \A q \in Seq(V) : q \in S => \A a \in V : Append(q, a) \in S
    PROVE  \A q \in Seq(V) : q \in S
<1> SUFFICES ASSUME NEW q \in Seq(V) PROVE q \in S
  OBVIOUS
<1> DEFINE N == Len(q)
           I == {n \in 0..N : SubSeq(q, 1, n) \in S}
<1>0. N \in Nat /\ \A i \in 1..N : q[i] \in V
  OBVIOUS
<1>1. 0 \in I
  <2>1. SubSeq(q, 1, 0) = <<>> /\ 0 \in 0..N
    BY <1>0
  <2> QED  BY <2>1
<1>2. ASSUME NEW n \in 1..N, n - 1 \in I
      PROVE  n \in I
  <2> DEFINE r == SubSeq(q, 1, n - 1)
  <2>1. r \in Seq(V) /\ r \in S
    BY <1>0, <1>2
  <2>2. SubSeq(q, 1, n) = Append(r, q[n])
    <3>1. SubSeq(q, 1, n) \in Seq(V) /\ Len(SubSeq(q, 1, n)) = n /\ Len(r) = n - 1
      BY <1>0
    <3>2. Append(r, q[n]) \in Seq(V) /\ Len(Append(r, q[n])) = n
      BY <1>0, <2>1, <3>1
    <3>3. \A i \in 1..n : SubSeq(q, 1, n)[i] = q[i]
      BY <1>0
    <3>4. \A i \in 1..n : Append(r, q[n])[i] = q[i]
      BY <1>0
    <3> QED  BY <3>1, <3>2, <3>3, <3>4
  <2> HIDE DEF r
  <2>3. Append(r, q[n]) \in S /\ n \in 0..N
    BY <1>0, <2>1
  <2> QED  BY <2>2, <2>3
<1>3. N \in I
  <2> HIDE DEF I
  <2>1. \A n \in 0..N : n \in I
    BY <1>0, <1>1, <1>2, SetInduction
  <2> QED  BY <1>0, <2>1
<1>4. SubSeq(q, 1, N) = q
  OBVIOUS
<1> QED  BY <1>3, <1>4

-----------------------------------------------------------------------------
\* filepath.Clean, element by element.
Cleaned(abs, q) == Clean(Path(abs, q)).seg

\* A step of Clean gives elements of the path.
LEMMA StepType ==
    ASSUME NEW V, ".." \in V, NEW abs, NEW r \in Seq(V), NEW a \in V
    PROVE  CleanStep(abs, r, a) \in Seq(V)
<1>1. CASE r # <<>>
  <2>1. Front(r) \in Seq(V)
    BY <1>1 DEF Front
  <2> QED  BY <2>1 DEF CleanStep
<1>2. CASE r = <<>>
  BY <1>2 DEF CleanStep
<1> QED  BY <1>1, <1>2

\* The states of Clean's loop over q.
Cleans(abs, q, acc) ==
    /\ acc[0] = <<>>
    /\ \A n \in 1..Len(q) : acc[n] = CleanStep(abs, acc[n - 1], q[n])

\* Clean is the loop over the elements.
LEMMA CleanLoops ==
    ASSUME NEW V, ".." \in V, NEW abs, NEW q \in Seq(V)
    PROVE  \E acc : /\ Cleans(abs, q, acc) /\ Cleaned(abs, q) = acc[Len(q)]
                    /\ Clean(Path(abs, q)) = Path(abs, acc[Len(q)])
<1> DEFINE N == Len(q)
           W == Seq(V)
           Round(n, b) == CleanStep(abs, b, q[n])
           G == [n \in Nat |-> [b \in W |-> IF n \in 1..N THEN Round(n, b) ELSE b]]
           F(f) == [n \in 0..N |-> IF n = 0 THEN <<>> ELSE Round(n, f[n - 1])]
<1>1. N \in Nat /\ \A n \in 1..N : q[n] \in V
  OBVIOUS
<1>2. \A n \in 1..N, b \in W : Round(n, b) \in W
  BY <1>1, StepType
<1> HIDE DEF Round
<1>3. G \in [Nat -> [W -> W]] /\ <<>> \in W
  BY <1>2
<1>4. PICK f \in [0..N -> W] : Iterates(f, <<>>, N, G)
  <2> HIDE DEF G, W, N
  <2> QED  BY <1>1, <1>3, LoopExists
<1>5. f = F(f)
  <2>1. \A n \in 1..N : n \in Nat /\ n - 1 \in 0..N
    BY <1>1
  <2>2. \A n \in 1..N : f[n] = Round(n, f[n - 1])
    BY <1>4, <2>1 DEF Iterates
  <2>3. \A n \in 0..N : n = 0 \/ n \in 1..N
    BY <1>1
  <2> QED  BY <1>4, <2>2, <2>3 DEF Iterates
<1> DEFINE acc == CHOOSE g : g = F(g)
<1>6. acc = F(acc)
  <2> HIDE DEF F
  <2> QED  BY <1>5
<1>7. Path(abs, q).seg = q /\ Path(abs, q).abs = abs
  BY DEF Path
<1>8. Clean(Path(abs, q)) = Path(abs, acc[N])
  BY <1>7 DEF Clean, Round
<1> HIDE DEF acc
<1>9. Cleaned(abs, q) = acc[N]
  BY <1>8 DEF Cleaned, Path
<1>10. Cleans(abs, q, acc)
  <2>1. acc[0] = <<>>
    BY <1>1, <1>6
  <2>2. \A n \in 1..N : n \in 0..N /\ n # 0
    BY <1>1
  <2>3. \A n \in 1..N : acc[n] = Round(n, acc[n - 1])
    BY <1>6, <2>2
  <2> QED  BY <2>1, <2>3 DEF Cleans, Round
<1> QED  BY <1>8, <1>9, <1>10

\* Clean of the empty path.
LEMMA CleanedEmpty ==
    ASSUME NEW abs
    PROVE  Cleaned(abs, <<>>) = <<>>
<1>1. PICK acc : Cleans(abs, <<>>, acc) /\ Cleaned(abs, <<>>) = acc[Len(<<>>)]
  <2>1. <<>> \in Seq({".."}) /\ ".." \in {".."}
    OBVIOUS
  <2> QED  BY <2>1, CleanLoops
<1> QED  BY <1>1 DEF Cleans

OneMore(abs, q, a) == Cleaned(abs, Append(q, a)) = CleanStep(abs, Cleaned(abs, q), a)

\* Clean of a path with one more element.
LEMMA CleanedAppend ==
    ASSUME NEW V, ".." \in V, NEW abs, NEW q \in Seq(V), NEW a \in V
    PROVE  OneMore(abs, q, a)
<1> SUFFICES Cleaned(abs, Append(q, a)) = CleanStep(abs, Cleaned(abs, q), a)
  BY DEF OneMore
<1> DEFINE N == Len(q)
           p == Append(q, a)
<1>1. N \in Nat /\ p \in Seq(V) /\ Len(p) = N + 1 /\ p[N + 1] = a /\ \A i \in 1..N : p[i] = q[i]
  OBVIOUS
<1> HIDE DEF p
<1>2. PICK f : Cleans(abs, q, f) /\ Cleaned(abs, q) = f[N]
  BY CleanLoops
<1>3. PICK g : Cleans(abs, p, g) /\ Cleaned(abs, p) = g[N + 1]
  BY <1>1, CleanLoops
<1> DEFINE S == {n \in 0..N : f[n] = g[n]}
<1>4. 0 \in S
  BY <1>1, <1>2, <1>3 DEF Cleans
<1>5. ASSUME NEW n \in 1..N, n - 1 \in S
      PROVE  n \in S
  <2>1. n \in 1..(N + 1) /\ n \in 0..N /\ p[n] = q[n] /\ f[n - 1] = g[n - 1]
    BY <1>1, <1>5
  <2>2. f[n] = CleanStep(abs, f[n - 1], q[n]) /\ g[n] = CleanStep(abs, g[n - 1], p[n])
    BY <1>1, <1>2, <1>3, <2>1 DEF Cleans
  <2> QED  BY <2>1, <2>2
<1>6. f[N] = g[N]
  <2> HIDE DEF S
  <2>1. \A n \in 0..N : n \in S
    BY <1>1, <1>4, <1>5, SetInduction
  <2>2. N \in 0..N
    BY <1>1
  <2> QED  BY <2>1, <2>2 DEF S
<1>7. g[N + 1] = CleanStep(abs, g[N], p[N + 1])
  <2>1. N + 1 \in 1..(N + 1) /\ (N + 1) - 1 = N
    BY <1>1
  <2> QED  BY <1>1, <1>3, <2>1 DEF Cleans
<1> QED  BY <1>1, <1>2, <1>3, <1>6, <1>7 DEF p

\* What Clean makes of one more element, case by case.
LEMMA StepCases ==
    ASSUME NEW V, NEW abs \in BOOLEAN, NEW r \in Seq(V), NEW a
    PROVE  /\ a = "." => CleanStep(abs, r, a) = r
           /\ a \notin {".", ".."} => CleanStep(abs, r, a) = Append(r, a)
           /\ a = ".." /\ r # <<>> /\ Last(r) # ".." => CleanStep(abs, r, a) = Front(r)
           /\ a = ".." /\ (r = <<>> \/ Last(r) = "..") =>
                CleanStep(abs, r, a) = IF abs THEN r ELSE Append(r, "..")
BY DEF CleanStep

\* Taking a sequence apart at its end.
LEMMA FrontLast ==
    ASSUME NEW V, NEW r \in Seq(V), r # <<>>
    PROVE  /\ Front(r) \in Seq(V) /\ Last(r) \in V /\ r = Append(Front(r), Last(r))
           /\ Len(Front(r)) = Len(r) - 1 /\ \A i \in 1..(Len(r) - 1) : Front(r)[i] = r[i]
<1> DEFINE N == Len(r)
           f == Front(r)
<1>1. N \in Nat /\ N > 0
  OBVIOUS
<1>2. f \in Seq(V) /\ Len(f) = N - 1 /\ \A i \in 1..(N - 1) : f[i] = r[i]
  <2>1. f = SubSeq(r, 1, N - 1)
    BY DEF Front
  <2>2. SubSeq(r, 1, N - 1) \in Seq(V) /\ Len(SubSeq(r, 1, N - 1)) = N - 1
    <3>1. N - 1 \in Nat /\ \A i \in 1..(N - 1) : r[i] \in V
      BY <1>1
    <3> DEFINE k == N - 1
    <3>2. k \in Nat /\ \A i \in 1..k : r[i] \in V
      BY <3>1
    <3> HIDE DEF k
    <3>3. SubSeq(r, 1, k) \in Seq(V) /\ Len(SubSeq(r, 1, k)) = k
      BY <3>2
    <3> QED  BY <3>3 DEF k
  <2>3. \A i \in 1..(N - 1) : SubSeq(r, 1, N - 1)[i] = r[i]
    BY <1>1
  <2> QED  BY <2>1, <2>2, <2>3
<1>3. Last(r) = r[N] /\ r[N] \in V
  BY <1>1 DEF Last
<1> HIDE DEF f
<1>4. Append(f, r[N]) = r
  <2> DEFINE g == Append(f, r[N])
  <2>1. g \in Seq(V) /\ Len(g) = N /\ \A i \in 1..N : g[i] = r[i]
    BY <1>1, <1>2, <1>3
  <2> HIDE DEF g
  <2>2. g = r
    BY <2>1
  <2> QED  BY <2>2 DEF g
<1> QED  BY <1>2, <1>3, <1>4 DEF f

\* Putting it together again.
LEMMA AppendFrontLast ==
    ASSUME NEW V, NEW r \in Seq(V), NEW a \in V
    PROVE  /\ Append(r, a) \in Seq(V) /\ Append(r, a) # <<>>
           /\ Front(Append(r, a)) = r /\ Last(Append(r, a)) = a
<1> DEFINE p == Append(r, a)
<1>1. p \in Seq(V) /\ Len(p) = Len(r) + 1 /\ p[Len(r) + 1] = a /\ \A i \in 1..Len(r) : p[i] = r[i]
  OBVIOUS
<1> HIDE DEF p
<1>2. p # <<>> /\ Last(p) = a
  BY <1>1 DEF Last
<1>3. Front(p) \in Seq(V) /\ Len(Front(p)) = Len(r) /\ \A i \in 1..Len(r) : Front(p)[i] = r[i]
  BY <1>1, <1>2, FrontLast
<1>4. Front(p) = r
  BY <1>3
<1> QED  BY <1>1, <1>2, <1>4 DEF p

\* The elements of a path that are neither "." nor "..".
Proper(V) == V \ {".", ".."}

\* A cleaned path has no "."; an absolute one no ".." either.
LEMMA CleanedElements ==
    ASSUME NEW V, ".." \in V, NEW q \in Seq(V)
    PROVE  Cleaned(TRUE, q) \in Seq(Proper(V)) /\ Cleaned(FALSE, q) \in Seq(V \ {"."})
<1> DEFINE P == Seq(Proper(V))
           R == Seq(V \ {"."})
           S == {r \in Seq(V) : Cleaned(TRUE, r) \in P /\ Cleaned(FALSE, r) \in R}
<1>1. <<>> \in S
  <2>1. <<>> \in P /\ <<>> \in R /\ <<>> \in Seq(V)
    OBVIOUS
  <2> HIDE DEF P, R
  <2> QED  BY <2>1, CleanedEmpty
<1>2. ASSUME NEW r \in Seq(V), r \in S, NEW a \in V
      PROVE  Append(r, a) \in S
  <2> DEFINE c == Cleaned(TRUE, r)
             d == Cleaned(FALSE, r)
  <2>1. c \in P /\ d \in R
    BY <1>2
  <2>2. Cleaned(TRUE, Append(r, a)) = CleanStep(TRUE, c, a)
    <3>1. OneMore(TRUE, r, a)
      BY CleanedAppend
    <3> QED  BY ONLY <3>1 DEF OneMore, c
  <2>3. Cleaned(FALSE, Append(r, a)) = CleanStep(FALSE, d, a)
    <3>1. OneMore(FALSE, r, a)
      BY CleanedAppend
    <3> QED  BY ONLY <3>1 DEF OneMore, d
  <2>6. Append(r, a) \in Seq(V)
    OBVIOUS
  <2> HIDE DEF c, d
  <2>4. CleanStep(TRUE, c, a) \in P
    <3>1. CASE a = "."
      BY <2>1, <3>1, StepCases
    <3>2. CASE a \notin {".", ".."}
      <4>1. a \in Proper(V)
        BY <3>2 DEF Proper
      <4>2. CleanStep(TRUE, c, a) = Append(c, a)
        BY <2>1, <3>2, StepCases
      <4>3. c \in Seq(Proper(V))
        BY <2>1
      <4>4. Append(c, a) \in Seq(Proper(V))
        BY ONLY <4>1, <4>3, AppendFrontLast
      <4> QED  BY <4>2, <4>4
    <3>3. CASE a = ".." /\ c = <<>>
      BY <2>1, <3>3, StepCases
    <3>4. CASE a = ".." /\ c # <<>>
      <4>1. Last(c) \in Proper(V) /\ Front(c) \in P
        BY <2>1, <3>4, FrontLast
      <4>2. CleanStep(TRUE, c, a) = Front(c)
        BY <2>1, <3>4, <4>1, StepCases DEF Proper
      <4> QED  BY <4>1, <4>2
    <3> QED  BY <3>1, <3>2, <3>3, <3>4
  <2>5. CleanStep(FALSE, d, a) \in R
    <3>1. CASE a = "."
      BY <2>1, <3>1, StepCases
    <3>2. CASE a # "."
      BY <2>1, <3>2, StepType
    <3> QED  BY <3>1, <3>2
  <2> HIDE DEF P, R
  <2> QED  BY <2>2, <2>3, <2>4, <2>5, <2>6
<1>3. q \in S
  <2> HIDE DEF S
  <2> QED  BY <1>1, <1>2, SeqInduction
<1> QED  BY <1>3

\* Clean keeps what has neither "." nor "..".
LEMMA CleanedProper ==
    ASSUME NEW V, NEW abs \in BOOLEAN, NEW q \in Seq(Proper(V))
    PROVE  Cleaned(abs, q) = q
<1> DEFINE W == Proper(V)
           S == {r \in Seq(W) : Cleaned(abs, r) = r}
<1>1. <<>> \in S
  BY CleanedEmpty
<1>2. ASSUME NEW r \in Seq(W), r \in S, NEW a \in W
      PROVE  Append(r, a) \in S
  <2>1. r \in Seq(W \cup {".."}) /\ a \in W \cup {".."} /\ ".." \in W \cup {".."}
    <3>1. W \subseteq W \cup {".."}
      OBVIOUS
    <3> HIDE DEF W
    <3> QED  BY <3>1
  <2>2. Cleaned(abs, Append(r, a)) = CleanStep(abs, Cleaned(abs, r), a)
    <3>1. OneMore(abs, r, a)
      BY <2>1, CleanedAppend
    <3> QED  BY <2>1, <3>1 DEF OneMore
  <2>3. Cleaned(abs, r) = r /\ a \notin {".", ".."}
    BY <1>2 DEF Proper
  <2>4. CleanStep(abs, r, a) = Append(r, a)
    BY <2>3, StepCases
  <2>5. Append(r, a) \in Seq(W)
    OBVIOUS
  <2> QED  BY <2>2, <2>3, <2>4, <2>5
<1>3. q \in S
  <2> HIDE DEF S
  <2> QED  BY <1>1, <1>2, SeqInduction
<1> QED  BY <1>3

\* Cleaning a relative path twice changes nothing more.
LEMMA CleanedTwice ==
    ASSUME NEW V, ".." \in V, NEW q \in Seq(V)
    PROVE  Cleaned(FALSE, Cleaned(FALSE, q)) = Cleaned(FALSE, q)
<1> DEFINE S == {r \in Seq(V) : Cleaned(FALSE, Cleaned(FALSE, r)) = Cleaned(FALSE, r)}
<1>1. <<>> \in S
  <2>1. <<>> \in Seq(V)
    OBVIOUS
  <2> QED  BY <2>1, CleanedEmpty
<1>2. ASSUME NEW r \in Seq(V), r \in S, NEW a \in V
      PROVE  Append(r, a) \in S
  <2> DEFINE W == V \ {"."}
             c == Cleaned(FALSE, r)
             d == CleanStep(FALSE, c, a)
  <2>1. c \in Seq(W) /\ ".." \in W
    BY CleanedElements
  <2>2. Cleaned(FALSE, Append(r, a)) = d
    <3>1. OneMore(FALSE, r, a)
      BY CleanedAppend
    <3> QED  BY ONLY <3>1 DEF OneMore, c, d
  <2>3. Append(r, a) \in Seq(V)
    OBVIOUS
  <2>4. Cleaned(FALSE, c) = c
    BY <1>2
  <2> HIDE DEF c, W
  <2>5. ASSUME NEW x \in Seq(W), NEW b \in W
        PROVE  Cleaned(FALSE, Append(x, b)) = CleanStep(FALSE, Cleaned(FALSE, x), b)
    <3>1. x \in Seq(W) /\ b \in W /\ ".." \in W
      BY <2>1
    <3> HIDE DEF d, S
    <3>2. OneMore(FALSE, x, b)
      BY ONLY <3>1, CleanedAppend
    <3> QED  BY ONLY <3>2 DEF OneMore
  <2>6. Cleaned(FALSE, d) = d
    <3>1. CASE a = "."
      <4>1. d = c
        BY <2>1, <3>1, StepCases
      <4> HIDE DEF d
      <4> QED  BY <2>4, <4>1
    <3>2. CASE a \notin {".", ".."}
      <4>1. d = Append(c, a) /\ a \in W
        BY <2>1, <3>2, StepCases DEF W
      <4>2. Cleaned(FALSE, Append(c, a)) = CleanStep(FALSE, c, a)
        BY <2>1, <2>4, <2>5, <4>1
      <4> QED  BY <4>1, <4>2
    <3>3. CASE a = ".." /\ c # <<>> /\ Last(c) # ".."
      <4> DEFINE f == Front(c)
                 l == Last(c)
      <4>1. f \in Seq(W) /\ l \in W /\ c = Append(f, l) /\ l \notin {".", ".."}
        <5>1. c \in Seq(W) /\ c # <<>>
          BY <2>1, <3>3
        <5>2. f \in Seq(W) /\ l \in W /\ c = Append(f, l)
          BY ONLY <5>1, FrontLast
        <5> QED  BY <3>3, <5>2 DEF W
      <4>2. d = f
        BY <2>1, <3>3, StepCases
      <4> HIDE DEF f, l, d
      <4>3. c = CleanStep(FALSE, Cleaned(FALSE, f), l)
        BY <2>4, <2>5, <4>1
      <4>4. Cleaned(FALSE, f) \in Seq(W)
        <5>1. Cleaned(FALSE, f) \in Seq(W \ {"."})
          BY <2>1, <4>1, CleanedElements
        <5>2. W \ {"."} = W
          BY DEF W
        <5> QED  BY <5>1, <5>2
      <4>5. CleanStep(FALSE, Cleaned(FALSE, f), l) = Append(Cleaned(FALSE, f), l)
        BY <4>1, <4>4, StepCases
      <4>6. Front(Append(Cleaned(FALSE, f), l)) = Cleaned(FALSE, f) /\ Front(Append(f, l)) = f
        BY <4>1, <4>4, AppendFrontLast
      <4> QED  BY <4>1, <4>2, <4>3, <4>5, <4>6
    <3>4. CASE a = ".." /\ (c = <<>> \/ Last(c) = "..")
      <4>1. d = Append(c, "..")
        BY <2>1, <3>4, StepCases
      <4>2. Cleaned(FALSE, Append(c, "..")) = CleanStep(FALSE, c, "..")
        BY <2>1, <2>4, <2>5
      <4> QED  BY <3>4, <4>1, <4>2
    <3> QED  BY <3>1, <3>2, <3>3, <3>4
  <2> HIDE DEF d
  <2> QED  BY <2>2, <2>3, <2>6
<1>3. q \in S
  <2> HIDE DEF S
  <2> QED  BY <1>1, <1>2, SeqInduction
<1> QED  BY <1>3

\* Below a directory a relative path and the cleaned one are the same place.
LEMMA CleanedBelow ==
    ASSUME NEW V, ".." \in V, NEW dir \in Seq(Proper(V)), NEW q \in Seq(V)
    PROVE  Cleaned(TRUE, dir \o Cleaned(FALSE, q)) = Cleaned(TRUE, dir \o q)
<1> DEFINE S == {r \in Seq(V) : Cleaned(TRUE, dir \o Cleaned(FALSE, r)) = Cleaned(TRUE, dir \o r)}
<1>0. dir \in Seq(V)
  <2>1. Proper(V) \subseteq V
    BY DEF Proper
  <2> QED  BY <2>1
<1>1. <<>> \in S
  <2>1. <<>> \in Seq(V)
    OBVIOUS
  <2> QED  BY <2>1, CleanedEmpty
<1>2. ASSUME NEW x \in Seq(V), NEW b \in V
      PROVE  Cleaned(TRUE, dir \o Append(x, b)) = CleanStep(TRUE, Cleaned(TRUE, dir \o x), b)
  <2>1. dir \o x \in Seq(V) /\ dir \o Append(x, b) = Append(dir \o x, b)
    BY <1>0
  <2>2. Cleaned(TRUE, Append(dir \o x, b)) = CleanStep(TRUE, Cleaned(TRUE, dir \o x), b)
    <3> DEFINE y == dir \o x
    <3>1. y \in Seq(V) /\ ".." \in V /\ b \in V
      BY <2>1
    <3> HIDE DEF y, S
    <3>2. OneMore(TRUE, y, b)
      BY ONLY <3>1, CleanedAppend
    <3> QED  BY ONLY <3>2 DEF OneMore, y
  <2> QED  BY <2>1, <2>2
<1>3. ASSUME NEW r \in Seq(V), r \in S, NEW a \in V
      PROVE  Append(r, a) \in S
  <2> DEFINE W == V \ {"."}
             c == Cleaned(FALSE, r)
             d == CleanStep(FALSE, c, a)
             m == Cleaned(TRUE, dir \o r)
  <2>1. c \in Seq(W) /\ c \in Seq(V)
    <3>1. c \in Seq(W) /\ W \subseteq V
      BY CleanedElements
    <3> HIDE DEF c, W
    <3> QED  BY <3>1
  <2>2. Cleaned(FALSE, Append(r, a)) = d
    <3>1. OneMore(FALSE, r, a)
      BY CleanedAppend
    <3> QED  BY ONLY <3>1 DEF OneMore, c, d
  <2>3. Append(r, a) \in Seq(V)
    OBVIOUS
  <2>4. Cleaned(TRUE, dir \o c) = m
    BY <1>3
  <2>5. Cleaned(TRUE, dir \o Append(r, a)) = CleanStep(TRUE, m, a)
    BY <1>2
  <2>6. m \in Seq(Proper(V))
    <3>1. dir \o r \in Seq(V)
      BY <1>0
    <3> QED  BY <3>1, CleanedElements
  <2> HIDE DEF c, W, m
  <2>7. Cleaned(TRUE, dir \o d) = CleanStep(TRUE, m, a)
    <3>1. CASE a = "."
      <4>1. d = c /\ CleanStep(TRUE, m, a) = m
        BY <2>1, <2>6, <3>1, StepCases
      <4> HIDE DEF d
      <4> QED  BY <2>4, <4>1
    <3>2. CASE a \notin {".", ".."}
      <4>1. d = Append(c, a)
        BY <2>1, <3>2, StepCases
      <4> HIDE DEF d
      <4> QED  BY <1>2, <2>1, <2>4, <4>1
    <3>3. CASE a = ".." /\ c # <<>> /\ Last(c) # ".."
      <4> DEFINE f == Front(c)
                 l == Last(c)
                 k == Cleaned(TRUE, dir \o f)
      <4>1. f \in Seq(V) /\ l \in V /\ c = Append(f, l)
        BY <2>1, <3>3, FrontLast
      <4>2. l \in Proper(V)
        <5>1. l \in W
          BY <2>1, <3>3, FrontLast
        <5> QED  BY <3>3, <5>1 DEF W, Proper
      <4>3. d = f
        BY <2>1, <3>3, StepCases
      <4>4. k \in Seq(Proper(V))
        <5>1. dir \o f \in Seq(V)
          BY <1>0, <4>1
        <5> QED  BY <5>1, CleanedElements
      <4> HIDE DEF f, l, d
      <4>5. m = CleanStep(TRUE, k, l)
        BY <1>2, <2>4, <4>1
      <4> HIDE DEF k
      <4>6. m = Append(k, l)
        BY <4>2, <4>4, <4>5, StepCases DEF Proper
      <4>7. Front(m) = k /\ Last(m) = l /\ m # <<>>
        BY <4>2, <4>4, <4>6, AppendFrontLast
      <4>8. CleanStep(TRUE, m, a) = k
        BY <2>6, <3>3, <4>2, <4>7, StepCases DEF Proper
      <4> QED  BY <4>3, <4>8 DEF k
    <3>4. CASE a = ".." /\ (c = <<>> \/ Last(c) = "..")
      <4>1. d = Append(c, a)
        BY <2>1, <3>4, StepCases
      <4> HIDE DEF d
      <4> QED  BY <1>2, <2>1, <2>4, <4>1
    <3> QED  BY <3>1, <3>2, <3>3, <3>4
  <2> HIDE DEF d
  <2> QED  BY <2>2, <2>3, <2>5, <2>7 DEF m
<1>4. q \in S
  <2> HIDE DEF S
  <2> QED  BY <1>1, <1>3, SeqInduction
<1> QED  BY <1>4

\* A cleaned relative path starts with ".." or has none.
LEMMA CleanedHead ==
    ASSUME NEW V, ".." \in V, NEW q \in Seq(V)
    PROVE  \/ Cleaned(FALSE, q) \in Seq(Proper(V))
           \/ Cleaned(FALSE, q) # <<>> /\ Head(Cleaned(FALSE, q)) = ".."
<1> DEFINE W == V \ {"."}
           Climbs(r) == r # <<>> /\ Head(r) = ".."
           S == {r \in Seq(V) : Cleaned(FALSE, r) \in Seq(Proper(V)) \/ Climbs(Cleaned(FALSE, r))}
<1>1. <<>> \in S
  <2>1. <<>> \in Seq(V) /\ <<>> \in Seq(Proper(V))
    OBVIOUS
  <2> QED  BY <2>1, CleanedEmpty
<1>2. ASSUME NEW r \in Seq(V), r \in S, NEW a \in V
      PROVE  Append(r, a) \in S
  <2> DEFINE c == Cleaned(FALSE, r)
             d == CleanStep(FALSE, c, a)
  <2>1. c \in Seq(W)
    BY CleanedElements
  <2>2. Cleaned(FALSE, Append(r, a)) = d
    <3>1. OneMore(FALSE, r, a)
      BY CleanedAppend
    <3> QED  BY ONLY <3>1 DEF OneMore, c, d
  <2>3. Append(r, a) \in Seq(V)
    OBVIOUS
  <2>4. c \in Seq(Proper(V)) \/ Climbs(c)
    BY <1>2
  <2> HIDE DEF c, W
  <2>5. d \in Seq(Proper(V)) \/ Climbs(d)
    <3>1. CASE a = "."
      <4>1. d = c
        BY <2>1, <3>1, StepCases
      <4> HIDE DEF d
      <4> QED  BY <2>4, <4>1
    <3>2. ASSUME NEW b \in V \ {"."}, d = Append(c, b), Climbs(c)
          PROVE  Climbs(d)
      <4> HIDE DEF d
      <4>1. b \in W /\ c # <<>>
        BY <3>2 DEF W
      <4>2. Append(c, b) # <<>> /\ Append(c, b)[1] = c[1]
        BY <2>1, <4>1
      <4> QED  BY <2>1, <3>2, <4>2
    <3>3. CASE a \notin {".", ".."}
      <4>1. d = Append(c, a) /\ a \in Proper(V)
        BY <2>1, <3>3, StepCases DEF Proper
      <4>2. CASE c \in Seq(Proper(V))
        <5>1. Append(c, a) \in Seq(Proper(V))
          BY ONLY <4>1, <4>2, AppendFrontLast
        <5> QED  BY <4>1, <5>1
      <4> HIDE DEF d
      <4> QED  BY <2>4, <3>2, <3>3, <4>1, <4>2
    <3>4. CASE a = ".." /\ c # <<>> /\ Last(c) # ".."
      <4> DEFINE f == Front(c)
      <4>1. d = f
        BY <2>1, <3>4, StepCases
      <4>2. CASE c \in Seq(Proper(V))
        BY <3>4, <4>1, <4>2, FrontLast
      <4>3. CASE Climbs(c)
        <5>1. Len(c) \in Nat /\ Len(c) # 0 /\ c[1] = ".." /\ Last(c) = c[Len(c)]
          BY <2>1, <3>4, <4>3 DEF Last
        <5>2. Len(c) > 1
          BY <3>4, <5>1
        <5>3. f \in Seq(W) /\ Len(f) = Len(c) - 1 /\ \A i \in 1..(Len(c) - 1) : f[i] = c[i]
          BY <2>1, <3>4, FrontLast
        <5> HIDE DEF f, d
        <5>4. Len(f) > 0 /\ f[1] = ".."
          BY <5>1, <5>2, <5>3
        <5>5. Climbs(f)
          BY <5>3, <5>4
        <5> QED  BY <4>1, <5>5
      <4> QED  BY <2>4, <4>2, <4>3
    <3>5. CASE a = ".." /\ (c = <<>> \/ Last(c) = "..")
      <4>1. d = Append(c, "..")
        BY <2>1, <3>5, StepCases
      <4>2. CASE c = <<>>
        <5>1. Append(c, "..") = <<"..">>
          BY <4>2
        <5> HIDE DEF d
        <5> QED  BY <4>1, <5>1
      <4>3. CASE c # <<>> /\ c \in Seq(Proper(V))
        <5>1. Last(c) \in Proper(V)
          BY <4>3, FrontLast
        <5> QED  BY <3>5, <4>3, <5>1 DEF Proper
      <4> HIDE DEF d
      <4> QED  BY <2>4, <3>2, <3>5, <4>1, <4>2, <4>3
    <3> QED  BY <3>1, <3>3, <3>4, <3>5
  <2> HIDE DEF d, Climbs
  <2> QED  BY <2>2, <2>3, <2>5
<1>3. q \in S
  <2> HIDE DEF S
  <2> QED  BY <1>1, <1>2, SeqInduction
<1> QED  BY <1>3

-----------------------------------------------------------------------------
\* The length of the common part of two paths exists.
LEMMA CommonLengthExists ==
    ASSUME NEW V, NEW s \in Seq(V), NEW t \in Seq(V)
    PROVE  LET n == CommonLength(s, t) IN
           /\ n \in 0..Len(s) /\ n <= Len(t) /\ SubSeq(s, 1, n) = SubSeq(t, 1, n)
           /\ n = Len(s) \/ n = Len(t) \/ s[n + 1] # t[n + 1]
<1> DEFINE Stops(n) == n = Len(s) \/ n = Len(t) \/ s[n + 1] # t[n + 1]
           C == {n \in Nat : Stops(n)}
<1>0. Len(s) \in Nat /\ Len(t) \in Nat
  OBVIOUS
<1>1. C \in SUBSET Nat /\ Len(s) \in C /\ Len(t) \in C
  BY <1>0
<1>2. PICK n \in C : \A k \in C : n <= k
  <2> HIDE DEF C
  <2>1. C # {}
    BY <1>1
  <2> QED  BY <1>1, <2>1, LeastExists
<1>3. n \in Nat /\ n <= Len(s) /\ n <= Len(t) /\ Stops(n)
  BY <1>1, <1>2
<1>4. \A i \in 1..n : s[i] = t[i]
  <2> TAKE i \in 1..n
  <2>1. i - 1 \in Nat /\ ~(n <= i - 1) /\ (i - 1) + 1 = i
    BY <1>3
  <2>2. i - 1 \notin C
    BY <1>2, <2>1
  <2> QED  BY <2>1, <2>2
<1>5. SubSeq(s, 1, n) = SubSeq(t, 1, n)
  <2>1. SubSeq(s, 1, n) = [i \in 1..n |-> s[i]] /\ SubSeq(t, 1, n) = [i \in 1..n |-> t[i]]
    BY <1>3
  <2> QED  BY <1>4, <2>1
<1>6. n \in 0..Len(s)
  BY <1>0, <1>3
<1> DEFINE Common(k) == /\ k <= Len(t) /\ SubSeq(s, 1, k) = SubSeq(t, 1, k)
                        /\ k = Len(s) \/ k = Len(t) \/ s[k + 1] # t[k + 1]
<1>7. Common(n)
  BY <1>3, <1>5
<1>8. CommonLength(s, t) = CHOOSE k \in 0..Len(s) : Common(k)
  BY DEF CommonLength
<1>9. CommonLength(s, t) \in 0..Len(s) /\ Common(CommonLength(s, t))
  <2> HIDE DEF Common
  <2> QED  BY <1>6, <1>7, <1>8
<1> QED  BY <1>9

\* A relative path that does not climb is what follows the directory.
LEMMA RelBelow ==
    ASSUME NEW V, ".." \in V, NEW base \in Seq(V), NEW s \in Seq(V),
           ~hasParentRef(Rel(base, s))
    PROVE  s = base \o Rel(base, s)
<1> DEFINE n == CommonLength(base, s)
           ups == [i \in 1..(Len(base) - n) |-> ".."]
           w == SubSeq(s, n + 1, Len(s))
<1>0. Len(base) \in Nat /\ Len(s) \in Nat
  OBVIOUS
<1>1. n \in 0..Len(base) /\ n <= Len(s) /\ SubSeq(base, 1, n) = SubSeq(s, 1, n)
  BY CommonLengthExists
<1>2. Rel(base, s) = ups \o w
  BY DEF Rel
<1> HIDE DEF n
<1>3. w \in Seq(V) /\ Len(w) = Len(s) - n /\ \A i \in 1..(Len(s) - n) : w[i] = s[n + i]
  <2>1. w \in Seq(V) /\ Len(w) = Len(s) - n
    BY <1>0, <1>1
  <2>2. \A i \in 1..(Len(s) - n) : w[i] = s[n + 1 + i - 1] /\ n + 1 + i - 1 = n + i
    BY <1>0, <1>1
  <2> QED  BY <2>1, <2>2
<1>4. n = Len(base)
  <2> SUFFICES ASSUME n # Len(base) PROVE FALSE
    OBVIOUS
  <2>1. Len(base) - n \in Nat /\ Len(base) - n > 0
    BY <1>0, <1>1
  <2>2. ups \in Seq(V) /\ Len(ups) > 0 /\ ups[1] = ".."
    BY <2>1
  <2> HIDE DEF ups, w
  <2>3. ups \o w \in Seq(V) /\ Len(ups \o w) > 0 /\ (ups \o w)[1] = ".."
    BY <1>3, <2>2
  <2>4. ups \o w # <<>> /\ Head(ups \o w) = ".."
    BY <2>3
  <2> QED  BY <1>2, <2>4 DEF hasParentRef
<1>5. Rel(base, s) = w
  <2>1. ups = <<>>
    BY <1>0, <1>4
  <2> HIDE DEF ups, w
  <2> QED  BY <1>2, <1>3, <2>1
<1>6. \A i \in 1..Len(base) : base[i] = s[i]
  <2>1. SubSeq(base, 1, n) = [i \in 1..n |-> base[i]] /\ SubSeq(s, 1, n) = [i \in 1..n |-> s[i]]
    BY <1>0, <1>1
  <2>2. \A i \in 1..n : [k \in 1..n |-> base[k]][i] = base[i] /\ [k \in 1..n |-> s[k]][i] = s[i]
    OBVIOUS
  <2> QED  BY <1>1, <1>4, <2>1, <2>2
<1> HIDE DEF w
<1>7. s = base \o w
  <2> DEFINE g == base \o w
  <2>1. g \in Seq(V) /\ Len(g) = Len(s)
    BY <1>0, <1>1, <1>3, <1>4
  <2>2. \A i \in 1..Len(s) : g[i] = s[i]
    <3> TAKE i \in 1..Len(s)
    <3>1. CASE i <= Len(base)
      BY <1>0, <1>3, <1>6, <3>1
    <3>2. CASE i > Len(base)
      <4>1. i - Len(base) \in 1..(Len(s) - n) /\ n + (i - Len(base)) = i
        BY <1>0, <1>4, <3>2
      <4>2. g[i] = w[i - Len(base)]
        BY <1>0, <1>3, <1>4, <3>2
      <4>3. w[i - Len(base)] = s[n + (i - Len(base))]
        BY <1>3, <4>1
      <4> QED  BY <4>1, <4>2, <4>3
    <3>3. i <= Len(base) \/ i > Len(base)
      BY <1>0
    <3> HIDE DEF g
    <3> QED  BY <3>1, <3>2, <3>3
  <2> HIDE DEF g
  <2>3. g = s
    BY <2>1, <2>2
  <2> QED  BY <2>3 DEF g
<1> QED  BY <1>5, <1>7

\* The path below a directory, relative to the directory.
LEMMA RelOfBelow ==
    ASSUME NEW V, NEW base \in Seq(V), NEW w \in Seq(V)
    PROVE  Rel(base, base \o w) = w
<1> DEFINE s == base \o w
           n == CommonLength(base, s)
<1>0. Len(base) \in Nat /\ Len(w) \in Nat
  OBVIOUS
<1>1. /\ s \in Seq(V) /\ Len(s) = Len(base) + Len(w)
      /\ \A i \in 1..Len(base) : s[i] = base[i]
      /\ \A i \in 1..Len(w) : s[Len(base) + i] = w[i]
  BY <1>0
<1> HIDE DEF s
<1>2. /\ n \in 0..Len(base) /\ n <= Len(s)
      /\ n = Len(base) \/ n = Len(s) \/ base[n + 1] # s[n + 1]
  BY <1>1, CommonLengthExists
<1> HIDE DEF n
<1>3. n = Len(base)
  <2>1. n # Len(base) => n + 1 \in 1..Len(base) /\ n # Len(s)
    BY <1>0, <1>1, <1>2
  <2> QED  BY <1>1, <1>2, <2>1
<1>4. SubSeq(s, n + 1, Len(s)) = w
  <2> DEFINE g == SubSeq(s, n + 1, Len(s))
  <2>1. g \in Seq(V) /\ Len(g) = Len(w)
    BY <1>0, <1>1, <1>3
  <2>2. \A i \in 1..Len(w) : g[i] = s[n + 1 + i - 1] /\ n + 1 + i - 1 = Len(base) + i
    BY <1>0, <1>1, <1>3
  <2> HIDE DEF g
  <2>3. \A i \in 1..Len(w) : g[i] = w[i]
    BY <1>1, <2>2
  <2>4. g = w
    BY <2>1, <2>3
  <2> QED  BY <2>4 DEF g
<1>5. [i \in 1..(Len(base) - n) |-> ".."] = <<>>
  BY <1>0, <1>3
<1>6. Rel(base, s) = [i \in 1..(Len(base) - n) |-> ".."] \o SubSeq(s, n + 1, Len(s))
  BY DEF Rel, n
<1>7. <<>> \o w = w
  OBVIOUS
<1> QED  BY <1>4, <1>5, <1>6, <1>7 DEF s

\* What PathAssumption of VolumePaths says of the constants.
PathConstants ==
    /\ ".." \in StartsDotDot /\ StartsDotDot \subseteq Names /\ "." \notin StartsDotDot
    /\ MaxLength \in Nat
    /\ Source \in Seq(Names \ {".", ".."}) /\ Target \in Seq(Names \ {".", ".."})

\* The fields of a path.
LEMMA PathOf ==
    ASSUME PathConstants, NEW p \in Paths
    PROVE  p.abs \in BOOLEAN /\ p.seg \in Seq(Names) /\ p = Path(p.abs, p.seg)
<1>1. p.seg \in UNION {[1..n -> Names] : n \in 0..MaxLength} /\ p.abs \in BOOLEAN
  BY DEF Paths
<1>2. PICK n \in 0..MaxLength : p.seg \in [1..n -> Names]
  BY <1>1
<1>3. n \in Nat
  BY DEF PathConstants
<1>4. p.seg \in Seq(Names)
  BY <1>2, <1>3
<1> QED  BY <1>1, <1>4 DEF Paths, Path

\* Clean keeps a path absolute or relative.
LEMMA CleanOf ==
    ASSUME NEW V, ".." \in V, NEW abs, NEW q \in Seq(V)
    PROVE  Clean(Path(abs, q)) = Path(abs, Cleaned(abs, q))
<1> QED  BY CleanLoops

\* The end of a path has the elements of the path.
LEMMA TailElements ==
    ASSUME NEW V, NEW B, NEW u \in Seq(B), NEW w \in Seq(B), u \o w \in Seq(V)
    PROVE  w \in Seq(V)
<1> DEFINE g == u \o w
<1>1. /\ Len(u) \in Nat /\ Len(w) \in Nat /\ Len(g) = Len(u) + Len(w)
      /\ DOMAIN w = 1..Len(w)
      /\ \A i \in 1..Len(w) : g[Len(u) + i] = w[i]
  OBVIOUS
<1>2. \A i \in 1..Len(w) : Len(u) + i \in 1..Len(g)
  BY <1>1
<1> HIDE DEF g
<1>3. g \in Seq(V)
  BY DEF g
<1>4. \A i \in 1..Len(w) : w[i] \in V
  BY <1>1, <1>2, <1>3
<1>5. w \in [1..Len(w) -> V]
  BY <1>1, <1>4
<1> QED  BY <1>1, <1>5

\* Rel, whatever it finds.
LEMMA RelType ==
    ASSUME NEW V, ".." \in V, NEW base \in Seq(V), NEW s \in Seq(V)
    PROVE  Rel(base, s) \in Seq(V)
<1> DEFINE n == CommonLength(base, s)
           ups == [i \in 1..(Len(base) - n) |-> ".."]
           w == SubSeq(s, n + 1, Len(s))
<1>1. n \in 0..Len(base) /\ n <= Len(s) /\ Len(base) \in Nat /\ Len(s) \in Nat
  BY CommonLengthExists
<1>2. Rel(base, s) = ups \o w
  BY DEF Rel
<1> HIDE DEF n
<1>3. ups \in Seq(V)
  <2>1. Len(base) - n \in Nat
    BY <1>1
  <2> QED  BY <2>1
<1>4. w \in Seq(V)
  BY <1>1
<1> HIDE DEF ups, w
<1> QED  BY <1>2, <1>3, <1>4

\* The three forms of a stored path: a relative one is cleaned; an absolute
\* one below the stack directory becomes relative; others stay absolute.
StaysRelative(p, h) == ~p.abs /\ h = Path(FALSE, Cleaned(FALSE, p.seg))

StaysAbsolute(p, h) ==
    /\ p.abs /\ h = Path(TRUE, Cleaned(TRUE, p.seg))
    /\ LET rel == Rel(Source, Cleaned(TRUE, p.seg))
       IN  rel = <<>> \/ Head(rel) \in StartsDotDot

BecomesRelative(p, h) ==
    /\ p.abs /\ h = Path(FALSE, h.seg)
    /\ h.seg \in Seq(Proper(Names)) /\ Cleaned(TRUE, p.seg) = Source \o h.seg

\* There is no other form.
LEMMA NormaliseCases ==
    ASSUME PathConstants, NEW p \in Paths, NEW h, h = normaliseVolumeHostPath(p)
    PROVE  StaysRelative(p, h) \/ StaysAbsolute(p, h) \/ BecomesRelative(p, h)
<1> DEFINE c == Clean(p)
           s == Cleaned(p.abs, p.seg)
           rel == Rel(Source, s)
<1>0. /\ ".." \in Names /\ Source \in Seq(Proper(Names)) /\ Source \in Seq(Names)
      /\ ".." \in StartsDotDot
  BY DEF PathConstants, Proper
<1>1. p.abs \in BOOLEAN /\ p.seg \in Seq(Names) /\ p = Path(p.abs, p.seg)
  BY PathOf
<1>2. c = Path(p.abs, s)
  BY ONLY <1>0, <1>1, CleanOf
<1>3. c.abs = p.abs /\ c.seg = s
  BY <1>2 DEF Path
<1>4. h = IF p.abs /\ rel # <<>> /\ Head(rel) \notin StartsDotDot THEN Path(FALSE, rel) ELSE c
  BY <1>3 DEF normaliseVolumeHostPath
<1>5. CASE ~p.abs
  <2>1. p.abs = FALSE
    BY <1>1, <1>5
  <2> QED  BY <1>2, <1>4, <2>1 DEF StaysRelative
<1>6. CASE p.abs /\ (rel = <<>> \/ Head(rel) \in StartsDotDot)
  <2>1. p.abs = TRUE
    BY <1>1, <1>6
  <2> QED  BY <1>2, <1>4, <1>6, <2>1 DEF StaysAbsolute
<1>7. CASE p.abs /\ rel # <<>> /\ Head(rel) \notin StartsDotDot
  <2>1. p.abs = TRUE
    BY <1>1, <1>7
  <2>2. s \in Seq(Proper(Names))
    BY <1>0, <1>1, <2>1, CleanedElements
  <2>3. s \in Seq(Names)
    BY <2>2 DEF Proper
  <2>4. ~hasParentRef(rel)
    BY <1>0, <1>7 DEF hasParentRef
  <2> HIDE DEF s
  <2>5. s = Source \o rel
    BY <1>0, <2>3, <2>4, RelBelow
  <2>6. rel \in Seq(Names)
    BY <1>0, <2>3, RelType
  <2> HIDE DEF rel
  <2>7. rel \in Seq(Proper(Names))
    BY <1>0, <2>2, <2>5, <2>6, TailElements
  <2>8. h = Path(FALSE, rel) /\ h.seg = rel
    BY <1>4, <1>7 DEF Path
  <2> QED  BY <2>1, <2>5, <2>7, <2>8 DEF BecomesRelative, s
<1>8. ~p.abs \/ (p.abs /\ (rel = <<>> \/ Head(rel) \in StartsDotDot))
      \/ (p.abs /\ rel # <<>> /\ Head(rel) \notin StartsDotDot)
  <2> HIDE DEF rel
  <2> QED  BY <1>1
<1> HIDE DEF rel, c, s
<1> QED  BY <1>5, <1>6, <1>7, <1>8

\* The directory that each form of a host path is on a host.
LEMMA MountedOf ==
    ASSUME PathConstants, NEW dir \in Seq(Proper(Names)), NEW q \in Seq(Names)
    PROVE  /\ Mounted(dir, Path(TRUE, q)) = Cleaned(TRUE, q)
           /\ Mounted(dir, Path(FALSE, q)) = Cleaned(TRUE, dir \o q)
<1>1. ".." \in Names
  BY DEF PathConstants
<1> QED  BY <1>1 DEF Mounted, Join, Path, Cleaned

\* A relative path that does not climb is below every directory.
LEMMA MountedBelow ==
    ASSUME PathConstants, NEW dir \in Seq(Proper(Names)), NEW w \in Seq(Proper(Names))
    PROVE  Mounted(dir, Path(FALSE, w)) = dir \o w
<1>1. w \in Seq(Names)
  BY DEF Proper
<1>2. Mounted(dir, Path(FALSE, w)) = Cleaned(TRUE, dir \o w)
  BY <1>1, MountedOf
<1>3. dir \o w \in Seq(Proper(Names))
  OBVIOUS
<1>4. Cleaned(TRUE, dir \o w) = dir \o w
  BY <1>3, CleanedProper
<1> QED  BY <1>2, <1>4

\* Storing a path does not change the directory it is on the source host.
LEMMA StoringKeepsDirectory ==
    ASSUME PathConstants, NEW p \in Paths
    PROVE  Mounted(Source, normaliseVolumeHostPath(p)) = Mounted(Source, p)
<1> DEFINE h == normaliseVolumeHostPath(p)
<1>0. ".." \in Names /\ Source \in Seq(Proper(Names))
  BY DEF PathConstants, Proper
<1>1. p.abs \in BOOLEAN /\ p.seg \in Seq(Names) /\ p = Path(p.abs, p.seg)
  BY PathOf
<1>2. StaysRelative(p, h) \/ StaysAbsolute(p, h) \/ BecomesRelative(p, h)
  BY NormaliseCases
<1> HIDE DEF h
<1>3. CASE StaysRelative(p, h)
  <2> DEFINE w == Cleaned(FALSE, p.seg)
  <2>1. p = Path(FALSE, p.seg) /\ h = Path(FALSE, w)
    BY <1>1, <1>3 DEF StaysRelative
  <2>2. w \in Seq(Names)
    <3>1. w \in Seq(Names \ {"."})
      BY <1>0, <1>1, CleanedElements
    <3> HIDE DEF w
    <3> QED  BY <3>1
  <2>3. Mounted(Source, Path(FALSE, p.seg)) = Cleaned(TRUE, Source \o p.seg)
    BY <1>0, <1>1, MountedOf
  <2>4. Mounted(Source, Path(FALSE, w)) = Cleaned(TRUE, Source \o w)
    <3> HIDE DEF w
    <3> QED  BY <1>0, <2>2, MountedOf
  <2>5. Cleaned(TRUE, Source \o w) = Cleaned(TRUE, Source \o p.seg)
    BY <1>0, <1>1, CleanedBelow
  <2> HIDE DEF w
  <2>6. Mounted(Source, h) = Mounted(Source, Path(FALSE, p.seg))
    BY <2>1, <2>3, <2>4, <2>5
  <2> QED  BY <2>1, <2>6 DEF h
<1>4. CASE StaysAbsolute(p, h)
  <2> DEFINE s == Cleaned(TRUE, p.seg)
  <2>1. p = Path(TRUE, p.seg) /\ h = Path(TRUE, s)
    BY <1>1, <1>4 DEF StaysAbsolute
  <2>2. s \in Seq(Proper(Names))
    BY <1>0, <1>1, CleanedElements
  <2>3. Mounted(Source, Path(TRUE, p.seg)) = s
    BY <1>0, <1>1, MountedOf
  <2> HIDE DEF s
  <2>4. s \in Seq(Names)
    BY <2>2 DEF Proper
  <2>5. Mounted(Source, Path(TRUE, s)) = Cleaned(TRUE, s)
    BY <1>0, <2>4, MountedOf
  <2>6. Cleaned(TRUE, s) = s
    BY <2>2, CleanedProper
  <2>7. Mounted(Source, h) = Mounted(Source, Path(TRUE, p.seg))
    BY <2>1, <2>3, <2>5, <2>6
  <2> QED  BY <2>1, <2>7 DEF h
<1>5. CASE BecomesRelative(p, h)
  <2>1. /\ p = Path(TRUE, p.seg) /\ h = Path(FALSE, h.seg)
        /\ h.seg \in Seq(Proper(Names)) /\ Cleaned(TRUE, p.seg) = Source \o h.seg
    BY <1>1, <1>5 DEF BecomesRelative
  <2>2. Mounted(Source, Path(TRUE, p.seg)) = Cleaned(TRUE, p.seg)
    BY <1>0, <1>1, MountedOf
  <2>3. Mounted(Source, Path(FALSE, h.seg)) = Source \o h.seg
    BY <1>0, <2>1, MountedBelow
  <2>4. Mounted(Source, h) = Mounted(Source, Path(TRUE, p.seg))
    BY <2>1, <2>2, <2>3
  <2> QED  BY <2>1, <2>4 DEF h
<1> QED  BY <1>2, <1>3, <1>4, <1>5

\* A stored path is stored as it is when the project is saved again.
LEMMA StoringTwice ==
    ASSUME PathConstants, NEW p \in Paths, NEW h, h = normaliseVolumeHostPath(p)
    PROVE  normaliseVolumeHostPath(h) = h
<1>0. ".." \in Names /\ Source \in Seq(Proper(Names))
  BY DEF PathConstants, Proper
<1>1. p.abs \in BOOLEAN /\ p.seg \in Seq(Names) /\ p = Path(p.abs, p.seg)
  BY PathOf
<1>2. StaysRelative(p, h) \/ StaysAbsolute(p, h) \/ BecomesRelative(p, h)
  BY NormaliseCases
<1>3. ASSUME NEW w \in Seq(Names), Cleaned(FALSE, w) = w, h = Path(FALSE, w)
      PROVE  normaliseVolumeHostPath(h) = h
  <2>1. Clean(Path(FALSE, w)) = Path(FALSE, w)
    BY <1>0, <1>3, CleanOf
  <2>2. Path(FALSE, w).abs = FALSE
    BY DEF Path
  <2>3. normaliseVolumeHostPath(Path(FALSE, w)) = Path(FALSE, w)
    BY ONLY <2>1, <2>2 DEF normaliseVolumeHostPath
  <2> QED  BY <1>3, <2>3
<1>4. CASE StaysRelative(p, h)
  <2> DEFINE w == Cleaned(FALSE, p.seg)
  <2>1. h = Path(FALSE, w)
    BY <1>4 DEF StaysRelative
  <2>2. w \in Seq(Names \ {"."}) /\ Cleaned(FALSE, w) = w
    BY <1>0, <1>1, CleanedElements, CleanedTwice
  <2> HIDE DEF w
  <2>3. w \in Seq(Names)
    BY <2>2
  <2> QED  BY <1>3, <2>1, <2>2, <2>3
<1>5. CASE StaysAbsolute(p, h)
  <2> DEFINE s == Cleaned(TRUE, p.seg)
             rel == Rel(Source, s)
  <2>1. h = Path(TRUE, s) /\ (rel = <<>> \/ Head(rel) \in StartsDotDot)
    BY <1>5 DEF StaysAbsolute
  <2>2. s \in Seq(Proper(Names))
    BY <1>0, <1>1, CleanedElements
  <2> HIDE DEF s
  <2>3. Cleaned(TRUE, s) = s /\ s \in Seq(Names)
    <3>1. Cleaned(TRUE, s) = s
      BY <2>2, CleanedProper
    <3>2. s \in Seq(Names)
      BY <2>2 DEF Proper
    <3> QED  BY <3>1, <3>2
  <2>4. Clean(Path(TRUE, s)) = Path(TRUE, s)
    BY <1>0, <2>3, CleanOf
  <2>5. Path(TRUE, s).seg = s
    BY DEF Path
  <2> QED  BY <2>1, <2>4, <2>5 DEF normaliseVolumeHostPath
<1>6. CASE BecomesRelative(p, h)
  <2>1. h = Path(FALSE, h.seg) /\ h.seg \in Seq(Proper(Names))
    BY <1>6 DEF BecomesRelative
  <2>2. Cleaned(FALSE, h.seg) = h.seg
    BY <2>1, CleanedProper
  <2>3. h.seg \in Seq(Names)
    BY <2>1 DEF Proper
  <2> QED  BY <1>3, <2>1, <2>2, <2>3
<1> QED  BY <1>2, <1>4, <1>5, <1>6

\* What DataFollowsMount says of the paths alone: a stored path that names an
\* entry is extracted where it is mounted; the others are the same directory on
\* both hosts, or the stack directory.
PathFollows(p, h) ==
    \/ /\ EntryName(h) # <<>>
       /\ Join(Target, EntryName(h)) = Mounted(Target, h)
    \/ /\ EntryName(h) = <<>>
       /\ Mounted(Source, p) \in {Mounted(Target, h), Source}

\* A relative path that does not climb is the name of its entry.
LEMMA RelativeFollows ==
    ASSUME PathConstants, NEW p \in Paths, NEW h, h = normaliseVolumeHostPath(p),
           NEW w \in Seq(Proper(Names)), h = Path(FALSE, w)
    PROVE  PathFollows(p, h)
<1>0. /\ Source \in Seq(Proper(Names)) /\ Target \in Seq(Proper(Names))
  BY DEF PathConstants, Proper
<1>1. Mounted(Source, h) = Source \o w
  BY <1>0, MountedBelow
<1>2. Rel(Source, Source \o w) = w
  BY <1>0, RelOfBelow
<1>3. ~hasParentRef(w)
  BY DEF hasParentRef, Proper
<1>4. EntryName(h) = w
  BY ONLY <1>1, <1>2, <1>3 DEF EntryName
<1>5. Mounted(Target, h) = Join(Target, w)
  BY DEF Mounted, Path
<1>6. Mounted(Source, p) = Source \o w
  BY <1>1, StoringKeepsDirectory
<1>7. w = <<>> => Source \o w = Source
  BY <1>0
<1> QED  BY ONLY <1>4, <1>5, <1>6, <1>7 DEF PathFollows

\* A path that stays absolute is not packed, if none of its elements only
\* looks like a step upwards.
LEMMA AbsoluteFollows ==
    ASSUME PathConstants, NEW p \in Paths, NEW h, h = normaliseVolumeHostPath(p),
           StaysAbsolute(p, h),
           \A i \in DOMAIN p.seg : p.seg[i] \notin StartsDotDot \ {".."}
    PROVE  PathFollows(p, h)
<1> DEFINE W == Names \ (StartsDotDot \ {".."})
           s == Cleaned(TRUE, p.seg)
           rel == Rel(Source, s)
<1>0. /\ ".." \in Names /\ ".." \in W /\ Source \in Seq(Proper(Names)) /\ Source \in Seq(Names)
      /\ Target \in Seq(Proper(Names))
  BY DEF PathConstants, Proper
<1>1. p.abs \in BOOLEAN /\ p.seg \in Seq(Names) /\ p = Path(p.abs, p.seg)
  BY PathOf
<1>2. p.seg \in Seq(W)
  <2>1. DOMAIN p.seg = 1..Len(p.seg) /\ Len(p.seg) \in Nat
    BY <1>1
  <2>2. \A i \in 1..Len(p.seg) : p.seg[i] \in W
    BY <1>1, <2>1
  <2> HIDE DEF W
  <2>3. p.seg \in [1..Len(p.seg) -> W]
    BY <1>1, <2>1, <2>2
  <2> QED  BY <2>1, <2>3
<1>3. s \in Seq(Proper(W)) /\ s \in Seq(Proper(Names))
  <2> HIDE DEF W
  <2> QED  BY <1>0, <1>1, <1>2, CleanedElements
<1>4. h = Path(TRUE, s) /\ (rel = <<>> \/ Head(rel) \in StartsDotDot)
  BY DEF StaysAbsolute
<1> HIDE DEF s
<1>5. s \in Seq(Names) /\ Cleaned(TRUE, s) = s
  <2>1. s \in Seq(Names)
    BY <1>3 DEF Proper
  <2>2. Cleaned(TRUE, s) = s
    BY <1>3, CleanedProper
  <2> QED  BY <2>1, <2>2
<1>6. Mounted(Source, h) = s /\ Mounted(Target, h) = s
  <2>1. Mounted(Source, Path(TRUE, s)) = Cleaned(TRUE, s)
    BY <1>0, <1>5, MountedOf
  <2>2. Mounted(Target, Path(TRUE, s)) = Cleaned(TRUE, s)
    BY <1>0, <1>5, MountedOf
  <2> QED  BY <1>4, <1>5, <2>1, <2>2
<1>7. rel = <<>> \/ hasParentRef(rel)
  <2> SUFFICES ASSUME rel # <<>>, ~hasParentRef(rel) PROVE FALSE
    OBVIOUS
  <2>1. s = Source \o rel
    BY <1>0, <1>5, RelBelow
  <2>2. rel \in Seq(Names)
    BY <1>0, <1>5, RelType
  <2> HIDE DEF rel
  <2>3. Source \o rel \in Seq(Proper(W))
    BY <1>3, <2>1
  <2>4. rel \in Seq(Proper(W))
    <3> HIDE DEF W
    <3> QED  BY <1>0, <2>2, <2>3, TailElements
  <2>5. Head(rel) \in Proper(W)
    <3> HIDE DEF W
    <3> QED  BY <2>4
  <2> QED  BY <1>4, <2>5 DEF Proper
<1>8. EntryName(h) = <<>>
  <2> HIDE DEF rel
  <2>1. EntryName(h) = IF hasParentRef(rel) THEN <<>> ELSE rel
    BY ONLY <1>6 DEF EntryName, rel
  <2> QED  BY <1>7, <2>1
<1>9. Mounted(Source, p) = s
  BY <1>6, StoringKeepsDirectory
<1> QED  BY ONLY <1>6, <1>8, <1>9 DEF PathFollows

\* The two together.
LEMMA PathsFollow ==
    ASSUME PathConstants, NEW p \in Paths, NEW h, h = normaliseVolumeHostPath(p),
           p.abs \/ ~hasParentRef(Clean(p).seg),
           \A i \in DOMAIN p.seg : p.seg[i] \notin StartsDotDot \ {".."}
    PROVE  PathFollows(p, h)
<1>0. ".." \in Names
  BY DEF PathConstants
<1>1. p.abs \in BOOLEAN /\ p.seg \in Seq(Names) /\ p = Path(p.abs, p.seg)
  BY PathOf
<1>2. StaysRelative(p, h) \/ StaysAbsolute(p, h) \/ BecomesRelative(p, h)
  BY NormaliseCases
<1>3. CASE StaysRelative(p, h)
  <2> DEFINE w == Cleaned(FALSE, p.seg)
  <2>1. p.abs = FALSE /\ h = Path(FALSE, w)
    BY <1>1, <1>3 DEF StaysRelative
  <2>2. Clean(p).seg = w
    BY <1>1, <2>1 DEF Cleaned
  <2>3. ~(w # <<>> /\ Head(w) = "..")
    <3> HIDE DEF w
    <3> QED  BY <2>1, <2>2 DEF hasParentRef
  <2>4. w \in Seq(Proper(Names))
    BY <1>0, <1>1, <2>3, CleanedHead
  <2> HIDE DEF w
  <2> QED  BY <2>1, <2>4, RelativeFollows
<1>4. CASE StaysAbsolute(p, h)
  BY <1>4, AbsoluteFollows
<1>5. CASE BecomesRelative(p, h)
  <2>1. h.seg \in Seq(Proper(Names)) /\ h = Path(FALSE, h.seg)
    BY <1>5 DEF BecomesRelative
  <2> QED  BY <2>1, RelativeFollows
<1> QED  BY <1>2, <1>3, <1>4, <1>5

-----------------------------------------------------------------------------
\* The row holds the normalised path from Store on, and only a volume below
\* the stack directory is walked.
PathInv ==
    /\ given \in Paths
    /\ host = IF pc = "store" THEN given ELSE normaliseVolumeHostPath(given)
    /\ EntryName(host) = <<>> => tar = <<>> /\ (out = "open" => next = NFiles + 1)

\* No step walks a volume that has no entry, and Store alone changes a path.
LEMMA PathStep ==
    ASSUME NFiles \in Nat \ {0}, BundleInv, PathInv, [TransferNext]_transferVars
    PROVE  PathInv'
<1> USE DEF src, export, target
<1>1. CASE \E f \in Files : Change(f)
  BY <1>1 DEF Change, PathInv
<1>2. CASE Store
  BY <1>2 DEF Store, PathInv, BundleInv, OutInv
<1>3. CASE Pack
  BY <1>3 DEF Pack, PathInv, BundleInv, OutInv
<1>4. CASE PackStat
  <2>1. out = "open" /\ next # NFiles + 1
    BY <1>4 DEF PackStat, BundleInv, OutInv, BundleTypes
  <2>2. UNCHANGED <<given, host, tar, out>> /\ pc = "stat" /\ pc' # "store"
    BY <1>4 DEF PackStat
  <2> QED  BY <2>1, <2>2 DEF PathInv
<1>5. CASE PackCopy
  <2>1. out = "open" /\ next # NFiles + 1
    BY <1>5 DEF PackCopy, BundleInv, OutInv, TarInv, BundleTypes
  <2>2. UNCHANGED <<given, host, out>> /\ pc = "copy" /\ pc' # "store"
    BY <1>5 DEF PackCopy
  <2> QED  BY <2>1, <2>2 DEF PathInv
<1>6. CASE PackEnd
  BY <1>6 DEF PackEnd, PathInv
<1>7. CASE writeNewFileFails
  <2>1. pc # "store"
    BY <1>7 DEF writeNewFileFails, BundleInv, OutInv
  <2> QED  BY <1>7, <2>1 DEF writeNewFileFails, PathInv
<1>8. CASE ImportBegin
  BY <1>8 DEF ImportBegin, PathInv
<1>9. CASE ImportEntry
  BY <1>9 DEF ImportEntry, PathInv
<1>10. CASE ImportFails
  BY <1>10 DEF ImportFails, PathInv
<1>11. CASE ImportEnd
  BY <1>11 DEF ImportEnd, PathInv
<1>12. CASE UNCHANGED transferVars
  BY <1>12 DEF transferVars, PathInv
<1> QED  BY <1>1, <1>2, <1>3, <1>4, <1>5, <1>6, <1>7, <1>8, <1>9, <1>10, <1>11, <1>12 DEF TransferNext

\* A kept bundle of a volume below the stack directory that nothing changed
\* has an entry.
LEMMA EmptyBundle ==
    ASSUME NFiles \in Nat \ {0}, BundleInv, imp = "ok", EntryName(host) # <<>>, tar = <<>>
    PROVE  changes > 0
<1>1. changes \in Nat
  BY DEF BundleInv, BundleTypes
<1>2. changes # 0
  <2> SUFFICES ASSUME changes = 0 PROVE FALSE
    OBVIOUS
  <2>1. out = "kept"
    BY DEF BundleInv, ImportInv
  <2>2. next = NFiles + 1
    BY <2>1 DEF BundleInv, UndisturbedInv
  <2>3. 1 \in Files /\ 1 < next
    BY <2>2 DEF Files
  <2>4. \E i \in DOMAIN tar : tar[i].file = 1
    BY <2>1, <2>3 DEF BundleInv, UndisturbedInv
  <2> QED  BY <2>4
<1> QED  BY <1>1, <1>2

\* Storing a path never changes which directory it is, and storing it again
\* changes nothing (normaliseVolumeHostPath); what an import extracts is where
\* the containers of the target mount it, and what it does not extract is
\* outside the stack at the same place on both hosts, is the stack directory,
\* or was removed while it was packed (writeProjectTarball, importTarball): for
\* every pair of stack directories and every path.
THEOREM DataFollows == TransferSpec => []DataFollowsMount
<1>0. NFiles \in Nat \ {0} /\ PathConstants
  BY TransferAssumption, PathAssumption DEF PathConstants
<1>1. TransferInit => PathInv
  BY DEF TransferInit, PathInv
<1>2. BundleInv /\ PathInv /\ [TransferNext]_transferVars => PathInv'
  BY <1>0, PathStep
<1>3. ASSUME BundleInv, PathInv PROVE DataFollowsMount
  <2>0. given \in Paths
    BY <1>3 DEF PathInv
  <2>1. ASSUME pc # "store"
        PROVE  /\ Mounted(Source, host) = Mounted(Source, given)
               /\ normaliseVolumeHostPath(host) = host
    <3>1. host = normaliseVolumeHostPath(given)
      BY <1>3, <2>1 DEF PathInv
    <3>2. Mounted(Source, host) = Mounted(Source, given)
      BY <1>0, <2>0, <3>1, StoringKeepsDirectory
    <3>3. normaliseVolumeHostPath(host) = host
      BY <1>0, <2>0, <3>1, StoringTwice
    <3> QED  BY <3>2, <3>3
  <2>2. ASSUME imp = "ok",
               given.abs \/ ~hasParentRef(Clean(given).seg),
               \A i \in DOMAIN given.seg : given.seg[i] \notin StartsDotDot \ {".."}
        PROVE  IF tar # <<>> THEN Join(Target, EntryName(host)) = Mounted(Target, host)
               ELSE \/ Mounted(Source, given) \in {Mounted(Target, host), Source}
                    \/ EntryName(host) # <<>> /\ changes > 0
    <3>1. pc # "store"
      BY <1>3, <2>2 DEF BundleInv, ImportInv, OutInv
    <3>2. host = normaliseVolumeHostPath(given)
      BY <1>3, <3>1 DEF PathInv
    <3>3. PathFollows(given, host)
      BY <1>0, <2>0, <2>2, <3>2, PathsFollow
    <3>4. EntryName(host) = <<>> => tar = <<>>
      BY <1>3 DEF PathInv
    <3>5. EntryName(host) # <<>> /\ tar = <<>> => changes > 0
      BY <1>0, <1>3, <2>2, EmptyBundle
    <3> QED  BY ONLY <3>3, <3>4, <3>5 DEF PathFollows
  <2> QED  BY <2>1, <2>2 DEF DataFollowsMount
<1> QED  BY <1>1, <1>2, <1>3, BundleInvariant, PTL DEF TransferSpec
=============================================================================
