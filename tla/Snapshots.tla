------------------------------ MODULE Snapshots ------------------------------
(***************************************************************************)
(* The off-host snapshots of ops/snapshot: bbsit-snapshot-export publishes *)
(* runs on the bbsit host, bbsit-snapshot-pull copies them to the backup   *)
(* server, verifies them, moves the latest link, promotes them to weekly   *)
(* and monthly recovery points and prunes.  The scripts run on two         *)
(* machines, each under its own lock, and read and delete the same runs.   *)
(*                                                                         *)
(* A run id is a number that grows as its timestamp does.  A directory is  *)
(* the set of its entries: "dir" for itself, "data" for what SHA256SUMS    *)
(* ("sums") covers, and the markers.  A rename is atomic and survives a    *)
(* power loss; an entry that was not flushed may be lost.                  *)
(***************************************************************************)
EXTENDS Integers, Sequences, FiniteSets, FiniteSetsExt

CONSTANTS MaxRuns,         \* exports that are attempted
          SourceKeep,      \* SOURCE_KEEP_READY
          KeepDaily,       \* KEEP_DAILY
          KeepPoints,      \* KEEP_WEEKLY and KEEP_MONTHLY
          PeriodLength,    \* runs per week and per month, in this order
          MaxSourceCrashes, MaxPullCrashes, MaxFails

ASSUME SnapshotsAssumption ==
    /\ {MaxRuns, SourceKeep, KeepDaily} \subseteq Nat \ {0}
    /\ {KeepPoints, MaxSourceCrashes, MaxPullCrashes, MaxFails} \subseteq Nat
    /\ PeriodLength \in Seq(Nat \ {0})

VARIABLES
    epc, erun, stage, flushed,           \* the exporter, its .partial directory
    ready,                               \* ready/ on the source
    ppc, prun, partial, pflushed,        \* the puller, its .partial directories
    after, kind,                         \* what follows retention; promotion's loop
    daily, latest, points,               \* what the backup server keeps
    crashed, fails                       \* bounds

source == <<epc, erun, stage, flushed, ready>>
puller == <<ppc, prun, pflushed, after, kind>>
server == <<partial, daily, latest, points>>
vars == <<source, puller, server, crashed, fails>>

Runs == 1..MaxRuns
Kinds == DOMAIN PeriodLength
Period(k, r) == (r - 1) \div PeriodLength[k]
Entries == {"dir", "data", "sums", "complete", "files", "verified"}
Published == {"dir", "data", "sums", "complete"}

Init ==
    /\ epc = "idle" /\ erun = 0 /\ stage = {} /\ flushed = {}
    /\ ready = [r \in Runs |-> {}]
    /\ ppc = "idle" /\ prun = 0 /\ pflushed = {} /\ after = "idle" /\ kind = 1
    /\ partial = [r \in Runs |-> {}] /\ daily = [r \in Runs |-> {}]
    /\ latest = 0
    /\ points = [k \in Kinds |-> [p \in 0..MaxRuns |-> {}]]
    /\ crashed = [source |-> 0, puller |-> 0] /\ fails = 0

-----------------------------------------------------------------------------
Present(dirs) == {i \in DOMAIN dirs : "dir" \in dirs[i]}
NewestOf(S, n) == {i \in S : Cardinality({j \in S : j > i}) < n}
Expired(dirs, n) == Present(dirs) \ NewestOf(Present(dirs), n)

\* One step of rm -rf where somebody may be reading: an entry, in any order,
\* and at last the directory.
RmEntry[dir \in SUBSET Entries] == {dir \ {e} : e \in IF dir = {"dir"} THEN dir ELSE dir \ {"dir"}}

\* The same where nobody reads, as two steps that a crash can separate.
RmTree[dir \in SUBSET Entries] == IF dir = {"dir"} THEN {{}} ELSE {{"dir"}}

\* The pruning loop removes the oldest expired directory first.
RemoveOldest(dirs, n, rm) ==
    LET i == Min(Expired(dirs, n)) IN {[dirs EXCEPT ![i] = left] : left \in rm[dirs[i]]}

\* What a power loss leaves of a directory.
Survivors(dir, safe) == {(dir \cap safe) \cup lost : lost \in SUBSET (dir \ safe)}

-----------------------------------------------------------------------------
(* The exporter.                                                           *)

\* flock, a new run id, mkdir.
ExportBegin ==
    /\ epc = "idle" /\ erun < MaxRuns
    /\ epc' = "payload" /\ erun' = erun + 1 /\ stage' = {"dir"} /\ flushed' = {"dir"}
    /\ UNCHANGED <<ready, puller, server, crashed, fails>>

\* Database, configuration, secrets, project backups, hooks.
ExportPayload ==
    /\ epc = "payload" /\ epc' = "sums" /\ stage' = stage \cup {"data"}
    /\ UNCHANGED <<erun, flushed, ready, puller, server, crashed, fails>>

ExportSums ==
    /\ epc = "sums" /\ epc' = "flush" /\ stage' = stage \cup {"sums"}
    /\ UNCHANGED <<erun, flushed, ready, puller, server, crashed, fails>>

\* sync of every file.
ExportFlush ==
    /\ epc = "flush" /\ epc' = "complete" /\ flushed' = stage
    /\ UNCHANGED <<erun, stage, ready, puller, server, crashed, fails>>

\* The marker, with its own sync.
ExportComplete ==
    /\ epc = "complete" /\ epc' = "publish"
    /\ stage' = stage \cup {"complete"} /\ flushed' = flushed \cup {"complete"}
    /\ UNCHANGED <<erun, ready, puller, server, crashed, fails>>

ExportPublish ==
    /\ epc = "publish" /\ epc' = "prune"
    /\ ready' = [ready EXCEPT ![erun] = stage] /\ stage' = {}
    /\ UNCHANGED <<erun, flushed, puller, server, crashed, fails>>

ExportPrune ==
    /\ epc = "prune"
    /\ IF Expired(ready, SourceKeep) = {}
       THEN epc' = "idle" /\ ready' = ready
       ELSE ready' \in RemoveOldest(ready, SourceKeep, RmEntry) /\ epc' = epc
    /\ UNCHANGED <<erun, stage, flushed, puller, server, crashed, fails>>

\* A command fails before the rename: on_exit moves the directory to failed/.
ExportFails ==
    /\ epc \in {"payload", "sums", "flush", "complete", "publish"}
    /\ fails < MaxFails /\ fails' = fails + 1
    /\ epc' = "idle" /\ stage' = {}
    /\ UNCHANGED <<erun, flushed, ready, puller, server, crashed>>

\* The host loses power.  A .partial directory stays behind and is not read
\* again, because the next run has another id.
SourceCrash ==
    /\ crashed.source < MaxSourceCrashes
    /\ crashed' = [crashed EXCEPT !.source = @ + 1]
    /\ epc' = "idle" /\ stage' = {}
    /\ IF erun = 0 THEN ready' = ready
       ELSE \E left \in Survivors(ready[erun], flushed) : ready' = [ready EXCEPT ![erun] = left]
    /\ UNCHANGED <<erun, flushed, puller, server, fails>>

-----------------------------------------------------------------------------
(* The puller.                                                             *)

NewestReady == Max({0} \cup Present(ready))

\* flock and check_capacity, which may prune before anything else.
PullBegin ==
    /\ ppc = "idle" /\ prun' = 0 /\ pflushed' = {} /\ kind' = 1
    /\ \/ ppc' = "list" /\ after' = "idle"
       \/ ppc' = "retain" /\ after' = "list"
    /\ UNCHANGED <<source, server, crashed, fails>>

\* The newest run of the source, unless it is there already or was begun and
\* never ended.
PullList ==
    /\ ppc = "list"
    /\ \/ /\ NewestReady \in {0} \cup Present(daily)
          /\ ppc' = "retain" /\ after' = "idle"
          /\ UNCHANGED <<prun, pflushed, partial>>
       \/ /\ NewestReady \in Present(partial) \ Present(daily)
          /\ ppc' = "idle" /\ UNCHANGED <<prun, pflushed, after, partial>>
       \/ /\ NewestReady \in Runs \ (Present(daily) \cup Present(partial))
          /\ ppc' = "rsync" /\ prun' = NewestReady /\ pflushed' = {"dir"}
          /\ partial' = [partial EXCEPT ![NewestReady] = {"dir"}]
          /\ UNCHANGED after
    /\ UNCHANGED <<source, kind, daily, latest, points, crashed, fails>>

\* rsync copies the entries one by one, while the exporter may remove them.
PullCopy ==
    /\ ppc = "rsync"
    /\ IF ready[prun] \subseteq partial[prun]
       THEN ppc' = "verify" /\ partial' = partial
       ELSE \E e \in ready[prun] \ partial[prun] :
              partial' = [partial EXCEPT ![prun] = @ \cup {e}] /\ ppc' = ppc
    /\ UNCHANGED <<source, prun, pflushed, after, kind, daily, latest, points, crashed, fails>>

MutPullVerify ==
    /\ ppc = "verify"
    /\ IF "complete" \in partial[prun]
       THEN ppc' = "filesets" /\ partial' = partial
       ELSE ppc' = "idle" /\ partial' = [partial EXCEPT ![prun] = {}]
    /\ UNCHANGED <<source, prun, pflushed, after, kind, daily, latest, points, crashed, fails>>

\* The marker, the list of checksums and the files it names must be there;
\* otherwise on_exit moves the directory to failed/.
PullVerify ==
    /\ ppc = "verify"
    /\ IF Published \subseteq partial[prun]
       THEN ppc' = "filesets" /\ partial' = partial
       ELSE ppc' = "idle" /\ partial' = [partial EXCEPT ![prun] = {}]
    /\ UNCHANGED <<source, prun, pflushed, after, kind, daily, latest, points, crashed, fails>>

\* The immutable filesets and their checksums, then the .verified marker.
PullFilesets ==
    /\ ppc = "filesets" /\ ppc' = "sync"
    /\ partial' = [partial EXCEPT ![prun] = @ \cup {"files", "verified"}]
    /\ UNCHANGED <<source, prun, pflushed, after, kind, daily, latest, points, crashed, fails>>

MutLinkFirst ==
    /\ ppc = "sync" /\ ppc' = "move" /\ pflushed' = partial[prun] /\ latest' = prun
    /\ UNCHANGED <<source, prun, after, kind, partial, daily, points, crashed, fails>>

\* sync of every file of the snapshot.
PullSync ==
    /\ ppc = "sync" /\ ppc' = "move" /\ pflushed' = partial[prun]
    /\ UNCHANGED <<source, prun, after, kind, server, crashed, fails>>

\* The rename into daily/.
PullMove ==
    /\ ppc = "move" /\ ppc' = "link"
    /\ daily' = [daily EXCEPT ![prun] = partial[prun]]
    /\ partial' = [partial EXCEPT ![prun] = {}]
    /\ UNCHANGED <<source, prun, pflushed, after, kind, latest, points, crashed, fails>>

\* The rename of a new link over latest.
PullLink ==
    /\ ppc = "link" /\ ppc' = "promote" /\ kind' = 1 /\ latest' = prun
    /\ UNCHANGED <<source, prun, pflushed, after, partial, daily, points, crashed, fails>>

\* promote_run asks whether the period has its recovery point already.
Promote ==
    /\ ppc = "promote"
    /\ IF kind \notin Kinds
       THEN ppc' = "retain" /\ after' = "idle" /\ UNCHANGED <<kind, points>>
       ELSE LET p == Period(kind, prun) IN
            IF "dir" \in points[kind][p]
            THEN kind' = kind + 1 /\ UNCHANGED <<ppc, after, points>>
            ELSE /\ ppc' = "cp" /\ points' = [points EXCEPT ![kind][p] = {"dir"}]
                 /\ UNCHANGED <<kind, after>>
    /\ UNCHANGED <<source, prun, pflushed, partial, daily, latest, crashed, fails>>

\* cp -al, which a crash or a failure may interrupt, has made the directory
\* before it links what is in it.
PromoteCopy ==
    /\ ppc = "cp" /\ ppc' = "promote" /\ kind' = kind + 1
    /\ points' = [points EXCEPT ![kind][Period(kind, prun)] = daily[prun]]
    /\ UNCHANGED <<source, prun, pflushed, after, partial, daily, latest, crashed, fails>>

\* apply_retention: daily/ first, then weekly/ and monthly/.
Retain ==
    /\ ppc = "retain"
    /\ \/ /\ Expired(daily, KeepDaily) # {}
          /\ daily' \in RemoveOldest(daily, KeepDaily, RmTree) /\ UNCHANGED <<ppc, points>>
       \/ /\ Expired(daily, KeepDaily) = {}
          /\ \E k \in Kinds :
               /\ Expired(points[k], KeepPoints) # {}
               /\ \A j \in 1..(k - 1) : Expired(points[j], KeepPoints) = {}
               /\ \E dirs \in RemoveOldest(points[k], KeepPoints, RmTree) :
                    points' = [points EXCEPT ![k] = dirs]
          /\ UNCHANGED <<ppc, daily>>
       \/ /\ Expired(daily, KeepDaily) = {}
          /\ \A k \in Kinds : Expired(points[k], KeepPoints) = {}
          /\ ppc' = after /\ UNCHANGED <<daily, points>>
    /\ UNCHANGED <<source, prun, pflushed, after, kind, partial, latest, crashed, fails>>

MutPullFails ==
    /\ ppc # "idle" /\ fails < MaxFails /\ fails' = fails + 1
    /\ ppc' = "idle"
    /\ UNCHANGED <<source, prun, pflushed, after, kind, server, crashed>>

\* A command fails, or the disk is over its limit.  Before the rename into
\* daily/, on_exit moves the directory to failed/.
PullFails ==
    /\ ppc # "idle" /\ fails < MaxFails /\ fails' = fails + 1
    /\ ppc' = "idle"
    /\ partial' = [r \in Runs |->
         IF r = prun /\ ppc \in {"rsync", "verify", "filesets", "sync", "move"}
         THEN {} ELSE partial[r]]
    /\ UNCHANGED <<source, prun, pflushed, after, kind, daily, latest, points, crashed>>

\* The backup server loses power.
PullCrash ==
    /\ ppc # "idle"
    /\ crashed.puller < MaxPullCrashes
    /\ crashed' = [crashed EXCEPT !.puller = @ + 1]
    /\ ppc' = "idle"
    /\ IF prun = 0 THEN UNCHANGED <<partial, daily>>
       ELSE /\ \E left \in Survivors(partial[prun], pflushed) : partial' = [partial EXCEPT ![prun] = left]
            /\ \E left \in Survivors(daily[prun], pflushed) : daily' = [daily EXCEPT ![prun] = left]
    /\ UNCHANGED <<source, prun, pflushed, after, kind, latest, points, fails>>

-----------------------------------------------------------------------------
Export == \/ ExportBegin \/ ExportPayload \/ ExportSums \/ ExportFlush
          \/ ExportComplete \/ ExportPublish \/ ExportPrune
PullStep == \/ PullBegin \/ PullList \/ PullCopy \/ PullVerify \/ PullFilesets
            \/ PullSync \/ PullMove \/ PullLink \/ Promote \/ PromoteCopy \/ Retain
Faults == ExportFails \/ SourceCrash \/ PullFails \/ PullCrash

Next == Export \/ PullStep \/ Faults

Spec == Init /\ [][Next]_vars

\* The puller's timer is persistent, its service has a timeout of twelve hours
\* and its commands return.  Nothing is assumed of the exporter.
FairSpec == Spec /\ WF_vars(PullStep)

-----------------------------------------------------------------------------
TypeOK ==
    /\ epc \in {"idle", "payload", "sums", "flush", "complete", "publish", "prune"}
    /\ erun \in 0..MaxRuns /\ stage \subseteq Published /\ flushed \subseteq Published
    /\ ready \in [Runs -> SUBSET Published]
    /\ ppc \in {"idle", "list", "rsync", "verify", "filesets", "sync", "move", "link",
                "promote", "cp", "retain"}
    /\ prun \in 0..MaxRuns /\ pflushed \subseteq Entries
    /\ after \in {"idle", "list"} /\ kind \in 1..(Len(PeriodLength) + 1)
    /\ partial \in [Runs -> SUBSET Entries] /\ daily \in [Runs -> SUBSET Entries]
    /\ latest \in 0..MaxRuns
    /\ points \in [Kinds -> [0..MaxRuns -> SUBSET Entries]]
    /\ crashed.source \in 0..MaxSourceCrashes /\ crashed.puller \in 0..MaxPullCrashes
    /\ fails \in 0..MaxFails
    /\ ppc \in {"rsync", "verify", "filesets", "sync", "move"} => "dir" \in partial[prun]

\* The runs of ready/ that the exporter keeps are complete, and the newest daily
\* snapshots hold everything the source published: the flushes come before the
\* renames and only older runs are removed, whatever a power loss or an
\* interrupted rm leaves, although the exporter may remove a run while it is
\* copied.
KeptRunsAreWhole ==
    /\ \A r \in NewestOf(Present(ready), SourceKeep) : ready[r] = Published
    /\ \A r \in NewestOf(Present(daily), KeepDaily) : daily[r] = Entries

\* The latest link never dangles and never names an incomplete snapshot, as
\* long as fewer commands have failed than snapshots are kept.  A pull that ends
\* between its two renames leaves the link one snapshot behind, and only such
\* pulls matter; the condition counts every failure, the exporter's too, since
\* the first one.
LatestIsWhole ==
    latest # 0 /\ fails + crashed.puller < KeepDaily => daily[latest] = Entries

\* When the exports have ended, the newest run comes to be a daily snapshot,
\* after failing pulls and pulls that lost their race with the exporter.  (A
\* power loss during the copy leaves a .partial directory, and that run is
\* refused from then on.)
NewestArrives ==
    <>[](crashed.puller = 0 => NewestReady \in {0} \cup Present(daily))
=============================================================================
