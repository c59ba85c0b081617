-------------------------- MODULE SnapshotsProofs --------------------------
(***************************************************************************)
(* Proofs about the off-host snapshots: for any number of runs, any        *)
(* retention, and any failures and power losses on both machines, what     *)
(* exporter and puller keep is whole.                                      *)
(***************************************************************************)
EXTENDS Snapshots, FiniteSetTheorems, WellFoundedInduction, TLAPS

\* The puller works on a run that is not in daily/ yet.
Copying == {"rsync", "verify", "filesets", "sync", "move"}
Writing == {"payload", "sums", "flush", "complete", "publish"}

Types ==
    /\ epc \in Writing \cup {"idle", "prune"} /\ erun \in 0..MaxRuns
    /\ stage \subseteq Published /\ flushed \subseteq Published
    /\ ready \in [Runs -> SUBSET Published]
    /\ ppc \in Copying \cup {"idle", "list", "link", "promote", "cp", "retain"}
    /\ prun \in 0..MaxRuns /\ pflushed \subseteq Entries /\ after \in {"idle", "list"}
    /\ partial \in [Runs -> SUBSET Entries] /\ daily \in [Runs -> SUBSET Entries]
    /\ latest \in 0..MaxRuns
    /\ crashed \in [source : Nat, puller : Nat] /\ fails \in Nat

\* What of the staged run is there, what of it is flushed, and that a run is
\* published under its own id.
StageInv ==
    /\ \A r \in Runs : r > erun \/ (r = erun /\ epc \in Writing) => ready[r] = {}
    /\ erun # 0 => ready[erun] \subseteq flushed
    /\ epc \in Writing => erun # 0
    /\ epc = "payload" => stage = {"dir"}
    /\ epc = "sums" => stage = {"dir", "data"}
    /\ epc = "flush" => stage = {"dir", "data", "sums"}
    /\ epc = "complete" => stage = {"dir", "data", "sums"} /\ flushed = stage
    /\ epc = "publish" => stage = Published /\ flushed = Published

ReadyInv == \A r \in NewestOf(Present(ready), SourceKeep) : ready[r] = Published

\* Some run of ready/ is at least as new.
Reached(r) == \E q \in Present(ready) : r <= q

\* What of the copied run is there and flushed; and that it is newer than
\* every snapshot of daily/.
CopyInv ==
    /\ \A r \in Runs : daily[r] = {} \/ "dir" \in daily[r]
    /\ \A r \in Present(daily) : Reached(r)
    /\ prun # 0 => daily[prun] \subseteq pflushed
    /\ ppc \in Copying => /\ prun # 0 /\ daily[prun] = {} /\ Reached(prun)
                          /\ \A r \in Present(daily) : r < prun
    /\ ppc = "filesets" => Published \subseteq partial[prun]
    /\ ppc \in {"sync", "move"} => partial[prun] = Entries
    /\ ppc = "move" => pflushed = Entries
    /\ ppc = "link" => /\ prun # 0 /\ daily[prun] = Entries
                       /\ \A r \in Present(daily) : r <= prun

DailyInv == \A r \in NewestOf(Present(daily), KeepDaily) : daily[r] = Entries

\* The snapshots that latest does not name yet.
Behind == {r \in Present(daily) : r > latest}

\* Every one of them but the one being linked has cost a failed pull.
LatestInv ==
    /\ Cardinality(Behind) <= fails + crashed.puller + (IF ppc = "link" THEN 1 ELSE 0)
    /\ LatestIsWhole

SnapInv == Types /\ StageInv /\ ReadyInv /\ CopyInv /\ DailyInv /\ LatestInv

-----------------------------------------------------------------------------
(* Numbers and retention.                                                  *)

\* A nonempty set of natural numbers has a least element.
LEMMA LeastExists ==
    ASSUME NEW S \in SUBSET Nat, S # {}
    PROVE  \E x \in S : \A y \in S : x <= y
<1>1. PICK x \in S : \A y \in S : ~(<<y, x>> \in OpToRel(<, Nat))
  BY NatLessThanWellFounded, WFMin
<1>2. ASSUME NEW y \in S
      PROVE  x <= y
  <2>1. x \in Nat /\ y \in Nat
    OBVIOUS
  <2>2. ~(y < x)
    BY <1>1, <2>1, Zenon DEF OpToRel
  <2> QED BY <2>1, <2>2
<1> QED BY <1>2

\* Min is the least element.
LEMMA MinIsLeast ==
    ASSUME NEW S \in SUBSET Nat, S # {}
    PROVE  Min(S) \in S /\ \A y \in S : Min(S) <= y
BY LeastExists DEF Min

\* Max is the greatest element of a nonempty set that has a bound.
LEMMA MaxIsGreatest ==
    ASSUME NEW n \in Nat, NEW S \in SUBSET (0..n), S # {}
    PROVE  Max(S) \in S /\ \A y \in S : Max(S) >= y
<1> DEFINE C == {n - x : x \in S}
<1>0. \A x \in S : n - x \in Nat
  BY SMT
<1>1. C \in SUBSET Nat /\ C # {}
  BY <1>0, Zenon
<1>2. PICK c \in C : \A d \in C : c <= d
  BY <1>1, LeastExists
<1>3. PICK x \in S : c = n - x
  BY <1>2
<1>4. \A y \in S : x >= y
  BY <1>2, <1>3
<1> QED BY <1>4 DEF Max

\* The sets that retention counts are finite.
LEMMA SubsetFinite ==
    ASSUME NEW n \in Nat, NEW S \in SUBSET (0..n)
    PROVE  IsFiniteSet(S) /\ Cardinality(S) \in Nat
<1>1. IsFiniteSet(0..n)
  BY FS_Interval
<1>2. IsFiniteSet(S)
  BY <1>1, FS_Subset
<1> QED BY <1>2, FS_CardinalityType

\* A smaller set has no more elements.
LEMMA FewerElements ==
    ASSUME NEW m \in Nat, NEW S \in SUBSET (0..m), NEW T \in SUBSET S
    PROVE  Cardinality(T) <= Cardinality(S)
BY SubsetFinite, FS_Subset

\* Removing an expired element makes no other one newest.
LEMMA NewestRemove ==
    ASSUME NEW m \in Nat, NEW S \in SUBSET (0..m), NEW n \in Nat,
           NEW i \in S \ NewestOf(S, n)
    PROVE  NewestOf(S \ {i}, n) \subseteq NewestOf(S, n)
<1> SUFFICES ASSUME NEW k \in NewestOf(S \ {i}, n)
             PROVE  k \in NewestOf(S, n)
  OBVIOUS
<1> DEFINE A(x) == {j \in S : j > x}
<1>0. k \in S /\ k # i /\ k \in Int /\ i \in Int
  BY DEF NewestOf
<1>1. \A x : A(x) \in SUBSET (0..m) /\ Cardinality(A(x)) \in Nat
  BY SubsetFinite
<1>2. ~(Cardinality(A(i)) < n)
  BY DEF NewestOf
<1>3. CASE i < k
  <2>1. {j \in S \ {i} : j > k} = A(k)
    BY <1>0, <1>3
  <2> QED BY <2>1, <1>0 DEF NewestOf
<1>4. CASE i > k
  <2> DEFINE B == {j \in S \ {i} : j > k}
  <2>1. A(i) \in SUBSET B
    <3>1. \A j \in S : j > i => j > k /\ j # i
      BY <1>0, <1>4
    <3> QED BY <3>1, Zenon
  <2>0. B \in SUBSET (0..m)
    OBVIOUS
  <2>2. Cardinality(A(i)) <= Cardinality(B) /\ Cardinality(B) \in Nat
    BY <2>0, <2>1, FewerElements, SubsetFinite
  <2>3. Cardinality(B) < n
    BY DEF NewestOf
  <2> HIDE DEF A, B
  <2> QED BY <2>2, <2>3, <1>1, <1>2
<1> QED BY <1>0, <1>3, <1>4

\* Adding an element that is newer than all makes no old one newest.
LEMMA NewestAdd ==
    ASSUME NEW m \in Nat, NEW S \in SUBSET (0..m), NEW n \in Nat, NEW x \in 0..m
    PROVE  NewestOf(S \cup {x}, n) \subseteq NewestOf(S, n) \cup {x}
<1> SUFFICES ASSUME NEW k \in NewestOf(S \cup {x}, n), k # x
             PROVE  k \in NewestOf(S, n)
  OBVIOUS
<1> DEFINE A == {j \in S : j > k}  B == {j \in S \cup {x} : j > k}
<1>1. k \in S /\ Cardinality(B) < n
  BY DEF NewestOf
<1>2. A \in SUBSET B /\ B \in SUBSET (0..m) /\ A \in SUBSET (0..m)
  OBVIOUS
<1>3. Cardinality(A) <= Cardinality(B) /\ Cardinality(B) \in Nat /\ Cardinality(A) \in Nat
  BY <1>2, FewerElements, SubsetFinite
<1>4. Cardinality(A) < n
  BY <1>1, <1>3
<1> QED BY <1>1, <1>4 DEF NewestOf

\* An expired element has a newer one.
LEMMA NewestAbove ==
    ASSUME NEW m \in Nat, NEW S \in SUBSET (0..m), NEW n \in Nat \ {0},
           NEW i \in S \ NewestOf(S, n)
    PROVE  \E j \in S : j > i
<1> SUFFICES ASSUME {j \in S : j > i} = {}
             PROVE  FALSE
  OBVIOUS
<1>1. Cardinality({j \in S : j > i}) = 0
  BY FS_EmptySet
<1> QED BY <1>1 DEF NewestOf

\* What pruning does: it leaves less of one expired directory, which is listed
\* as long as anything of it is there.
Shrinks(dirs, n, new) ==
    \E i \in Expired(dirs, n) : \E left \in SUBSET dirs[i] :
      new = [dirs EXCEPT ![i] = left] /\ (left = {} \/ "dir" \in left)

\* What retention owes: it touches none of the newest directories, and lists no
\* directory that was not among the newest as one of them.
KeepsNewest(dirs, n, new) ==
    /\ DOMAIN new = DOMAIN dirs /\ Present(new) \subseteq Present(dirs)
    /\ \A r \in DOMAIN dirs :
         /\ new[r] \subseteq dirs[r]
         /\ new[r] = dirs[r] \/ new[r] = {} \/ "dir" \in new[r]
         /\ r \in NewestOf(Present(dirs), n) => new[r] = dirs[r]
    /\ \A r \in NewestOf(Present(new), n) : r \in NewestOf(Present(dirs), n)
    /\ \A r \in Present(dirs) : \E q \in Present(new) : r <= q

\* A pruning step leaves less of one expired directory, which is listed as
\* long as anything of it is there.
LEMMA OneShrinks ==
    ASSUME NEW m \in Nat, NEW dirs \in [1..m -> SUBSET Entries], NEW n \in Nat \ {0},
           Expired(dirs, n) # {}, NEW rm, rm = RmEntry \/ rm = RmTree,
           NEW new \in RemoveOldest(dirs, n, rm)
    PROVE  Shrinks(dirs, n, new)
<1> DEFINE i == Min(Expired(dirs, n))
<1>1. Expired(dirs, n) \in SUBSET Nat /\ Expired(dirs, n) \subseteq Present(dirs)
  BY DEF Expired, Present
<1>2. i \in Expired(dirs, n) /\ i \in 1..m /\ "dir" \in dirs[i]
  <2>1. i \in Expired(dirs, n)
    BY <1>1, MinIsLeast
  <2> QED BY <2>1, <1>1 DEF Present
<1>3. dirs[i] \in SUBSET Entries
  BY <1>2
<1>4. PICK left \in rm[dirs[i]] : new = [dirs EXCEPT ![i] = left]
  BY DEF RemoveOldest
<1> HIDE DEF i
<1>5. left \in SUBSET dirs[i] /\ (left = {} \/ "dir" \in left)
  <2>1. CASE rm = RmEntry
    <3>1. RmEntry[dirs[i]] = {dirs[i] \ {e} : e \in IF dirs[i] = {"dir"} THEN dirs[i] ELSE dirs[i] \ {"dir"}}
      BY <1>3 DEF RmEntry
    <3>2. PICK e \in IF dirs[i] = {"dir"} THEN dirs[i] ELSE dirs[i] \ {"dir"} : left = dirs[i] \ {e}
      BY <1>4, <2>1, <3>1
    <3> QED BY <3>2, <1>2
  <2>2. CASE rm = RmTree
    <3>1. RmTree[dirs[i]] = IF dirs[i] = {"dir"} THEN {{}} ELSE {{"dir"}}
      BY <1>3 DEF RmTree
    <3>2. left = {} \/ left = {"dir"}
      BY <1>4, <2>2, <3>1
    <3> QED BY <3>2, <1>2
  <2> QED BY <2>1, <2>2
<1> QED BY <1>2, <1>4, <1>5 DEF Shrinks

\* Pruning keeps the newest directories.
LEMMA PruningKeepsNewest ==
    ASSUME NEW m \in Nat, NEW dirs \in [1..m -> SUBSET Entries], NEW n \in Nat \ {0},
           NEW new, Shrinks(dirs, n, new)
    PROVE  KeepsNewest(dirs, n, new)
<1>0. PICK i \in Expired(dirs, n) : \E left \in SUBSET dirs[i] :
        new = [dirs EXCEPT ![i] = left] /\ (left = {} \/ "dir" \in left)
  BY DEF Shrinks
<1>a. PICK left \in SUBSET dirs[i] : new = [dirs EXCEPT ![i] = left] /\ (left = {} \/ "dir" \in left)
  BY <1>0
<1>1. i \in 1..m /\ i \in Present(dirs) /\ i \notin NewestOf(Present(dirs), n)
  BY DEF Expired, Present
<1>2. new \in [1..m -> SUBSET Entries] /\ new[i] = left /\ \A r \in 1..m : r # i => new[r] = dirs[r]
  <2>1. dirs[i] \in SUBSET Entries
    BY <1>1
  <2> QED BY <1>a, <1>1, <2>1
<1>3. Present(dirs) \in SUBSET (0..m) /\ Present(dirs) \in SUBSET (1..m) /\ DOMAIN new = 1..m
  BY <1>2 DEF Present
<1>4. Present(new) = Present(dirs) \/ Present(new) = Present(dirs) \ {i}
  <2>1. CASE left = {}
    BY <2>1, <1>1, <1>2, <1>3 DEF Present
  <2>2. CASE "dir" \in left
    BY <2>2, <1>1, <1>2, <1>3 DEF Present
  <2> QED BY <1>a, <2>1, <2>2
<1>5. NewestOf(Present(new), n) \subseteq NewestOf(Present(dirs), n)
  BY <1>1, <1>3, <1>4, NewestRemove
<1>6. ASSUME NEW r \in 1..m
      PROVE  /\ new[r] \subseteq dirs[r]
             /\ new[r] = dirs[r] \/ new[r] = {} \/ "dir" \in new[r]
             /\ r \in NewestOf(Present(dirs), n) => new[r] = dirs[r]
  BY <1>a, <1>1, <1>2
<1>7. ASSUME NEW r \in Present(dirs)
      PROVE  \E q \in Present(new) : r <= q
  <2>1. PICK j \in Present(dirs) : j > i
    BY <1>1, <1>3, NewestAbove
  <2>2. r \in 1..m /\ i \in 1..m /\ j \in 1..m
    BY <1>1, <1>3, <2>1, Zenon
  <2>3. CASE r = i
    <3>1. j # i /\ r <= j
      BY <2>1, <2>2, <2>3
    <3>2. j \in Present(new)
      BY <1>4, <2>1, <3>1, Zenon
    <3> QED BY <3>1, <3>2
  <2>4. CASE r # i
    <3>1. r \in Present(new)
      BY <1>4, <2>4, Zenon
    <3>2. r <= r
      BY <2>2
    <3> QED BY <3>1, <3>2
  <2> QED BY <2>3, <2>4
<1>8. DOMAIN dirs = 1..m /\ Present(new) \subseteq Present(dirs)
  BY <1>4
<1> QED BY <1>3, <1>5, <1>6, <1>7, <1>8 DEF KeepsNewest

-----------------------------------------------------------------------------
(* The exporter.                                                           *)

\* What a step of the source owes: its own invariants, and that ready/ still
\* reaches as far as it did.
SourceKept ==
    /\ Types' /\ StageInv' /\ ReadyInv'
    /\ \A r \in Nat : Reached(r) => Reached(r)'

\* The constants, one by one.
LEMMA Constants ==
    /\ MaxRuns \in Nat
    /\ SourceKeep \in Nat \ {0} /\ SourceKeep \in Nat
    /\ KeepDaily \in Nat \ {0} /\ KeepDaily \in Nat
BY SnapshotsAssumption

\* ready/ is a directory of snapshots in the sense of the lemmas above.
LEMMA ReadyType ==
    ASSUME SnapInv
    PROVE  /\ ready \in [1..MaxRuns -> SUBSET Entries] /\ MaxRuns \in Nat
           /\ Present(ready) \in SUBSET (0..MaxRuns) /\ Present(ready) \in SUBSET (1..MaxRuns)
<1>1. MaxRuns \in Nat
  BY SnapshotsAssumption
<1>2. ready \in [1..MaxRuns -> SUBSET Entries]
  BY DEF SnapInv, Types, Runs, Published, Entries
<1>3. Present(ready) \in SUBSET (1..MaxRuns)
  BY <1>2 DEF Present
<1> QED BY <1>1, <1>2, <1>3

\* The steps that fill the .partial directory, and those that abandon it.
LEMMA StagingKept ==
    ASSUME SnapInv,
           \/ ExportBegin \/ ExportPayload \/ ExportSums \/ ExportFlush \/ ExportComplete
           \/ ExportFails
    PROVE  SourceKept
<1> USE SnapshotsAssumption
<1>1. ready' = ready
  BY DEF ExportBegin, ExportPayload, ExportSums, ExportFlush, ExportComplete, ExportFails
<1>2. ReadyInv' /\ \A r \in Nat : Reached(r) => Reached(r)'
  BY <1>1 DEF SnapInv, ReadyInv, Reached
<1>3. CASE ExportBegin
  <2>1. Types'
    BY <1>3 DEF ExportBegin, SnapInv, Types, Published, puller, server, Writing
  <2>2. erun' \in Runs /\ erun' = erun + 1 /\ \A r \in Runs : r >= erun' => r > erun
    BY <1>3 DEF ExportBegin, SnapInv, Types, Runs
  <2>3. StageInv'
    BY <1>3, <2>2 DEF ExportBegin, SnapInv, StageInv, Writing, Types, Runs
  <2> QED BY <1>2, <2>1, <2>3 DEF SourceKept
<1>4. CASE ExportPayload \/ ExportSums
  BY <1>2, <1>4 DEF ExportPayload, ExportSums, SnapInv, Types, StageInv, Published, puller, server,
                    Writing, SourceKept
<1>5. CASE ExportFlush
  <2>1. Types'
    BY <1>5 DEF ExportFlush, SnapInv, Types, puller, server, Writing
  <2>2. ready[erun] = {} /\ erun # 0
    BY <1>5 DEF ExportFlush, SnapInv, StageInv, Types, Runs, Writing
  <2>3. StageInv'
    BY <1>5, <2>2 DEF ExportFlush, SnapInv, StageInv, Writing
  <2> QED BY <1>2, <2>1, <2>3 DEF SourceKept
<1>6. CASE ExportComplete
  BY <1>2, <1>6 DEF ExportComplete, SnapInv, Types, StageInv, Published, puller, server,
                    Writing, SourceKept
<1>7. CASE ExportFails
  BY <1>2, <1>7 DEF ExportFails, SnapInv, Types, StageInv, puller, server, Writing, SourceKept
<1> QED BY <1>3, <1>4, <1>5, <1>6, <1>7

\* The rename publishes a whole run, newer than all that are there.
LEMMA PublishKept ==
    ASSUME SnapInv, ExportPublish
    PROVE  SourceKept
<1>1. erun \in 1..MaxRuns /\ stage = Published /\ flushed = Published /\ epc = "publish"
  BY DEF ExportPublish, SnapInv, StageInv, Types, Writing
<1>2. /\ ready' \in [Runs -> SUBSET Published] /\ ready'[erun] = Published
      /\ \A r \in Runs : r # erun => ready'[r] = ready[r]
  BY <1>1 DEF ExportPublish, SnapInv, Types, Runs
<1>3. Present(ready)' = Present(ready) \cup {erun}
  BY <1>1, <1>2, "dir" \in Published DEF Present, SnapInv, Types, Runs, Published
<1>4. Types'
  BY <1>1, <1>2 DEF ExportPublish, SnapInv, Types, puller, server, Writing
<1>5. StageInv'
  <2>1. erun' = erun /\ flushed' = flushed /\ epc' = "prune"
    BY DEF ExportPublish
  <2>2. \A r \in Runs : r > erun => ready'[r] = {}
    BY <1>1, <1>2 DEF SnapInv, StageInv, Runs
  <2> QED BY <1>1, <1>2, <2>1, <2>2 DEF StageInv, Writing
<1>6. ReadyInv'
  <2>1. NewestOf(Present(ready)', SourceKeep) \subseteq NewestOf(Present(ready), SourceKeep) \cup {erun}
    <3>1. erun \in 0..MaxRuns
      BY <1>1
    <3> QED BY <3>1, <1>3, ReadyType, NewestAdd, Constants, Zenon
  <2>2. ASSUME NEW r \in NewestOf(Present(ready)', SourceKeep)
        PROVE  ready'[r] = Published
    <3>1. CASE r = erun
      BY <3>1, <1>2
    <3>2. CASE r # erun
      <4>1. r \in NewestOf(Present(ready), SourceKeep) /\ r \in Runs
        BY <2>1, <3>2, ReadyType DEF NewestOf, Runs
      <4> QED BY <4>1, <3>2, <1>2 DEF SnapInv, ReadyInv
    <3> QED BY <3>1, <3>2
  <2> QED BY <2>2 DEF ReadyInv
<1>7. \A r \in Nat : Reached(r) => Reached(r)'
  BY <1>3 DEF Reached
<1> QED BY <1>4, <1>5, <1>6, <1>7 DEF SourceKept

\* Pruning removes runs that are not kept, entry by entry.
LEMMA PruneKept ==
    ASSUME SnapInv, ExportPrune
    PROVE  SourceKept
<1> USE SnapshotsAssumption
<1>1. CASE Expired(ready, SourceKeep) = {}
  BY <1>1 DEF ExportPrune, SnapInv, Types, StageInv, ReadyInv, Reached, puller, server, Writing,
              SourceKept
<1>2. CASE Expired(ready, SourceKeep) # {}
  <2>1. KeepsNewest(ready, SourceKeep, ready')
    <3>1. ready' \in RemoveOldest(ready, SourceKeep, RmEntry)
      BY <1>2 DEF ExportPrune
    <3>2. ready \in [1..MaxRuns -> SUBSET Entries]
      BY ReadyType
    <3>3. MaxRuns \in Nat /\ SourceKeep \in Nat \ {0}
      BY Constants
    <3>4. Shrinks(ready, SourceKeep, ready')
      BY ONLY <1>2, <3>1, <3>2, <3>3, OneShrinks
    <3> QED BY ONLY <3>2, <3>3, <3>4, PruningKeepsNewest
  <2>2. ready' = [r \in Runs |-> ready'[r]]
    BY <1>2, <2>1 DEF ExportPrune, RemoveOldest, SnapInv, Types
  <2>3. /\ \A r \in NewestOf(Present(ready'), SourceKeep) :
              r \in NewestOf(Present(ready), SourceKeep) /\ ready'[r] = ready[r]
        /\ \A r \in Present(ready) : \E q \in Present(ready') : r <= q
        /\ Present(ready') \subseteq Present(ready)
    BY <2>1 DEF KeepsNewest, NewestOf, Present
  <2>4. ready' \in [Runs -> SUBSET Published] /\ \A r \in Runs : ready'[r] \subseteq ready[r]
    BY <2>1, <2>2 DEF KeepsNewest, SnapInv, Types
  <2>5. epc' = epc /\ epc = "prune" /\ erun' = erun /\ flushed' = flushed /\ stage' = stage
    BY <1>2 DEF ExportPrune
  <2>6. Types'
    BY <2>4, <2>5 DEF ExportPrune, SnapInv, Types, puller, server
  <2>7. StageInv'
    BY <2>4, <2>5 DEF SnapInv, Types, StageInv, Writing, Runs
  <2>8. ReadyInv'
    BY <2>3 DEF SnapInv, ReadyInv
  <2>9. ASSUME NEW r \in Nat, Reached(r)
        PROVE  Reached(r)'
    <3>1. PICK q \in Present(ready) : r <= q
      BY <2>9 DEF Reached
    <3>2. PICK p \in Present(ready') : q <= p
      BY <2>3
    <3>3. q \in 1..MaxRuns /\ p \in 1..MaxRuns
      BY <2>3, ReadyType
    <3>4. r <= p
      BY <3>1, <3>2, <3>3
    <3> QED BY <3>2, <3>4 DEF Reached
  <2> QED BY <2>6, <2>7, <2>8, <2>9 DEF SourceKept
<1> QED BY <1>1, <1>2

\* A power loss takes nothing from ready/: every file was flushed before the
\* rename.
LEMMA SourceCrashKept ==
    ASSUME SnapInv, SourceCrash
    PROVE  SourceKept
<1>1. ready' = ready
  <2>1. CASE erun = 0
    BY <2>1 DEF SourceCrash
  <2>2. CASE erun # 0
    <3>1. PICK left \in Survivors(ready[erun], flushed) : ready' = [ready EXCEPT ![erun] = left]
      BY <2>2 DEF SourceCrash
    <3>2. ready[erun] \subseteq flushed /\ erun \in Runs
      BY <2>2 DEF SnapInv, StageInv, Types, Runs
    <3>3. left = ready[erun]
      BY <3>1, <3>2 DEF Survivors
    <3> QED BY <3>1, <3>2, <3>3 DEF SnapInv, Types
  <2> QED BY <2>1, <2>2
<1>2. crashed' \in [source : Nat, puller : Nat]
  BY DEF SourceCrash, SnapInv, Types
<1>3. Types'
  BY <1>1, <1>2 DEF SourceCrash, SnapInv, Types, puller, server
<1>4. StageInv'
  BY <1>1 DEF SourceCrash, SnapInv, StageInv, Writing
<1>5. ReadyInv' /\ \A r \in Nat : Reached(r) => Reached(r)'
  BY <1>1 DEF SnapInv, ReadyInv, Reached
<1> QED BY <1>3, <1>4, <1>5 DEF SourceKept

\* The backup server does not notice what the source does, apart from how far
\* ready/ reaches.
LEMMA SourceLeavesServer ==
    ASSUME SnapInv, SourceKept, UNCHANGED <<puller, server>>,
           crashed'.puller = crashed.puller, fails' >= fails
    PROVE  SnapInv'
<1>1. /\ daily' = daily /\ prun' = prun /\ ppc' = ppc /\ partial' = partial
      /\ pflushed' = pflushed /\ latest' = latest
  BY DEF puller, server
<1>2. \A r \in Nat : Reached(r) => Reached(r)'
  BY DEF SourceKept
<1>3. prun \in Nat /\ \A r \in Present(daily) : r \in Nat
  BY DEF SnapInv, Types, Present, Runs
<1>4. CopyInv'
  <2>1. CopyInv
    BY DEF SnapInv
  <2>2. Present(daily)' = Present(daily)
    BY <1>1 DEF Present
  <2>3. (\A r \in Present(daily) : Reached(r))' /\ (ppc \in Copying => Reached(prun))'
    BY <1>1, <1>2, <1>3, <2>1, <2>2 DEF CopyInv
  <2> QED BY <1>1, <2>1, <2>2, <2>3 DEF CopyInv
<1>5. DailyInv'
  BY <1>1 DEF SnapInv, DailyInv
<1>6. LatestInv'
  <2>1. LatestInv /\ Behind' = Behind
    BY <1>1 DEF SnapInv, Behind
  <2>2. fails \in Nat /\ fails' \in Nat /\ crashed.puller \in Nat /\ crashed'.puller = crashed.puller
    BY DEF SnapInv, SourceKept, Types
  <2>3. Cardinality(Behind) \in Nat
    <3>1. Behind \in SUBSET (0..MaxRuns)
      BY DEF SnapInv, Types, Behind, Present, Runs
    <3> QED BY <3>1, SubsetFinite, SnapshotsAssumption
  <2>4. LatestIsWhole'
    BY <1>1, <2>1, <2>2, SnapshotsAssumption DEF LatestInv, LatestIsWhole
  <2>5. (Cardinality(Behind) <= fails + crashed.puller + (IF ppc = "link" THEN 1 ELSE 0))'
    BY <1>1, <2>1, <2>2, <2>3 DEF LatestInv
  <2> QED BY <2>4, <2>5 DEF LatestInv
<1> QED BY <1>4, <1>5, <1>6 DEF SnapInv, SourceKept

-----------------------------------------------------------------------------
(* The puller.                                                             *)

\* daily/ is a directory of snapshots in the sense of the lemmas above.
LEMMA DailyType ==
    ASSUME SnapInv
    PROVE  /\ daily \in [1..MaxRuns -> SUBSET Entries] /\ MaxRuns \in Nat
           /\ Present(daily) \in SUBSET (0..MaxRuns) /\ Present(daily) \in SUBSET (1..MaxRuns)
           /\ Behind \in SUBSET (0..MaxRuns) /\ IsFiniteSet(Behind) /\ Cardinality(Behind) \in Nat
<1>1. MaxRuns \in Nat
  BY Constants
<1>2. daily \in [1..MaxRuns -> SUBSET Entries]
  BY DEF SnapInv, Types, Runs
<1>3. Present(daily) \in SUBSET (1..MaxRuns)
  BY <1>2 DEF Present
<1>4. Present(daily) \in SUBSET (0..MaxRuns) /\ Behind \in SUBSET (0..MaxRuns)
  BY <1>3 DEF Behind
<1>5. IsFiniteSet(Behind) /\ Cardinality(Behind) \in Nat
  BY <1>1, <1>4, SubsetFinite
<1> QED BY <1>1, <1>2, <1>3, <1>4, <1>5

\* The source does not notice what the puller does.
LEMMA PullerLeavesSource ==
    ASSUME SnapInv, UNCHANGED source
    PROVE  StageInv' /\ ReadyInv' /\ \A r : Reached(r)' <=> Reached(r)
BY DEF SnapInv, StageInv, ReadyInv, Reached, source

\* A step that touches neither daily/ nor the link, and is not between their
\* two renames, leaves what is said of them.
LEMMA ServerQuiet ==
    ASSUME SnapInv, UNCHANGED <<daily, latest, crashed, fails>>, ppc # "link", ppc' # "link"
    PROVE  DailyInv' /\ LatestInv'
BY DEF SnapInv, DailyInv, LatestInv, LatestIsWhole, Behind

\* The newest run of ready/ is newer than every snapshot, unless it is one.
LEMMA NewestIsNew ==
    ASSUME SnapInv, NewestReady \in Runs \ Present(daily)
    PROVE  /\ Reached(NewestReady)
           /\ daily[NewestReady] = {}
           /\ \A r \in Present(daily) : r < NewestReady
<1> DEFINE S == {0} \cup Present(ready)
<1>1. S \in SUBSET (0..MaxRuns) /\ S # {} /\ MaxRuns \in Nat
  BY ReadyType
<1>2. NewestReady \in S /\ \A y \in S : NewestReady >= y
  <2>1. Max(S) \in S /\ \A y \in S : Max(S) >= y
    BY <1>1, MaxIsGreatest
  <2> QED BY <2>1 DEF NewestReady
<1>3. NewestReady \in 1..MaxRuns /\ NewestReady \in Present(ready)
  BY <1>2 DEF Runs
<1>4. Reached(NewestReady)
  <2>1. NewestReady <= NewestReady
    BY <1>3
  <2> QED BY <1>3, <2>1 DEF Reached
<1>5. daily[NewestReady] = {}
  <2>1. NewestReady \in Runs /\ "dir" \notin daily[NewestReady]
    BY DEF Present, SnapInv, Types
  <2> QED BY <2>1 DEF SnapInv, CopyInv
<1>6. ASSUME NEW r \in Present(daily)
      PROVE  r < NewestReady
  <2>1. PICK q \in Present(ready) : r <= q
    BY DEF SnapInv, CopyInv, Reached
  <2>2. q <= NewestReady /\ r # NewestReady
    BY <1>2, <1>3, ReadyType
  <2>3. r \in 1..MaxRuns /\ q \in 1..MaxRuns
    BY ReadyType, DailyType
  <2> QED BY <1>3, <2>1, <2>2, <2>3
<1> QED BY <1>4, <1>5, <1>6

\* The steps of a pull before the rename into daily/.
LEMMA CopyingKept ==
    ASSUME SnapInv,
           PullBegin \/ PullList \/ PullCopy \/ PullVerify \/ PullFilesets \/ PullSync
    PROVE  SnapInv'
<1>1. UNCHANGED <<source, daily, latest, crashed, fails>> /\ ppc # "link" /\ ppc' # "link"
  BY DEF PullBegin, PullList, PullCopy, PullVerify, PullFilesets, PullSync, server
<1>2. StageInv' /\ ReadyInv' /\ DailyInv' /\ LatestInv' /\ \A r : Reached(r)' <=> Reached(r)
  BY <1>1, PullerLeavesSource, ServerQuiet
<1>3. /\ epc' = epc /\ erun' = erun /\ stage' = stage /\ flushed' = flushed /\ ready' = ready
      /\ daily' = daily /\ Present(daily)' = Present(daily)
      /\ latest' = latest /\ crashed' = crashed /\ fails' = fails
  BY <1>1 DEF source
<1>4. CASE PullBegin
  <2>1. Types'
    BY <1>3, <1>4, Constants DEF PullBegin, server, SnapInv, Types, Copying
  <2>2. CopyInv'
    BY <1>2, <1>3, <1>4 DEF PullBegin, SnapInv, CopyInv, Copying
  <2> QED BY <1>2, <2>1, <2>2 DEF SnapInv
<1>5. CASE PullList
  <2>1. CASE prun' = prun /\ pflushed' = pflushed /\ partial' = partial /\ ppc' \in {"retain", "idle"}
               /\ after' \in {"idle", after}
    <3>1. Types'
      BY <1>3, <2>1 DEF SnapInv, Types
    <3>2. CopyInv'
      BY <1>2, <1>3, <2>1 DEF SnapInv, CopyInv, Copying
    <3> QED BY <1>2, <3>1, <3>2 DEF SnapInv
  <2>2. CASE /\ NewestReady \in Runs \ (Present(daily) \cup Present(partial))
             /\ ppc' = "rsync" /\ prun' = NewestReady /\ pflushed' = {"dir"}
             /\ partial' = [partial EXCEPT ![NewestReady] = {"dir"}] /\ after' = after
    <3>1. Types'
      <4>1. NewestReady \in 0..MaxRuns /\ NewestReady \in Runs
        BY <2>2 DEF Runs
      <4>2. {"dir"} \in SUBSET Entries
        BY DEF Entries
      <4>3. partial' \in [Runs -> SUBSET Entries]
        BY <2>2, <4>1, <4>2 DEF SnapInv, Types
      <4>4. prun' \in 0..MaxRuns /\ pflushed' \subseteq Entries /\ ppc' \in Copying /\ after' = after
        BY <2>2, <4>1, <4>2 DEF Copying
      <4> QED BY <1>3, <4>3, <4>4 DEF SnapInv, Types
    <3>2. /\ Reached(NewestReady) /\ daily[NewestReady] = {}
          /\ \A r \in Present(daily) : r < NewestReady
      BY <2>2, NewestIsNew
    <3>3. NewestReady # 0
      BY <2>2 DEF Runs
    <3>4. CopyInv'
      <4> HIDE DEF NewestReady
      <4> QED BY <1>2, <1>3, <2>2, <3>2, <3>3 DEF SnapInv, CopyInv
    <3> QED BY <1>2, <3>1, <3>4 DEF SnapInv
  <2> QED BY <1>5, <2>1, <2>2 DEF PullList
<1>6. CASE PullCopy \/ PullVerify \/ PullFilesets \/ PullSync
  <2>1. ppc \in Copying /\ ppc' \in Copying \cup {"idle"} /\ prun' = prun /\ after' = after
    BY <1>6 DEF PullCopy, PullVerify, PullFilesets, PullSync, Copying
  <2>2. prun \in Runs /\ partial[prun] \in SUBSET Entries /\ ready[prun] \in SUBSET Entries
    BY <2>1 DEF SnapInv, Types, CopyInv, Runs, Published, Entries
  <2>3. partial' \in [Runs -> SUBSET Entries] /\ pflushed' \in SUBSET Entries
    <3>0. partial \in [Runs -> SUBSET Entries] /\ pflushed \in SUBSET Entries
      BY DEF SnapInv, Types
    <3>1. CASE PullCopy
      <4>1. CASE ready[prun] \subseteq partial[prun]
        BY <3>0, <3>1, <4>1 DEF PullCopy
      <4>2. CASE ~(ready[prun] \subseteq partial[prun])
        <5>1. PICK e \in ready[prun] : partial' = [partial EXCEPT ![prun] = partial[prun] \cup {e}]
          BY <3>1, <4>2 DEF PullCopy
        <5>2. partial[prun] \cup {e} \in SUBSET Entries
          BY <2>2
        <5> QED BY <2>2, <3>0, <3>1, <5>1, <5>2 DEF PullCopy
      <4> QED BY <4>1, <4>2
    <3>2. CASE PullVerify
      BY <2>2, <3>0, <3>2 DEF PullVerify
    <3>3. CASE PullFilesets
      <4>1. partial[prun] \cup {"files", "verified"} \in SUBSET Entries
        BY <2>2 DEF Entries
      <4> QED BY <2>2, <3>0, <3>3, <4>1 DEF PullFilesets
    <3>4. CASE PullSync
      BY <2>2, <3>0, <3>4 DEF PullSync, server
    <3> QED BY <1>6, <3>1, <3>2, <3>3, <3>4
  <2>4. Types'
    BY <1>3, <2>1, <2>3 DEF SnapInv, Types
  <2>5. /\ ppc' = "filesets" => Published \subseteq partial'[prun]
        /\ ppc' \in {"sync", "move"} => partial'[prun] = Entries
        /\ ppc' = "move" => pflushed' = Entries
    <3>1. CASE PullCopy \/ PullVerify
      BY <3>1 DEF PullCopy, PullVerify
    <3>2. CASE PullFilesets
      <4>1. Published \subseteq partial[prun] /\ partial'[prun] = partial[prun] \cup {"files", "verified"}
        BY <2>2, <3>2 DEF PullFilesets, SnapInv, CopyInv, Types
      <4> QED BY <2>2, <3>2, <4>1 DEF PullFilesets, Published, Entries
    <3>3. CASE PullSync
      BY <3>3 DEF PullSync, server, SnapInv, CopyInv
    <3> QED BY <1>6, <3>1, <3>2, <3>3
  <2>6. CopyInv'
    BY <1>2, <1>3, <2>1, <2>5 DEF SnapInv, CopyInv, Copying
  <2> QED BY <1>2, <2>4, <2>6 DEF SnapInv
<1> QED BY <1>4, <1>5, <1>6

\* The rename into daily/ adds a whole snapshot, newer than all; until it is
\* linked, latest is one snapshot more behind.
LEMMA MoveKept ==
    ASSUME SnapInv, PullMove
    PROVE  SnapInv'
<1>1. prun \in Runs /\ prun \in 0..MaxRuns /\ prun # 0
  BY DEF PullMove, SnapInv, Types, CopyInv, Copying, Runs
<1>2. /\ partial[prun] = Entries /\ pflushed = Entries /\ daily[prun] = {} /\ Reached(prun)
      /\ \A r \in Present(daily) : r < prun
  BY DEF PullMove, SnapInv, CopyInv, Copying
<1>3. /\ daily' \in [Runs -> SUBSET Entries] /\ daily'[prun] = Entries
      /\ \A r \in Runs : r # prun => daily'[r] = daily[r]
  BY <1>1, <1>2 DEF PullMove, SnapInv, Types
<1>4. Present(daily)' = Present(daily) \cup {prun}
  BY <1>1, <1>3 DEF Present, SnapInv, Types, Entries
<1>5. /\ prun' = prun /\ pflushed' = pflushed /\ ppc = "move" /\ ppc' = "link" /\ latest' = latest
      /\ crashed' = crashed /\ fails' = fails /\ after' = after /\ UNCHANGED source
  BY DEF PullMove
<1>6. StageInv' /\ ReadyInv' /\ \A r : Reached(r)' <=> Reached(r)
  BY <1>5, PullerLeavesSource
<1>7. Types'
  <2>1. partial' \in [Runs -> SUBSET Entries]
    BY <1>1 DEF PullMove, SnapInv, Types
  <2> QED BY <1>3, <1>5, <2>1 DEF SnapInv, Types, source
<1>8. CopyInv'
  <2>1. \A r \in Runs : daily'[r] = {} \/ "dir" \in daily'[r]
    BY <1>3 DEF SnapInv, CopyInv, Entries
  <2>2. \A r \in Present(daily)' : Reached(r)' /\ r <= prun
    BY <1>1, <1>2, <1>4, <1>6, DailyType DEF SnapInv, CopyInv, Runs
  <2> QED BY <1>1, <1>2, <1>3, <1>5, <2>1, <2>2 DEF CopyInv, Copying
<1>9. DailyInv'
  <2>1. NewestOf(Present(daily)', KeepDaily) \subseteq NewestOf(Present(daily), KeepDaily) \cup {prun}
    BY <1>1, <1>4, DailyType, NewestAdd, Constants, Zenon
  <2>2. ASSUME NEW r \in NewestOf(Present(daily)', KeepDaily)
        PROVE  daily'[r] = Entries
    <3>1. CASE r = prun
      BY <3>1, <1>3
    <3>2. CASE r # prun
      <4>1. r \in NewestOf(Present(daily), KeepDaily) /\ r \in Runs
        BY <2>1, <3>2, DailyType DEF NewestOf, Runs
      <4> QED BY <4>1, <3>2, <1>3 DEF SnapInv, DailyInv
    <3> QED BY <3>1, <3>2
  <2> QED BY <2>2 DEF DailyInv
<1>10. LatestInv'
  <2>1. Behind' \in SUBSET (Behind \cup {prun})
    BY <1>4, <1>5 DEF Behind
  <2>2. IsFiniteSet(Behind \cup {prun}) /\ Cardinality(Behind \cup {prun}) <= Cardinality(Behind) + 1
    <3>1. /\ IsFiniteSet(Behind \cup {prun})
          /\ Cardinality(Behind \cup {prun}) =
               IF prun \in Behind THEN Cardinality(Behind) ELSE Cardinality(Behind) + 1
      BY DailyType, FS_AddElement, Zenon
    <3>2. Cardinality(Behind) \in Nat
      BY DailyType
    <3> QED BY <3>1, <3>2
  <2>3. /\ Cardinality(Behind') <= Cardinality(Behind \cup {prun})
        /\ Cardinality(Behind') \in Nat /\ Cardinality(Behind \cup {prun}) \in Nat
    BY <2>1, <2>2, FS_Subset, FS_CardinalityType
  <2>4. Cardinality(Behind) <= fails + crashed.puller /\ Cardinality(Behind) \in Nat
    BY <1>5, DailyType DEF SnapInv, LatestInv, Types
  <2>5. fails \in Nat /\ crashed.puller \in Nat
    BY DEF SnapInv, Types
  <2>6. Cardinality(Behind') <= fails + crashed.puller + 1
    BY <2>2, <2>3, <2>4, <2>5
  <2>7. LatestIsWhole'
    BY <1>3, <1>5 DEF SnapInv, LatestInv, LatestIsWhole, Types, Runs
  <2> QED BY <1>5, <2>6, <2>7 DEF LatestInv
<1> QED BY <1>6, <1>7, <1>8, <1>9, <1>10 DEF SnapInv

\* The new link names the newest snapshot.
LEMMA LinkKept ==
    ASSUME SnapInv, PullLink
    PROVE  SnapInv'
<1>1. /\ ppc = "link" /\ ppc' = "promote" /\ latest' = prun /\ UNCHANGED source
      /\ UNCHANGED <<prun, pflushed, after, partial, daily, crashed, fails>>
  BY DEF PullLink
<1>2. StageInv' /\ ReadyInv' /\ \A r : Reached(r)' <=> Reached(r)
  BY <1>1, PullerLeavesSource
<1>3. /\ prun # 0 /\ daily[prun] = Entries /\ \A r \in Present(daily) : r <= prun
      /\ prun \in 0..MaxRuns
  BY <1>1 DEF SnapInv, CopyInv, Types
<1>4. Types' /\ DailyInv'
  BY <1>1 DEF SnapInv, Types, DailyInv, source
<1>5. CopyInv'
  BY <1>1, <1>2 DEF SnapInv, CopyInv, Copying
<1>6. LatestInv'
  <2>1. Behind' = {}
    BY <1>1, <1>3, DailyType DEF Behind
  <2>2. Cardinality(Behind') = 0
    BY <2>1, FS_EmptySet
  <2>3. fails \in Nat /\ crashed.puller \in Nat
    BY DEF SnapInv, Types
  <2>4. LatestIsWhole'
    BY <1>1, <1>3 DEF LatestIsWhole
  <2> QED BY <1>1, <2>2, <2>3, <2>4 DEF LatestInv
<1> QED BY <1>2, <1>4, <1>5, <1>6 DEF SnapInv

\* Promotion reads daily/ only.
LEMMA PromoteKept ==
    ASSUME SnapInv, Promote \/ PromoteCopy
    PROVE  SnapInv'
<1>1. /\ UNCHANGED <<source, daily, latest, crashed, fails, prun, pflushed, partial>>
      /\ ppc \in {"promote", "cp"} /\ ppc' \in {"promote", "cp", "retain"} /\ after' \in {"idle", after}
  BY DEF Promote, PromoteCopy
<1>2. StageInv' /\ ReadyInv' /\ DailyInv' /\ LatestInv' /\ \A r : Reached(r)' <=> Reached(r)
  BY <1>1, PullerLeavesSource, ServerQuiet
<1>3. Types'
  BY <1>1 DEF SnapInv, Types, source
<1>4. CopyInv'
  BY <1>1, <1>2 DEF SnapInv, CopyInv, Copying
<1> QED BY <1>2, <1>3, <1>4 DEF SnapInv

\* Retention removes only snapshots that are not kept; latest is kept, because
\* every snapshot it is behind has cost a failed pull.
LEMMA RetainKept ==
    ASSUME SnapInv, Retain
    PROVE  SnapInv'
<1>1. /\ UNCHANGED <<source, latest, crashed, fails, prun, pflushed, after, partial>>
      /\ ppc = "retain" /\ ppc' \in {"retain", after}
  BY DEF Retain
<1>2. StageInv' /\ ReadyInv' /\ \A r : Reached(r)' <=> Reached(r)
  BY <1>1, PullerLeavesSource
<1>3. ppc' \in {"retain", "idle", "list"}
  BY <1>1 DEF SnapInv, Types
<1>4. CASE daily' = daily
  <2>1. DailyInv' /\ LatestInv'
    BY <1>1, <1>3, <1>4, ServerQuiet
  <2>2. Types'
    BY <1>1, <1>3, <1>4 DEF SnapInv, Types, source
  <2>3. CopyInv'
    BY <1>1, <1>2, <1>3, <1>4 DEF SnapInv, CopyInv, Copying
  <2> QED BY <1>2, <2>1, <2>2, <2>3 DEF SnapInv
<1>5. CASE Expired(daily, KeepDaily) # {} /\ daily' \in RemoveOldest(daily, KeepDaily, RmTree)
  <2>1. KeepsNewest(daily, KeepDaily, daily')
    <3>1. daily \in [1..MaxRuns -> SUBSET Entries]
      BY DailyType
    <3>2. MaxRuns \in Nat /\ KeepDaily \in Nat \ {0}
      BY Constants
    <3>3. Shrinks(daily, KeepDaily, daily')
      BY ONLY <1>5, <3>1, <3>2, OneShrinks
    <3> QED BY ONLY <3>1, <3>2, <3>3, PruningKeepsNewest
  <2>2. DOMAIN daily = Runs /\ daily' = [r \in Runs |-> daily'[r]]
    BY <1>5, <2>1 DEF RemoveOldest, SnapInv, Types
  <2>3. \A r \in Runs : /\ daily'[r] \subseteq daily[r]
                        /\ daily'[r] = daily[r] \/ daily'[r] = {} \/ "dir" \in daily'[r]
                        /\ r \in NewestOf(Present(daily), KeepDaily) => daily'[r] = daily[r]
    BY <2>1, <2>2 DEF KeepsNewest
  <2>4. /\ Present(daily)' \subseteq Present(daily)
        /\ \A r \in NewestOf(Present(daily)', KeepDaily) : r \in NewestOf(Present(daily), KeepDaily)
    BY <2>1 DEF KeepsNewest
  <2>5. Types'
    <3>1. daily' \in [Runs -> SUBSET Entries]
      BY <2>2, <2>3 DEF SnapInv, Types
    <3> QED BY <1>1, <1>3, <3>1 DEF SnapInv, Types, source
  <2>6. CopyInv'
    <3>1. \A r \in Runs : daily'[r] = {} \/ "dir" \in daily'[r]
      BY <2>3 DEF SnapInv, CopyInv
    <3>2. \A r \in Present(daily)' : Reached(r)'
      BY <1>2, <2>4 DEF SnapInv, CopyInv
    <3>3. prun # 0 => daily'[prun] \subseteq pflushed
      BY <2>3 DEF SnapInv, CopyInv, Types, Runs
    <3> QED BY <1>1, <1>3, <3>1, <3>2, <3>3 DEF CopyInv, Copying
  <2>7. DailyInv'
    <3>1. NewestOf(Present(daily), KeepDaily) \subseteq Runs
      BY DailyType DEF NewestOf, Runs
    <3> QED BY <2>3, <2>4, <3>1 DEF SnapInv, DailyInv
  <2>8. Cardinality(Behind) <= fails + crashed.puller
    BY <1>1, DailyType DEF SnapInv, LatestInv, Types
  <2>9. (Cardinality(Behind) <= fails + crashed.puller + (IF ppc = "link" THEN 1 ELSE 0))'
    <3>1. Behind' \in SUBSET Behind
      BY <1>1, <2>4 DEF Behind
    <3>2. Cardinality(Behind') <= Cardinality(Behind) /\ Cardinality(Behind') \in Nat
      BY <3>1, DailyType, FS_Subset, FS_CardinalityType
    <3>3. fails \in Nat /\ crashed.puller \in Nat /\ Cardinality(Behind) \in Nat
      BY DailyType DEF SnapInv, Types
    <3>4. Cardinality(Behind') <= fails + crashed.puller
      BY <2>8, <3>2, <3>3
    <3> QED BY <1>1, <1>3, <3>2, <3>3, <3>4
  <2>10. LatestIsWhole'
    <3> SUFFICES ASSUME latest # 0, fails + crashed.puller < KeepDaily
                 PROVE  daily'[latest] = Entries
      BY <1>1 DEF LatestIsWhole
    <3>1. daily[latest] = Entries /\ latest \in Runs
      BY DEF SnapInv, LatestInv, LatestIsWhole, Types, Runs
    <3>2. latest \in Present(daily)
      BY <2>2, <3>1 DEF Present, Entries
    <3>3. Cardinality({r \in Present(daily) : r > latest}) < KeepDaily
      <4>1. fails \in Nat /\ crashed.puller \in Nat /\ Cardinality(Behind) \in Nat /\ KeepDaily \in Nat
        BY DailyType, Constants DEF SnapInv, Types
      <4>2. Cardinality(Behind) < KeepDaily
        BY <2>8, <4>1
      <4> QED BY <4>2 DEF Behind
    <3>4. latest \in NewestOf(Present(daily), KeepDaily)
      BY <3>2, <3>3 DEF NewestOf
    <3> QED BY <2>3, <3>1, <3>4
  <2> QED BY <1>2, <2>5, <2>6, <2>7, <2>9, <2>10 DEF SnapInv, LatestInv
<1> QED BY <1>4, <1>5 DEF Retain

\* A failed pull and a power loss take nothing from daily/, whose files were
\* flushed before the rename; either may leave latest one snapshot behind.
LEMMA PullFaultKept ==
    ASSUME SnapInv, PullFails \/ PullCrash
    PROVE  SnapInv'
<1>1. /\ UNCHANGED <<source, latest, prun, pflushed, after>> /\ ppc' = "idle"
  BY DEF PullFails, PullCrash
<1>2. StageInv' /\ ReadyInv' /\ \A r : Reached(r)' <=> Reached(r)
  BY <1>1, PullerLeavesSource
<1>3. daily' = daily /\ partial' \in [Runs -> SUBSET Entries]
  <2>0. partial \in [Runs -> SUBSET Entries] /\ daily \in [Runs -> SUBSET Entries]
    BY DEF SnapInv, Types
  <2>1. CASE PullFails
    <3>1. daily' = daily
      BY <2>1 DEF PullFails
    <3>2. partial' \in [Runs -> SUBSET Entries]
      BY <2>0, <2>1 DEF PullFails
    <3> QED BY <3>1, <3>2
  <2>2. CASE PullCrash /\ prun = 0
    BY <2>0, <2>2 DEF PullCrash
  <2>3. CASE PullCrash /\ prun # 0
    <3>1. prun \in Runs /\ daily[prun] \subseteq pflushed /\ partial[prun] \in SUBSET Entries
      BY <2>3 DEF SnapInv, Types, CopyInv, Runs
    <3>2. PICK left \in Survivors(daily[prun], pflushed) : daily' = [daily EXCEPT ![prun] = left]
      BY <2>3 DEF PullCrash
    <3>3. left = daily[prun]
      BY <3>1, <3>2 DEF Survivors
    <3>4. daily' = daily
      BY <2>0, <3>1, <3>2, <3>3
    <3>5. PICK rest \in Survivors(partial[prun], pflushed) : partial' = [partial EXCEPT ![prun] = rest]
      BY <2>3 DEF PullCrash
    <3>6. rest \in SUBSET Entries
      BY <3>1, <3>5 DEF Survivors
    <3>7. partial' \in [Runs -> SUBSET Entries]
      BY <2>0, <3>1, <3>5, <3>6
    <3> QED BY <3>4, <3>7
  <2> QED BY <2>1, <2>2, <2>3
<1>4. /\ crashed' \in [source : Nat, puller : Nat] /\ fails' \in Nat
      /\ fails' + crashed'.puller = fails + crashed.puller + 1
  <2>1. crashed \in [source : Nat, puller : Nat] /\ fails \in Nat
    BY DEF SnapInv, Types
  <2>2. CASE PullFails
    BY <2>1, <2>2 DEF PullFails
  <2>3. CASE PullCrash
    BY <2>1, <2>3 DEF PullCrash
  <2> QED BY <2>2, <2>3
<1>5. Types'
  BY <1>1, <1>3, <1>4 DEF SnapInv, Types, source
<1>6. CopyInv'
  BY <1>1, <1>2, <1>3 DEF SnapInv, CopyInv, Copying
<1>7. DailyInv'
  BY <1>3 DEF SnapInv, DailyInv
<1>8. LatestInv'
  <2>1. Behind' = Behind
    BY <1>1, <1>3 DEF Behind
  <2>2. fails \in Nat /\ crashed.puller \in Nat /\ crashed'.puller \in Nat /\ KeepDaily \in Nat
    BY <1>4, Constants DEF SnapInv, Types
  <2>3. Cardinality(Behind) <= fails + crashed.puller + 1
    BY <2>2, DailyType DEF SnapInv, LatestInv
  <2>4. (Cardinality(Behind) <= fails + crashed.puller + (IF ppc = "link" THEN 1 ELSE 0))'
    BY <1>1, <1>4, <2>1, <2>2, <2>3, DailyType
  <2>5. fails' + crashed'.puller < KeepDaily => fails + crashed.puller < KeepDaily
    BY <1>4, <2>2
  <2>6. LatestIsWhole'
    BY <1>1, <1>3, <2>5 DEF SnapInv, LatestInv, LatestIsWhole
  <2> QED BY <2>4, <2>6 DEF LatestInv
<1> QED BY <1>2, <1>5, <1>6, <1>7, <1>8 DEF SnapInv

-----------------------------------------------------------------------------
(* The invariant, and what it says.                                        *)

\* Nothing has been exported and nothing pulled.
LEMMA InitSnap == Init => SnapInv
<1> SUFFICES ASSUME Init
             PROVE  SnapInv
  OBVIOUS
<1> USE Constants
<1>1. Types
  BY DEF Init, Types, Writing, Copying, Published, Entries, Runs
<1>2. StageInv
  BY DEF Init, StageInv, Writing, Runs
<1>3. Present(ready) = {} /\ Present(daily) = {}
  BY DEF Init, Present, Runs
<1>4. ReadyInv /\ DailyInv
  BY <1>3 DEF ReadyInv, DailyInv, NewestOf
<1>5. CopyInv
  BY <1>3 DEF Init, CopyInv, Copying
<1>6. LatestInv
  <2>1. Behind = {}
    BY <1>3 DEF Behind
  <2>2. Cardinality(Behind) = 0
    BY <2>1, FS_EmptySet
  <2> QED BY <2>2 DEF Init, LatestInv, LatestIsWhole
<1> QED BY <1>1, <1>2, <1>4, <1>5, <1>6 DEF SnapInv

\* Every step of exporter, puller and faults keeps the invariant.
LEMMA NextSnap == SnapInv /\ [Next]_vars => SnapInv'
<1> SUFFICES ASSUME SnapInv, [Next]_vars
             PROVE  SnapInv'
  OBVIOUS
<1>1. CASE Export \/ ExportFails \/ SourceCrash
  <2>1. SourceKept
    BY <1>1, StagingKept, PublishKept, PruneKept, SourceCrashKept DEF Export
  <2>2. UNCHANGED <<puller, server>>
    BY <1>1 DEF Export, ExportBegin, ExportPayload, ExportSums, ExportFlush, ExportComplete,
                ExportPublish, ExportPrune, ExportFails, SourceCrash
  <2>3. crashed'.puller = crashed.puller /\ fails' >= fails
    <3>1. crashed \in [source : Nat, puller : Nat] /\ fails \in Nat
      BY DEF SnapInv, Types
    <3>2. CASE UNCHANGED <<crashed, fails>>
      BY <3>1, <3>2
    <3>3. CASE ExportFails
      BY <3>1, <3>3 DEF ExportFails
    <3>4. CASE SourceCrash
      BY <3>1, <3>4 DEF SourceCrash
    <3> QED BY <1>1, <3>2, <3>3, <3>4
            DEF Export, ExportBegin, ExportPayload, ExportSums, ExportFlush, ExportComplete,
                ExportPublish, ExportPrune
  <2> QED BY <2>1, <2>2, <2>3, SourceLeavesServer
<1>2. CASE PullStep \/ PullFails \/ PullCrash
  BY <1>2, CopyingKept, MoveKept, LinkKept, PromoteKept, RetainKept, PullFaultKept DEF PullStep
<1>3. CASE UNCHANGED vars
  <2>1. SourceKept
    BY <1>3 DEF vars, source, puller, server, SnapInv, Types, StageInv, ReadyInv, Reached, SourceKept
  <2>2. UNCHANGED <<puller, server>> /\ crashed'.puller = crashed.puller /\ fails' >= fails
    BY <1>3 DEF vars, SnapInv, Types
  <2> QED BY <2>1, <2>2, SourceLeavesServer
<1> QED BY <1>1, <1>2, <1>3 DEF Next, Faults

\* The invariant holds throughout.
LEMMA SnapInvariance == Spec => []SnapInv
BY InitSnap, NextSnap, PTL DEF Spec

\* The runs that the exporter keeps are complete and the daily snapshots that
\* the puller keeps hold all that was published, for any retention, any number
\* of runs and any power losses.
THEOREM KeptWhole == Spec => []KeptRunsAreWhole
<1>1. SnapInv => KeptRunsAreWhole
  BY DEF SnapInv, ReadyInv, DailyInv, KeptRunsAreWhole
<1> QED BY <1>1, SnapInvariance, PTL

\* The latest link names a whole snapshot as long as fewer commands, of either
\* machine, have failed and fewer pulls been cut off than daily snapshots are
\* kept.
THEOREM LatestWhole == Spec => []LatestIsWhole
<1>1. SnapInv => LatestIsWhole
  BY DEF SnapInv, LatestInv
<1> QED BY <1>1, SnapInvariance, PTL
=============================================================================
