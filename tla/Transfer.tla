------------------------------ MODULE Transfer ------------------------------
(***************************************************************************)
(* Moving a project with one volume to another host: writeProjectTarball   *)
(* and importTarball of internal/web/admin.go, and bbsit-ctl's pack        *)
(* between them.  The files of the volume, if its path is below the stack  *)
(* directory, are walked in order while the containers may go on writing.  *)
(* A file is known by its size; the bundle by its tar entries, [file,      *)
(* declared size, bytes written], and by whether the two closing blocks    *)
(* follow.  The gzip stream around it is closed in any case.               *)
(***************************************************************************)
EXTENDS VolumePaths

CONSTANTS
    NFiles,      \* files in the volume, 1..NFiles, in the order of the walk
    MaxSize,     \* bound: size of a file
    MaxChanges,  \* bound: changes the containers make
    MaxImports,  \* bound: imports that are tried
    Masked,      \* the bundle has placeholders for secrets
    Targets      \* the project's row on the target: subset of {"absent", "old"}

ASSUME TransferAssumption ==
    /\ NFiles \in Nat \ {0} /\ MaxSize \in Nat /\ MaxChanges \in Nat /\ MaxImports \in Nat
    /\ Masked \in BOOLEAN /\ Targets \subseteq {"absent", "old"}

VARIABLES
    given, host,     \* the volume's host path in the request and in the row
    size, gone,      \* source: sizes of the files, files removed
    pc, next, hdr,   \* export: step, next file, size in the current header
    tar, trailer,    \* the bundle
    out,             \* the file bbsit-ctl writes: "none", "open", "kept", "removed"
    imp, pos,        \* import: "none", "extract", or its answer; next entry
    disk, row,       \* target: files and the project's row
    changes, imports

Files == 1..NFiles
src == <<given, host, size, gone>>
export == <<pc, next, hdr, tar, trailer, out>>
target == <<imp, pos, disk, row>>
transferVars == <<src, export, target, changes, imports>>

TransferTypeOK ==
    /\ given \in Paths /\ host.seg \in Seq(Names) /\ host.abs \in BOOLEAN
    /\ size \in [Files -> 0..MaxSize] /\ gone \subseteq Files
    /\ pc \in {"store", "start", "stat", "copy", "failed", "ended"}
    /\ next \in 1..(NFiles + 1) /\ hdr \in 0..MaxSize
    /\ tar \in Seq([file : Files, declared : 0..MaxSize, written : 0..MaxSize])
    /\ \A i, j \in DOMAIN tar : i < j => /\ tar[i].file < tar[j].file
                                         /\ tar[i].written = tar[i].declared
    /\ trailer \in BOOLEAN /\ out \in {"none", "open", "kept", "removed"}
    /\ imp \in {"none", "extract", "ok", "refused"} /\ pos \in 1..(NFiles + 1)
    /\ disk \in [Files -> {"none", "torn", "whole"}] /\ row \in {"absent", "old", "new"}
    /\ changes \in 0..MaxChanges /\ imports \in 0..MaxImports

TransferInit ==
    /\ size \in [Files -> 0..MaxSize] /\ gone = {}
    /\ given \in Paths /\ host = given
    /\ pc = "store" /\ next = 1 /\ hdr = 0 /\ tar = <<>> /\ trailer = FALSE /\ out = "none"
    /\ imp = "none" /\ pos = 1 /\ disk = [f \in Files |-> "none"]
    /\ row \in Targets
    /\ changes = 0 /\ imports = 0

-----------------------------------------------------------------------------
\* The containers change or remove a file during the export.
Change(f) ==
    /\ pc \notin {"store", "start", "ended"} /\ f \notin gone
    /\ changes < MaxChanges /\ changes' = changes + 1
    /\ \/ \E n \in 0..MaxSize : n # size[f] /\ size' = [size EXCEPT ![f] = n] /\ gone' = gone
       \/ gone' = gone \cup {f} /\ size' = size
    /\ UNCHANGED <<given, host, export, target, imports>>

\* The entry before the next header is complete.
LastComplete == \A i \in DOMAIN tar : i = Len(tar) => tar[i].written = tar[i].declared

\* validateAndDefaultProject: the row holds the normalised path.
Store ==
    /\ pc = "store" /\ pc' = "start"
    /\ host' = normaliseVolumeHostPath(given)
    /\ UNCHANGED <<given, size, gone, next, hdr, tar, trailer, out, target, changes, imports>>

\* bbsit-ctl opens its output and the server starts with project.yaml; there
\* is nothing to walk if the volume is not below the stack directory.
Pack ==
    /\ pc = "start" /\ pc' = "stat" /\ out' = "open"
    /\ next' = IF EntryName(host) = <<>> THEN NFiles + 1 ELSE next
    /\ UNCHANGED <<src, hdr, tar, trailer, target, changes, imports>>

\* The walk reaches a file.  One that was removed before its directory was
\* read does not appear; one removed after that ends the walk; so does a
\* header that follows an incomplete entry.
PackStat ==
    /\ pc = "stat" /\ next <= NFiles
    /\ \/ next \notin gone /\ LastComplete /\ hdr' = size[next] /\ pc' = "copy" /\ UNCHANGED next
       \/ next \notin gone /\ ~LastComplete /\ pc' = "failed" /\ UNCHANGED <<hdr, next>>
       \/ next \in gone /\ next' = next + 1 /\ UNCHANGED <<hdr, pc>>
       \/ next \in gone /\ pc' = "failed" /\ UNCHANGED <<hdr, next>>
    /\ UNCHANGED <<src, tar, trailer, out, target, changes, imports>>

Least(a, b) == IF a < b THEN a ELSE b

\* addFileToTar after its header: a file that cannot be opened any more, or
\* has grown, is an error; one that has shrunk is not.
PackCopy ==
    LET bytes == IF next \in gone THEN 0 ELSE Least(size[next], hdr) IN
    /\ pc = "copy"
    /\ tar' = Append(tar, [file |-> next, declared |-> hdr, written |-> bytes])
    /\ next' = next + 1
    /\ pc' = IF next \in gone \/ size[next] > hdr THEN "failed" ELSE "stat"
    /\ UNCHANGED <<src, hdr, trailer, out, target, changes, imports>>

MutPackEnd ==
    /\ (pc = "stat" /\ next >= NFiles) \/ pc = "failed"
    /\ pc' = "ended"
    /\ trailer' = LastComplete
    /\ out' = "kept"
    /\ UNCHANGED <<src, next, hdr, tar, target, changes, imports>>

\* The deferred Close writes the closing blocks unless the last entry is
\* incomplete, after an error too.  The response, whose status was sent at
\* the start, ends normally: bbsit-ctl keeps its file.
PackEnd ==
    /\ (pc = "stat" /\ next = NFiles + 1) \/ pc = "failed"
    /\ pc' = "ended"
    /\ trailer' = LastComplete
    /\ out' = "kept"
    /\ UNCHANGED <<src, next, hdr, tar, target, changes, imports>>

\* The connection breaks or the disk is full: writeNewFile removes its file.
writeNewFileFails ==
    /\ out = "open" /\ out' = "removed" /\ pc' = "ended"
    /\ UNCHANGED <<src, next, hdr, tar, trailer, target, changes, imports>>

-----------------------------------------------------------------------------
\* importTarball reads project.yaml and makes the stack directory.
ImportBegin ==
    /\ out = "kept" /\ imp # "extract" /\ imports < MaxImports
    /\ imports' = imports + 1 /\ imp' = "extract" /\ pos' = 1
    /\ UNCHANGED <<src, export, disk, row, changes>>

MutImportEntry ==
    /\ imp = "extract" /\ pos <= Len(tar)
    /\ disk' = [disk EXCEPT ![tar[pos].file] =
                  IF tar[pos].written = tar[pos].declared THEN "whole" ELSE "torn"]
    /\ pos' = pos + 1 /\ imp' = imp
    /\ UNCHANGED <<src, export, row, changes, imports>>

\* streamTarFile truncates the file and copies the entry; an entry that ends
\* early ends the import.
ImportEntry ==
    /\ imp = "extract" /\ pos <= Len(tar)
    /\ IF tar[pos].written = tar[pos].declared
       THEN disk' = [disk EXCEPT ![tar[pos].file] = "whole"] /\ pos' = pos + 1 /\ imp' = imp
       ELSE disk' = [disk EXCEPT ![tar[pos].file] = "torn"] /\ pos' = pos /\ imp' = "refused"
    /\ UNCHANGED <<src, export, row, changes, imports>>

\* The upload breaks, or a file cannot be written.
ImportFails ==
    /\ imp = "extract" /\ imp' = "refused"
    /\ \/ disk' = disk
       \/ pos <= Len(tar) /\ disk' = [disk EXCEPT ![tar[pos].file] = "torn"]
    /\ UNCHANGED <<src, export, pos, row, changes, imports>>

\* The end of the archive: upsertProject, which refuses placeholders for a
\* project that is not there.  The files are on the disk already.
ImportEnd ==
    /\ imp = "extract" /\ pos = Len(tar) + 1
    /\ IF Masked /\ row = "absent" THEN imp' = "refused" /\ row' = row
       ELSE imp' = "ok" /\ row' = "new"
    /\ UNCHANGED <<src, export, pos, disk, changes, imports>>

TransferNext ==
    \/ \E f \in Files : Change(f)
    \/ Store \/ Pack \/ PackStat \/ PackCopy \/ PackEnd \/ writeNewFileFails
    \/ ImportBegin \/ ImportEntry \/ ImportFails \/ ImportEnd

TransferSpec == TransferInit /\ [][TransferNext]_transferVars

-----------------------------------------------------------------------------
\* An import that is answered with success has written every entry of the
\* bundle in full, and the bundle was closed properly: neither a broken upload
\* nor an entry that ends early gets a project onto the target, also when an
\* earlier import left torn files.
ImportIsWhole ==
    imp = "ok" =>
        /\ trailer
        /\ \A i \in DOMAIN tar : disk[tar[i].file] = "whole"

\* A bundle that bbsit-ctl keeps and that reads as a complete archive holds
\* every file of a volume below the stack directory, whatever the connection
\* does, if the containers changed nothing during the export.
KeptBundlesAreWhole ==
    out = "kept" /\ trailer /\ changes = 0 /\ EntryName(host) # <<>> =>
        \A f \in Files : \E i \in DOMAIN tar : tar[i].file = f

\* Storing a path changes what it is called and never which directory it is.
\* What an import extracts is where the containers of the target mount it;
\* what it does not extract is outside the stack, at the same place on both
\* hosts, or is the stack directory itself.  Relative paths that climb out of
\* the stack mean something else on every host, and an element such as ..data
\* is taken for a step upwards when the path is stored, and for a name when it
\* is packed.
DataFollowsMount ==
    /\ pc # "store" => /\ Mounted(Source, host) = Mounted(Source, given)
                       /\ normaliseVolumeHostPath(host) = host
    /\ /\ imp = "ok"
       /\ given.abs \/ ~hasParentRef(Clean(given).seg)
       /\ \A i \in DOMAIN given.seg : given.seg[i] \notin StartsDotDot \ {".."}
       => IF tar # <<>> THEN Join(Target, EntryName(host)) = Mounted(Target, host)
          ELSE \/ Mounted(Source, given) \in {Mounted(Target, host), Source}
               \/ EntryName(host) # <<>> /\ changes > 0
=============================================================================
