---------------------------- MODULE VolumePaths ----------------------------
(***************************************************************************)
(* The host path of a volume: normaliseVolumeHostPath of                   *)
(* internal/web/api.go and the choice of tar entries in                    *)
(* writeProjectTarball of internal/web/admin.go.  A path is [abs, seg]:    *)
(* whether it is absolute, and its elements.                               *)
(***************************************************************************)
EXTENDS Naturals, Sequences, SequencesExt

CONSTANTS
    Names,         \* elements of a path, "." and ".." among them
    StartsDotDot,  \* the elements whose text starts with two dots
    MaxLength,     \* bound: elements of a path
    Source, Target \* the stack directories of the project on the two hosts

ASSUME PathAssumption ==
    /\ ".." \in StartsDotDot /\ StartsDotDot \subseteq Names /\ "." \notin StartsDotDot
    /\ MaxLength \in Nat
    /\ Source \in Seq(Names \ {".", ".."}) /\ Target \in Seq(Names \ {".", ".."})

Path(a, s) == [abs |-> a, seg |-> s]
Paths == [abs : BOOLEAN, seg : UNION {[1..n -> Names] : n \in 0..MaxLength}]

-----------------------------------------------------------------------------
\* path/filepath: Clean, Rel of two absolute paths, and Join with a directory.
CleanStep(abs, acc, n) ==
    IF n = "." THEN acc
    ELSE IF n # ".." THEN Append(acc, n)
    ELSE IF acc # <<>> /\ Last(acc) # ".." THEN Front(acc)
    ELSE IF abs THEN acc ELSE Append(acc, "..")

Clean(p) ==
    LET acc[n \in 0..Len(p.seg)] ==
          IF n = 0 THEN <<>> ELSE CleanStep(p.abs, acc[n - 1], p.seg[n])
    IN  Path(p.abs, acc[Len(p.seg)])

CommonLength(s, t) ==
    CHOOSE n \in 0..Len(s) :
        /\ n <= Len(t) /\ SubSeq(s, 1, n) = SubSeq(t, 1, n)
        /\ n = Len(s) \/ n = Len(t) \/ s[n + 1] # t[n + 1]

Rel(base, s) ==
    LET n == CommonLength(base, s)
    IN  [i \in 1..(Len(base) - n) |-> ".."] \o SubSeq(s, n + 1, Len(s))

Join(dir, seg) == Clean(Path(TRUE, dir \o seg)).seg

\* The directory a container mounts for a host path.
Mounted(stack, p) == IF p.abs THEN Clean(p).seg ELSE Join(stack, p.seg)

-----------------------------------------------------------------------------
MutNormalise(p) ==
    LET c == Clean(p)
        rel == Rel(Source, c.seg)
    IN  IF c.abs /\ rel # <<>> THEN Path(FALSE, rel) ELSE c

\* A relative path is empty when Rel gives "."; the code then keeps the
\* absolute one.
normaliseVolumeHostPath(p) ==
    LET c == Clean(p)
        rel == Rel(Source, c.seg)
    IN  IF c.abs /\ rel # <<>> /\ Head(rel) \notin StartsDotDot THEN Path(FALSE, rel)
        ELSE c

hasParentRef(rel) == rel # <<>> /\ Head(rel) = ".."

\* writeProjectTarball: the name of the tar entry of a volume, its path
\* relative to the stack; empty if it is not below the stack and not packed.
EntryName(p) ==
    LET rel == Rel(Source, Mounted(Source, p))
    IN  IF hasParentRef(rel) THEN <<>> ELSE rel
=============================================================================
