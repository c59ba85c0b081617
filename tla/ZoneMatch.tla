----------------------------- MODULE ZoneMatch -----------------------------
(***************************************************************************)
(* cfapi.FindZoneForHostname: the loop over the zones a token can see that *)
(* keeps the best match so far.  Names are sequences of characters, since  *)
(* what the code tests is a suffix of the string; upper case and the       *)
(* trailing dot, which it normalises first, do not appear.                 *)
(***************************************************************************)
EXTENDS Naturals, Sequences, SequencesExt

CONSTANTS
    Letters,     \* the characters of labels
    ZoneLength,  \* bound: characters of a zone's name
    NameLength,  \* bound: characters of a hostname
    MaxZones     \* bound: zones of a token

ASSUME ZoneAssumption ==
    "." \notin Letters /\ ZoneLength \in Nat /\ NameLength \in Nat /\ MaxZones \in Nat

\* Labels separated by single dots.
Names(length) ==
    {s \in UNION {[1..n -> Letters \cup {"."}] : n \in 1..length} :
        /\ s[1] # "." /\ s[Len(s)] # "."
        /\ \A k \in 1..(Len(s) - 1) : s[k] # "." \/ s[k + 1] # "."}

\* ListZones: the zones in any order, without repetition.
Listings ==
    {zs \in UNION {[1..n -> Names(ZoneLength)] : n \in 0..MaxZones} :
        \A j, k \in DOMAIN zs : j # k => zs[j] # zs[k]}

NoZone == <<>>

MutMatches(host, z) == IsSuffix(z, host)

Matches(host, z) == host = z \/ IsSuffix(<<".">> \o z, host)

\* best[n] is the variable best after the n-th zone.
FindZoneForHostname(zones, host) ==
    LET best[n \in 0..Len(zones)] ==
          IF n = 0 THEN NoZone
          ELSE IF /\ Matches(host, zones[n])
                  /\ best[n - 1] = NoZone \/ Len(zones[n]) > Len(best[n - 1])
               THEN zones[n]
               ELSE best[n - 1]
    IN  best[Len(zones)]

\* The reference: a zone owns the names that end in its labels.  The name
\* without the zone is empty or ends with a dot.
Owns(z, host) ==
    \E cut \in 0..(Len(host) - 1) :
        /\ cut = 0 \/ host[cut] = "."
        /\ SubSeq(host, cut + 1, Len(host)) = z

MostSpecific(zones, host, z) ==
    LET owners == {y \in ToSet(zones) : Owns(y, host)}
    IN  IF owners = {} THEN z = NoZone
        ELSE z \in owners /\ \A y \in owners : Len(y) <= Len(z)
=============================================================================
