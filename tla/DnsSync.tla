------------------------------ MODULE DnsSync ------------------------------
(***************************************************************************)
(* The DNS side of internal/tunnel/manager.go.  A reconciliation of a      *)
(* tunnel with an API token leaves a goroutine behind, syncDNS, that makes *)
(* every routed hostname a proxied CNAME of the tunnel.  It works from the *)
(* ingress the reconciliation collected, for up to a minute, outside the   *)
(* mutex; several of them may run at once, of several tunnels or of one,   *)
(* and with different targets, since the row's CFTunnelID can change.      *)
(* Cloudflare is external.                                                 *)
(***************************************************************************)
EXTENDS ZoneMatch

CONSTANTS
    DnsTunnels,   \* tunnel ids; their rows have an API token
    CFTargets,    \* {CFTunnelID}.cfargotunnel.com, what a CNAME points at
    Hostnames,    \* public hostnames, each routed through at most one tunnel
    Nowhere,      \* not routed; no row; the content of a record nobody of us wrote
    Unread,       \* the records of a hostname were not listed yet
    MaxSaves,     \* bound: requests
    MaxDnsFaults  \* bound: failing API calls and expired contexts

ASSUME DnsAssumption ==
    /\ Hostnames \subseteq Names(NameLength)
    /\ Nowhere \notin DnsTunnels /\ Nowhere \notin Hostnames /\ Nowhere \notin CFTargets
    /\ MaxSaves \in Nat /\ MaxDnsFaults \in Nat

VARIABLES
    routed,    \* tables: the tunnel a hostname is routed through
    dnsRow,    \* tables: the row of a tunnel and whether it has a system project
    waiting,   \* tunnels whose reconciliation is still to run
    syncs,     \* the syncDNS goroutines
    zones,     \* Cloudflare: the zones the token sees
    records,   \* Cloudflare: the records of a hostname, in listing order
    unsynced,  \* history: tunnels whose last reconciliation made the system project
    contested, \* history: hostnames whose last goroutine was started while one with
               \* another target still had the hostname before it
    saves, dnsFaults

tunnelTables == <<routed, dnsRow>>
dnsHistory == <<unsynced, contested>>
dnsVars == <<tunnelTables, waiting, syncs, zones, records, dnsHistory, saves, dnsFaults>>

Zoned(h) == FindZoneForHostname(zones, h) # NoZone

Address == {"CNAME", "A", "AAAA"}
Record == [type : Address \cup {"TXT"}, content : CFTargets \cup {Nowhere},
           proxied : BOOLEAN]
Rec(type, content, proxied) ==
    [type |-> type, content |-> content, proxied |-> proxied]

\* What an operator may have in the zone before bbsit manages the name.
Existing ==
    LET txt == Rec("TXT", Nowhere, FALSE)
        a == Rec("A", Nowhere, TRUE)
    IN  {<<>>, <<txt, a>>, <<Rec("CNAME", Nowhere, TRUE), txt>>, <<a, Rec("AAAA", Nowhere, TRUE)>>}
            \cup {<<Rec("CNAME", c, FALSE)>> : c \in CFTargets}

TunnelRow == [target : CFTargets \cup {Nowhere}, enabled : BOOLEAN, project : BOOLEAN]
NoRow == [target |-> Nowhere, enabled |-> FALSE, project |-> FALSE]

Sync == [id : Nat, target : CFTargets, todo : SUBSET Hostnames,
         host : Hostnames \cup {Nowhere}, recs : Seq(Record) \cup {Unread}]

DnsTypeOK ==
    /\ routed \in [Hostnames -> DnsTunnels \cup {Nowhere}]
    /\ dnsRow \in [DnsTunnels -> TunnelRow]
    /\ waiting \subseteq DnsTunnels
    /\ syncs \subseteq Sync
    /\ \A s \in syncs : s.host = Nowhere <=> s.recs = Unread
    /\ zones \in Listings
    /\ records \in [Hostnames -> Seq(Record)]
    /\ unsynced \subseteq DnsTunnels /\ contested \subseteq Hostnames
    /\ saves \in 0..MaxSaves /\ dnsFaults \in 0..MaxDnsFaults

\* Tunnels that run, and no routes yet.
DnsInit ==
    /\ routed = [h \in Hostnames |-> Nowhere]
    /\ dnsRow \in [DnsTunnels -> [target : CFTargets, enabled : {TRUE}, project : {TRUE}]]
    /\ waiting = {}
    /\ syncs = {}
    /\ zones \in Listings
    /\ records \in [Hostnames -> Existing]
    /\ unsynced = {} /\ contested = {}
    /\ saves = 0 /\ dnsFaults = 0

-----------------------------------------------------------------------------
SavesOne == saves < MaxSaves /\ saves' = saves + 1

\* A project save moves a hostname; every tunnel is to be reconciled.
saveProjectHost(h, t) ==
    /\ SavesOne
    /\ routed' = [routed EXCEPT ![h] = t]
    /\ waiting' = DnsTunnels
    /\ UNCHANGED <<dnsRow, syncs, zones, records, dnsHistory, dnsFaults>>

\* A tunnel is created, updated, or (same row) only synced: it is to be
\* reconciled.
saveTunnel(t, target, enabled) ==
    /\ SavesOne
    /\ dnsRow' = [dnsRow EXCEPT ![t] = [target |-> target, enabled |-> enabled,
                                        project |-> @.project]]
    /\ waiting' = waiting \cup {t}
    /\ UNCHANGED <<routed, syncs, zones, records, dnsHistory, dnsFaults>>

\* DeleteTunnel: the rows go, the records and the goroutines stay.
dropTunnel(t) ==
    /\ SavesOne
    /\ dnsRow[t] # NoRow
    /\ dnsRow' = [dnsRow EXCEPT ![t] = NoRow]
    /\ UNCHANGED <<routed, waiting, syncs, zones, records, dnsHistory, dnsFaults>>

Ingress(t) == {h \in Hostnames : routed[h] = t}

\* The goroutine has the hostname still before it.
Works(s, h) == h \in s.todo \/ s.host = h

\* The goroutine of a reconciliation, if there is something to do.
startSync(t) ==
    /\ syncs' = syncs \cup
         {[id |-> saves, target |-> dnsRow[t].target, todo |-> hs,
           host |-> Nowhere, recs |-> Unread] : hs \in {Ingress(t)} \ {{}}}
    /\ contested' = (contested \ Ingress(t)) \cup
         {h \in Ingress(t) : \E s \in syncs : Works(s, h) /\ s.target # dnsRow[t].target}

\* ReconcileTunnel: an error if the row is gone; the system project of a new
\* tunnel is made and started, and that is all; a disabled tunnel is stopped,
\* and that is all.
ReconcileTunnel(t) ==
    /\ t \in waiting
    /\ waiting' = waiting \ {t}
    /\ \/ /\ dnsRow[t].target = Nowhere
          /\ UNCHANGED <<dnsRow, syncs, dnsHistory>>
       \/ /\ dnsRow[t].target # Nowhere /\ ~dnsRow[t].project
          /\ dnsRow' = [dnsRow EXCEPT ![t].project = TRUE]
          /\ unsynced' = unsynced \cup {t}
          /\ UNCHANGED <<syncs, contested>>
       \/ /\ dnsRow[t].target # Nowhere /\ dnsRow[t].project
          /\ unsynced' = unsynced \ {t}
          /\ IF dnsRow[t].enabled THEN startSync(t) ELSE UNCHANGED <<syncs, contested>>
          /\ UNCHANGED dnsRow
    /\ UNCHANGED <<routed, zones, records, saves, dnsFaults>>

Replace(s, new) == syncs' = (syncs \ {s}) \cup {new}

\* The next hostname: without a zone it is skipped, otherwise its records are
\* listed.
syncDNS(s) ==
    /\ s.host = Nowhere
    /\ \E h \in s.todo :
        Replace(s, [s EXCEPT !.todo = @ \ {h},
                             !.host = IF Zoned(h) THEN h ELSE Nowhere,
                             !.recs = IF Zoned(h) THEN records[h] ELSE Unread])
    /\ UNCHANGED <<tunnelTables, waiting, zones, records, dnsHistory, saves, dnsFaults>>

syncDNSDone(s) ==
    /\ s.host = Nowhere /\ s.todo = {}
    /\ syncs' = syncs \ {s}
    /\ UNCHANGED <<tunnelTables, waiting, zones, records, dnsHistory, saves, dnsFaults>>

\* The first CNAME, A or AAAA record of a listing; 0 if there is none.
AddressIndex(recs) == SelectInSeq(recs, LAMBDA r : r.type \in Address)

\* There is one address record at most.
OneAddress(recs) ==
    \A i, j \in DOMAIN recs : recs[i].type \in Address /\ recs[j].type \in Address => i = j

\* Cloudflare keeps a CNAME the only address record of its name: it refuses
\* one next to another, and an update of a record that is not there any more.
CreateDNSRecord(recs, new) ==
    IF AddressIndex(recs) = 0 THEN Append(recs, new) ELSE recs

UpdateDNSRecord(recs, i, new) ==
    IF i <= Len(recs) /\ OneAddress(recs) THEN [recs EXCEPT ![i] = new] ELSE recs

MutEnsureCNAME(target, seen, recs) ==
    LET desired == Rec("CNAME", target, TRUE) IN
    IF seen = <<>> THEN CreateDNSRecord(recs, desired)
    ELSE UpdateDNSRecord(recs, 1, desired)

MutEnsureCNAMETarget(target, seen, recs) ==
    LET i == AddressIndex(seen)
        desired == Rec("CNAME", target, TRUE)
    IN CASE i = 0 -> CreateDNSRecord(recs, desired)
         [] i # 0 /\ seen[i].type = "CNAME" /\ seen[i].content = target -> recs
         [] OTHER -> UpdateDNSRecord(recs, i, desired)

\* ensureCNAME decides on the listing it saw and acts on the zone as it is.
ensureCNAME(target, seen, recs) ==
    LET i == AddressIndex(seen)
        desired == Rec("CNAME", target, TRUE)
    IN CASE i = 0 -> CreateDNSRecord(recs, desired)
         [] i # 0 /\ seen[i] = desired -> recs
         [] OTHER -> UpdateDNSRecord(recs, i, desired)

syncDNSEnsure(s) ==
    /\ s.host # Nowhere
    /\ records' = [records EXCEPT ![s.host] = ensureCNAME(s.target, s.recs, @)]
    /\ Replace(s, [s EXCEPT !.host = Nowhere, !.recs = Unread])
    /\ UNCHANGED <<tunnelTables, waiting, zones, dnsHistory, saves, dnsFaults>>

\* An API call fails and the hostname is given up ...
syncDNSFault(s) ==
    /\ dnsFaults < MaxDnsFaults /\ dnsFaults' = dnsFaults + 1
    /\ s.host # Nowhere
    /\ Replace(s, [s EXCEPT !.host = Nowhere, !.recs = Unread])
    /\ UNCHANGED <<tunnelTables, waiting, zones, records, dnsHistory, saves>>

\* ... or the zones could not be listed, or the minute is over.
syncDNSTimeout(s) ==
    /\ dnsFaults < MaxDnsFaults /\ dnsFaults' = dnsFaults + 1
    /\ syncs' = syncs \ {s}
    /\ UNCHANGED <<tunnelTables, waiting, zones, records, dnsHistory, saves>>

SyncStep(s) ==
    syncDNS(s) \/ syncDNSDone(s) \/ syncDNSEnsure(s) \/ syncDNSFault(s) \/ syncDNSTimeout(s)

DnsNext ==
    \/ \E h \in Hostnames, t \in DnsTunnels \cup {Nowhere} : saveProjectHost(h, t)
    \/ \E t \in DnsTunnels, c \in CFTargets, e \in BOOLEAN : saveTunnel(t, c, e)
    \/ \E t \in DnsTunnels : dropTunnel(t) \/ ReconcileTunnel(t)
    \/ \E s \in syncs : SyncStep(s)

DnsSpec == DnsInit /\ [][DnsNext]_dnsVars

-----------------------------------------------------------------------------
\* classifyDNS: the status RoutesFor shows for a hostname with a zone.
classifyDNS(expected, recs) ==
    LET cname == SelectInSeq(recs, LAMBDA r : r.type = "CNAME") IN
    CASE AddressIndex(recs) = 0 -> "missing"
      [] AddressIndex(recs) # 0 /\ cname = 0 -> "wrong_type"
      [] cname # 0 /\ recs[cname].content # expected -> "wrong_target"
      [] cname # 0 /\ recs[cname].content = expected /\ ~recs[cname].proxied -> "not_proxied"
      [] OTHER -> "ok"

\* RoutesFor: one status for every hostname the tunnel serves.
RoutesFor(t) ==
    [h \in Ingress(t) |->
        IF Zoned(h) THEN classifyDNS(dnsRow[t].target, records[h]) ELSE "no_zone"]

DnsQuiet == waiting = {} /\ syncs = {}

\* Once every reconciliation and every goroutine is done, with no failed call
\* among them, the routes page shows every hostname of an enabled tunnel as
\* "ok", if it has a zone: the writing side (ensureCNAME) and the checking side
\* (classifyDNS) agree, and no goroutine's late write undoes a newer one
\* (manager.go:152), whatever hostnames were moved and targets changed.  Three
\* cases are left out, because the code gets them wrong: a hostname whose last
\* goroutine was started while one with another target was still at it, which
\* may write last; a tunnel whose last reconciliation was the one that made
\* its system project, and started no goroutine (manager.go:120); and a name
\* with several address records, of which ensureCNAME replaces only the first.
DnsFollowsRoutes ==
    DnsQuiet /\ dnsFaults = 0 =>
        \A t \in DnsTunnels \ unsynced : \A h \in Ingress(t) \ contested :
            dnsRow[t].enabled /\ OneAddress(records[h]) =>
                RoutesFor(t)[h] \in {"ok", "no_zone"}

\* The TXT records of a listing, each at its place.
Siblings(recs) == [i \in {k \in DOMAIN recs : recs[k].type = "TXT"} |-> recs[i]]

\* manager.go:191: whatever the goroutines do to the address record of a
\* name, and however old the listing they decide on, the TXT records next to
\* it stay what and where they are, and none is added.
SiblingsKept == [][\A h \in Hostnames : Siblings(records'[h]) = Siblings(records[h])]_dnsVars

\* For every hostname and every listing the loop over the zones finds the most
\* specific zone that owns the name, and none if no zone does (client.go:149).
LongestSuffix ==
    \A h \in Names(NameLength) : MostSpecific(zones, h, FindZoneForHostname(zones, h))
=============================================================================
