-------------------------- MODULE MigrationsProofs --------------------------
(***************************************************************************)
(* Proofs about the start of the daemon on an older database: for any      *)
(* projects, keys and variables, any crashes, updates, and any loss or     *)
(* exchange of the key file.                                               *)
(***************************************************************************)
EXTENDS Migrations, TLAPS

Row == [custom : BOOLEAN, compose : {"", "bad", "yaml"},
        services : {"scalar", "list"}, digests : {"scalar", "state", "map"},
        by : Keys \cup {Plain}, env : SUBSET Vars,
        null : BOOLEAN, secret : SUBSET Vars]

\* The steps after the key was loaded, after v3, after v4, and after v8.
Cleaning == {"pending", "vacuum", "truncate", "clear", "v9"}
Converted == Cleaning \cup {"marker", "v8"}
Encrypted == Cleaning \cup {"up"}
Current == Converted \cup {"v4", "up"}
Loaded == Current \cup {"v3"}

\* v4 has still to convert this row.
ToConvert(r) == r.custom /\ r.compose = "yaml"

NoPlain == /\ \A p \in Projects : rows[p].by # Plain
           /\ \A f \in Fields : tun[f] # Plain

\* What the steps behind the daemon have established.
PhaseInv ==
    /\ pc \in Loaded => key \in Keys
    /\ pc \in Current =>
         \A p \in Projects : rows[p].services = "list" /\ rows[p].digests = "map"
    /\ pc \in Converted => \A p \in Projects : ~ToConvert(rows[p])
    /\ pc \in Encrypted => NoPlain /\ EncryptedBy \subseteq {key}
    /\ pc = "up" => \A p \in Projects : ~rows[p].null

\* A row that was not classified has all the variables of its project, or
\* finds the missing ones in its custom_compose, in the clear; and so has a
\* row that was never stored in custom mode.
RowInv ==
    \A p \in Projects :
      LET r == rows[p] IN
      /\ p \in customs => ~r.null
      /\ ~r.null => r.secret = class[p]
      /\ r.null /\ ~ToConvert(r) => r.env = class[p]
      /\ r.null /\ ToConvert(r) => r.env \cup YamlVars = class[p]
      /\ p \notin customs /\ ~ToConvert(r) => submitted[p] \subseteq r.env
      /\ p \notin customs /\ ToConvert(r) =>
           r.by = Plain /\ submitted[p] \subseteq r.env \cup YamlVars

\* The files show every value of the rows; and once the clean-up is recorded
\* as done they show a secret only while a row holds it.
FileInv ==
    /\ Live(rows, tun) \subseteq IF vacuumed THEN wal ELSE db \cup wal
    /\ pending = "no" /\ NoPlain => "plain" \notin db \cup wal
    /\ pc = "truncate" => vacuumed /\ "plain" \notin wal
    /\ pc = "clear" => "plain" \notin db \cup wal
    /\ pc \in {"v9", "up"} => pending = "no"

\* Who can open the encrypted values: the key file, or the key the operator
\* can restore.  An exchanged key faces a value that it does not open.
KeyInv ==
    /\ pc = "write_key" => EncryptedBy = {}
    /\ EncryptedBy # {} => \A p \in Projects \ customs : rows[p].by \in Keys
    /\ customs # Projects /\ lost # NoKey =>
         /\ EncryptedBy \subseteq {lost}
         /\ key \in Keys => key # lost /\ EncryptedBy # {}
    /\ customs # Projects /\ lost = NoKey =>
         /\ key \in Keys => EncryptedBy \subseteq {key}
         /\ key \notin Keys => EncryptedBy = {}

MigInv == TypeOK /\ PhaseInv /\ RowInv /\ FileInv /\ KeyInv

-----------------------------------------------------------------------------
\* What a copy of the live rows shows, in terms of the rows.
LEMMA LiveMeaning ==
  ASSUME NEW rs, NEW t
  PROVE  /\ Live(rs, t) \subseteq {"plain", "cipher"}
         /\ "plain" \in Live(rs, t) <=>
              (\E p \in Projects : rs[p].by = Plain) \/ (\E f \in Fields : t[f] = Plain)
         /\ "cipher" \in Live(rs, t) <=>
              (\E p \in Projects : rs[p].by \in Keys) \/ (\E f \in Fields : t[f] \in Keys)
  BY DEF Live

\* Which keys the stored values need, in terms of the rows.
LEMMA EncryptedMeaning ==
  ASSUME NEW S
  PROVE  EncryptedBy \subseteq S <=>
           /\ \A p \in Projects : rows[p].by \in Keys => rows[p].by \in S
           /\ \A f \in Fields : tun[f] \in Keys => tun[f] \in S
  BY DEF EncryptedBy

\* The same after a step.
LEMMA EncryptedMeaningAfter ==
  ASSUME NEW S
  PROVE  EncryptedBy' \subseteq S <=>
           /\ \A p \in Projects : rows'[p].by \in Keys => rows'[p].by \in S
           /\ \A f \in Fields : tun'[f] \in Keys => tun'[f] \in S
  BY DEF EncryptedBy

\* A stored value that is in no way encrypted or in the clear is empty.
LEMMA PlainMeaning ==
  /\ NoPlain <=> "plain" \notin Live(rows, tun)
  /\ EncryptedBy = {} <=> "cipher" \notin Live(rows, tun)
  BY LiveMeaning DEF NoPlain, EncryptedBy

\* The same after a step.
LEMMA PlainMeaningAfter ==
  /\ NoPlain' <=> "plain" \notin Live(rows', tun')
  /\ EncryptedBy' = {} <=> "cipher" \notin Live(rows', tun')
  BY LiveMeaning DEF NoPlain, EncryptedBy

-----------------------------------------------------------------------------
\* One lemma per step that changes rows: what it leaves in them.

\* v3 changes the format of one row and nothing else in it.
LEMMA V3Rows ==
  ASSUME TypeOK, migrateV3Data
  PROVE  /\ rows' \in [Projects -> Row]
         /\ \A p \in Projects :
              /\ rows'[p].custom = rows[p].custom /\ rows'[p].compose = rows[p].compose
              /\ rows'[p].by = rows[p].by /\ rows'[p].env = rows[p].env
              /\ rows'[p].null = rows[p].null /\ rows'[p].secret = rows[p].secret
         /\ \/ /\ pc' = "v4" /\ UNCHANGED <<rows, wal>>
               /\ \A p \in Projects : rows[p].services = "list" /\ rows[p].digests = "map"
            \/ pc' = "v3" /\ wal' = wal \cup Live(rows', tun)
  <1>0. rows \in [Projects -> Row] /\ pc = "v3"
    BY DEF TypeOK, Row, migrateV3Data
  <1> DEFINE old == {p \in Projects : rows[p].services = "scalar" \/ rows[p].digests # "map"}
  <1>1. CASE old = {} /\ pc' = "v4" /\ UNCHANGED <<rows, wal>>
    <2>1. \A p \in Projects : rows[p] \in Row
      BY <1>0
    <2>2. \A p \in Projects : rows[p].services = "list" /\ rows[p].digests = "map"
      BY <1>1, <2>1 DEF Row
    <2> QED  BY <1>0, <1>1, <2>2
  <1>2. ASSUME NEW p \in Projects,
               \/ rows' = [rows EXCEPT ![p].services = "list"]
               \/ \E d \in {"state", "map"} : rows' = [rows EXCEPT ![p].digests = d],
               pc' = pc, wal' = wal \cup Live(rows', tun)
        PROVE  /\ rows' \in [Projects -> Row]
               /\ \A q \in Projects :
                    /\ rows'[q].custom = rows[q].custom /\ rows'[q].compose = rows[q].compose
                    /\ rows'[q].by = rows[q].by /\ rows'[q].env = rows[q].env
                    /\ rows'[q].null = rows[q].null /\ rows'[q].secret = rows[q].secret
    <2>1. rows[p] \in Row
      BY <1>0
    <2>2. ASSUME NEW r \in Row
          PROVE  /\ [r EXCEPT !.services = "list"] \in Row
                 /\ \A d \in {"state", "map"} : [r EXCEPT !.digests = d] \in Row
      BY DEF Row
    <2>3. \E r \in Row :
            /\ rows' = [rows EXCEPT ![p] = r]
            /\ \/ r = [rows[p] EXCEPT !.services = "list"]
               \/ \E d \in {"state", "map"} : r = [rows[p] EXCEPT !.digests = d]
      BY <1>0, <1>2, <2>1, <2>2
    <2>4. PICK r \in Row :
            /\ rows' = [rows EXCEPT ![p] = r]
            /\ \/ r = [rows[p] EXCEPT !.services = "list"]
               \/ \E d \in {"state", "map"} : r = [rows[p] EXCEPT !.digests = d]
      BY <2>3
    <2>5. /\ r.custom = rows[p].custom /\ r.compose = rows[p].compose
          /\ r.by = rows[p].by /\ r.env = rows[p].env
          /\ r.null = rows[p].null /\ r.secret = rows[p].secret
      BY <2>1, <2>4 DEF Row
    <2> QED  BY <1>0, <2>4, <2>5
  <1> QED  BY <1>0, <1>1, <1>2 DEF migrateV3Data, Commit

\* v4 turns one custom row into a form row, in the clear.
LEMMA V4Rows ==
  ASSUME TypeOK, migrateV4CustomToForm
  PROVE  /\ rows' \in [Projects -> Row]
         /\ \/ /\ pc' = "marker" /\ UNCHANGED <<rows, wal>>
               /\ \A p \in Projects : ~ToConvert(rows[p])
            \/ /\ pc' = "v4" /\ wal' = wal \cup Live(rows', tun)
               /\ \E p \in Projects :
                    /\ ToConvert(rows[p]) /\ ~ToConvert(rows'[p])
                    /\ \A q \in Projects \ {p} : rows'[q] = rows[q]
                    /\ rows'[p].by = Plain /\ rows'[p].env = MergedEnv(rows[p])
                    /\ rows'[p].services = rows[p].services
                    /\ rows'[p].digests = rows[p].digests
                    /\ rows'[p].null = rows[p].null /\ rows'[p].secret = rows[p].secret
  <1>0. rows \in [Projects -> Row] /\ pc = "v4"
    BY DEF TypeOK, Row, migrateV4CustomToForm
  <1>1. CASE /\ {p \in Projects : rows[p].custom /\ rows[p].compose = "yaml"} = {}
             /\ pc' = "marker" /\ UNCHANGED <<rows, wal>>
    BY <1>0, <1>1 DEF ToConvert
  <1>2. ASSUME NEW p \in Projects, rows[p].custom /\ rows[p].compose = "yaml",
               rows' = [rows EXCEPT ![p] = [@ EXCEPT !.custom = FALSE, !.compose = "",
                                              !.by = Plain, !.env = MergedEnv(rows[p])]]
        PROVE  /\ rows' \in [Projects -> Row]
               /\ ToConvert(rows[p]) /\ ~ToConvert(rows'[p])
               /\ \A q \in Projects \ {p} : rows'[q] = rows[q]
               /\ rows'[p].by = Plain /\ rows'[p].env = MergedEnv(rows[p])
               /\ rows'[p].services = rows[p].services
               /\ rows'[p].digests = rows[p].digests
               /\ rows'[p].null = rows[p].null /\ rows'[p].secret = rows[p].secret
    <2> DEFINE m == MergedEnv(rows[p])
               r == [rows[p] EXCEPT !.custom = FALSE, !.compose = "", !.by = Plain, !.env = m]
    <2>1. rows[p] \in Row
      BY <1>0
    <2>2. m \in SUBSET Vars
      <3>1. rows[p].env \in SUBSET Vars
        BY <2>1 DEF Row
      <3> QED  BY <3>1 DEF MergedEnv, Vars
    <2>3. rows' = [rows EXCEPT ![p] = r]
      BY <1>2
    <2> HIDE DEF m
    <2>4. /\ r \in Row /\ r.custom = FALSE /\ r.by = Plain /\ r.env = m
          /\ r.services = rows[p].services /\ r.digests = rows[p].digests
          /\ r.null = rows[p].null /\ r.secret = rows[p].secret
      BY ONLY <2>1, <2>2 DEF Row
    <2> HIDE DEF r
    <2>5. rows' \in [Projects -> Row] /\ rows'[p] = r /\ \A q \in Projects \ {p} : rows'[q] = rows[q]
      BY <1>0, <2>3, <2>4
    <2> QED  BY <1>2, <2>4, <2>5 DEF ToConvert, m
  <1>3. migrateV4CustomToForm =>
          \/ /\ {p \in Projects : rows[p].custom /\ rows[p].compose = "yaml"} = {}
             /\ pc' = "marker" /\ UNCHANGED <<rows, wal>>
          \/ /\ \E p \in Projects :
                  /\ rows[p].custom /\ rows[p].compose = "yaml"
                  /\ rows' = [rows EXCEPT ![p] = [@ EXCEPT !.custom = FALSE, !.compose = "",
                                              !.by = Plain, !.env = MergedEnv(rows[p])]]
             /\ pc' = pc /\ wal' = wal \cup Live(rows', tun)
    BY DEF migrateV4CustomToForm, Commit
  <1> QED  BY <1>0, <1>1, <1>2, <1>3

\* v8 encrypts every row, or leaves all of them alone.
LEMMA V8Rows ==
  ASSUME TypeOK, key \in Keys, migrateV8Secrets
  PROVE  /\ rows' \in [Projects -> Row] /\ tun' \in [Fields -> Keys \cup {Plain, Empty}]
         /\ \/ /\ ~(EncryptedBy \subseteq {key}) /\ pc' = "refused"
               /\ UNCHANGED <<rows, tun, pending, wal>>
            \/ /\ EncryptedBy \subseteq {key} /\ NoPlain /\ pc' = "pending"
               /\ UNCHANGED <<rows, tun, pending, wal>>
            \/ /\ EncryptedBy \subseteq {key} /\ pc' = "pending" /\ pending' = "yes"
               /\ wal' = wal \cup Live(rows', tun')
               /\ \A p \in Projects :
                    /\ rows'[p].by = key
                    /\ rows'[p].custom = rows[p].custom /\ rows'[p].compose = rows[p].compose
                    /\ rows'[p].services = rows[p].services
                    /\ rows'[p].digests = rows[p].digests /\ rows'[p].env = rows[p].env
                    /\ rows'[p].null = rows[p].null /\ rows'[p].secret = rows[p].secret
               /\ \A f \in Fields : tun'[f] = IF tun[f] = Plain THEN key ELSE tun[f]
  <1>0. rows \in [Projects -> Row] /\ tun \in [Fields -> Keys \cup {Plain, Empty}]
    BY DEF TypeOK, Row
  <1>1. ASSUME rows' = [p \in Projects |-> [rows[p] EXCEPT !.by = key]]
        PROVE  /\ rows' \in [Projects -> Row]
               /\ \A p \in Projects :
                    /\ rows'[p].by = key
                    /\ rows'[p].custom = rows[p].custom /\ rows'[p].compose = rows[p].compose
                    /\ rows'[p].services = rows[p].services
                    /\ rows'[p].digests = rows[p].digests /\ rows'[p].env = rows[p].env
                    /\ rows'[p].null = rows[p].null /\ rows'[p].secret = rows[p].secret
    <2>1. ASSUME NEW r \in Row
          PROVE  LET s == [r EXCEPT !.by = key] IN
                 /\ s \in Row /\ s.by = key /\ s.custom = r.custom /\ s.compose = r.compose
                 /\ s.services = r.services /\ s.digests = r.digests /\ s.env = r.env
                 /\ s.null = r.null /\ s.secret = r.secret
      BY DEF Row
    <2>2. \A p \in Projects : rows'[p] = [rows[p] EXCEPT !.by = key] /\ rows[p] \in Row
      BY <1>0, <1>1
    <2>3. \A p \in Projects : rows'[p] \in Row
      BY <2>1, <2>2
    <2> QED  BY <1>1, <2>1, <2>2, <2>3
  <1>2. ASSUME tun' = [f \in Fields |-> IF tun[f] = Plain THEN key ELSE tun[f]]
        PROVE  /\ tun' \in [Fields -> Keys \cup {Plain, Empty}]
               /\ \A f \in Fields : tun'[f] = IF tun[f] = Plain THEN key ELSE tun[f]
    BY <1>0, <1>2
  <1>3. \/ /\ ~(EncryptedBy \subseteq {key}) /\ pc' = "refused"
           /\ UNCHANGED <<rows, tun, pending, wal>>
        \/ /\ EncryptedBy \subseteq {key} /\ NoPlain /\ pc' = "pending"
           /\ UNCHANGED <<rows, tun, pending, wal>>
        \/ /\ EncryptedBy \subseteq {key} /\ pc' = "pending" /\ pending' = "yes"
           /\ rows' = [p \in Projects |-> [rows[p] EXCEPT !.by = key]]
           /\ tun' = [f \in Fields |-> IF tun[f] = Plain THEN key ELSE tun[f]]
           /\ wal' = wal \cup Live(rows', tun')
    BY PlainMeaning DEF migrateV8Secrets, Commit
  <1> QED  BY <1>0, <1>1, <1>2, <1>3

\* v9 classifies all the variables of a row that has no classification.
LEMMA V9Rows ==
  ASSUME TypeOK, migrateV9SecretEnvKeys
  PROVE  /\ rows' \in [Projects -> Row]
         /\ \A p \in Projects :
              /\ rows'[p].custom = rows[p].custom /\ rows'[p].compose = rows[p].compose
              /\ rows'[p].services = rows[p].services /\ rows'[p].digests = rows[p].digests
              /\ rows'[p].by = rows[p].by /\ rows'[p].env = rows[p].env
              /\ ~rows'[p].null
              /\ rows'[p].secret = IF rows[p].null THEN rows[p].env ELSE rows[p].secret
         /\ \/ rows' = rows /\ wal' = wal
            \/ wal' = wal \cup Live(rows', tun)
  <1>0. rows \in [Projects -> Row]
    BY DEF TypeOK, Row
  <1>1. ASSUME NEW r \in Row
        PROVE  LET s == [r EXCEPT !.null = FALSE, !.secret = r.env] IN
               /\ s \in Row /\ ~s.null /\ s.secret = r.env
               /\ s.custom = r.custom /\ s.compose = r.compose /\ s.services = r.services
               /\ s.digests = r.digests /\ s.by = r.by /\ s.env = r.env
    BY DEF Row
  <1>2. rows' = [p \in Projects |->
                  IF rows[p].null THEN [rows[p] EXCEPT !.null = FALSE, !.secret = rows[p].env]
                  ELSE rows[p]]
    BY DEF migrateV9SecretEnvKeys
  <1>3. \A p \in Projects :
          /\ rows[p] \in Row
          /\ rows'[p] = IF rows[p].null THEN [rows[p] EXCEPT !.null = FALSE, !.secret = rows[p].env]
                        ELSE rows[p]
    BY <1>0, <1>2
  <1>4. \A p \in Projects : rows'[p] \in Row
    BY <1>1, <1>3
  <1>5. rows' \in [Projects -> Row]
    BY <1>2, <1>4
  <1>6. \A p \in Projects :
              /\ rows'[p].custom = rows[p].custom /\ rows'[p].compose = rows[p].compose
              /\ rows'[p].services = rows[p].services /\ rows'[p].digests = rows[p].digests
              /\ rows'[p].by = rows[p].by /\ rows'[p].env = rows[p].env
              /\ ~rows'[p].null
              /\ rows'[p].secret = IF rows[p].null THEN rows[p].env ELSE rows[p].secret
    <2> TAKE p \in Projects
    <2>1. CASE rows[p].null
      BY <1>1, <1>3, <2>1
    <2>2. CASE ~rows[p].null
      <3>1. rows'[p] = rows[p]
        BY <1>3, <2>2
      <3> QED  BY <2>2, <3>1
    <2> QED  BY <2>1, <2>2
  <1>7. (rows' = rows /\ wal' = wal) \/ wal' = wal \cup Live(rows', tun)
    BY DEF migrateV9SecretEnvKeys, Commit
  <1> QED  BY <1>5, <1>6, <1>7

\* An update stores its row encrypted and classified.
LEMMA UpdateRows ==
  ASSUME TypeOK, key \in Keys, NEW p \in Projects, NEW env \in SUBSET Vars,
         NEW secret \in SUBSET env, NEW custom \in BOOLEAN,
         UpdateProject(p, env, secret, custom)
  PROVE  /\ rows' \in [Projects -> Row]
         /\ \A q \in Projects \ {p} : rows'[q] = rows[q]
         /\ rows'[p].by = key /\ rows'[p].env = env
         /\ ~rows'[p].null /\ rows'[p].secret = secret
         /\ rows'[p].services = rows[p].services /\ rows'[p].digests = rows[p].digests
         /\ ToConvert(rows'[p]) <=> custom
  <1> DEFINE y == IF custom THEN "yaml" ELSE ""
             r == [rows[p] EXCEPT !.custom = custom, !.compose = y, !.by = key, !.env = env,
                                  !.null = FALSE, !.secret = secret]
  <1>0. rows \in [Projects -> Row]
    BY DEF TypeOK, Row
  <1>1. rows[p] \in Row /\ secret \in SUBSET Vars
    BY <1>0
  <1>2. y \in {"", "bad", "yaml"} /\ (y = "yaml" <=> custom)
    OBVIOUS
  <1>3. rows' = [rows EXCEPT ![p] = r]
    BY DEF UpdateProject
  <1> HIDE DEF y
  <1>4. /\ r \in Row /\ r.custom = custom /\ r.compose = y /\ r.by = key /\ r.env = env
        /\ ~r.null /\ r.secret = secret
        /\ r.services = rows[p].services /\ r.digests = rows[p].digests
    BY <1>1, <1>2 DEF Row
  <1> HIDE DEF r
  <1>5. rows' \in [Projects -> Row] /\ rows'[p] = r /\ \A q \in Projects \ {p} : rows'[q] = rows[q]
    BY <1>0, <1>3, <1>4
  <1> QED  BY <1>2, <1>4, <1>5 DEF ToConvert

-----------------------------------------------------------------------------
\* The steps of Next, named: every proof below has one case for each.
LEMMA NextCases ==
  ASSUME Next, NEW G,
         OpenWithKey => G, loadOrCreateSecretKey => G, migrateV3Data => G,
         migrateV4CustomToForm => G, Marker => G, migrateV8Secrets => G, CleanUp => G,
         migrateV9SecretEnvKeys => G,
         \A p \in Projects, env \in SUBSET Vars, custom \in BOOLEAN :
            \A secret \in SUBSET env : UpdateProject(p, env, secret, custom) => G,
         Restart => G, Close => G, Crash => G, LoseKey => G, SwapKey => G, RestoreKey => G
  PROVE  G
  BY DEF Next, Start

\* The type invariant is preserved.
LEMMA TypesInductive ==
  ASSUME TypeOK, PhaseInv, [Next]_vars
  PROVE  TypeOK'
  <1>0. rows \in [Projects -> Row]
    BY DEF TypeOK, Row
  <1>k. pc \in Loaded => key \in Keys
    BY DEF PhaseInv
  <1>a. OpenWithKey => TypeOK'
    BY DEF TypeOK, Steps, OpenWithKey, files, ghosts
  <1>b. loadOrCreateSecretKey => TypeOK'
    BY DEF TypeOK, Steps, loadOrCreateSecretKey, files
  <1>c. migrateV3Data => TypeOK'
    <2> HAVE migrateV3Data
    <2>1. rows' \in [Projects -> Row] /\ pc' \in {"v3", "v4"} /\ wal' \subseteq {"plain", "cipher"}
      BY V3Rows, LiveMeaning DEF TypeOK
    <2> QED  BY <2>1 DEF TypeOK, Steps, migrateV3Data, ghosts, Row
  <1>d. migrateV4CustomToForm => TypeOK'
    <2> HAVE migrateV4CustomToForm
    <2>1. rows' \in [Projects -> Row] /\ pc' \in {"v4", "marker"} /\ wal' \subseteq {"plain", "cipher"}
      BY V4Rows, LiveMeaning DEF TypeOK
    <2> QED  BY <2>1 DEF TypeOK, Steps, migrateV4CustomToForm, ghosts, Row
  <1>e. Marker => TypeOK'
    BY DEF TypeOK, Steps, Marker, files, ghosts
  <1>f. migrateV8Secrets => TypeOK'
    <2> HAVE migrateV8Secrets
    <2>0. pc = "v8" /\ key \in Keys
      BY <1>k DEF migrateV8Secrets, Loaded, Current, Converted
    <2>1. /\ rows' \in [Projects -> Row] /\ tun' \in [Fields -> Keys \cup {Plain, Empty}]
          /\ pc' \in {"refused", "pending"} /\ pending' \in {pending, "yes"}
          /\ wal' \subseteq {"plain", "cipher"}
      BY <2>0, V8Rows, LiveMeaning DEF TypeOK
    <2> QED  BY <2>0, <2>1 DEF TypeOK, Steps, migrateV8Secrets, ghosts, Row
  <1>g. CleanUp => TypeOK'
    BY LiveMeaning DEF TypeOK, Steps, CleanUp, checkpointSecrets, Vacuum, files, ghosts
  <1>h. migrateV9SecretEnvKeys => TypeOK'
    <2> HAVE migrateV9SecretEnvKeys
    <2>1. rows' \in [Projects -> Row] /\ wal' \subseteq {"plain", "cipher"}
      BY V9Rows, LiveMeaning DEF TypeOK
    <2> QED  BY <2>1 DEF TypeOK, Steps, migrateV9SecretEnvKeys, ghosts, Row
  <1>i. ASSUME NEW p \in Projects, NEW env \in SUBSET Vars, NEW custom \in BOOLEAN,
               NEW secret \in SUBSET env, UpdateProject(p, env, secret, custom)
        PROVE  TypeOK'
    <2>0. pc = "up" /\ key \in Keys
      BY <1>i, <1>k DEF UpdateProject, Loaded, Current
    <2>1. rows' \in [Projects -> Row]
      BY <1>i, <2>0, UpdateRows
    <2>2. wal' \subseteq {"plain", "cipher"}
      BY <1>i, LiveMeaning DEF TypeOK, Steps, UpdateProject, Commit
    <2>3. stores' \in 0..MaxStores
      <3>1. /\ stores \in 0..MaxStores /\ MaxStores \in Nat
            /\ stores < MaxStores /\ stores' = stores + 1
        BY <1>i, MigrationsAssumption DEF TypeOK, UpdateProject
      <3> QED  BY ONLY <3>1
    <2>4. /\ submitted' \in [Projects -> SUBSET Vars] /\ class' \in [Projects -> SUBSET Vars]
          /\ customs' \subseteq Projects
      BY <1>i DEF TypeOK, Steps, UpdateProject
    <2>5. UNCHANGED <<key, tun, pending, db, vacuumed, pc, used, lost, crashes>>
      BY <1>i DEF TypeOK, Steps, UpdateProject
    <2> QED  BY <2>0, <2>1, <2>2, <2>3, <2>4, <2>5 DEF TypeOK, Steps, Row
  <1>j. Restart => TypeOK'
    BY DEF TypeOK, Steps, Restart, files, ghosts
  <1>l. Close => TypeOK'
    BY DEF TypeOK, Steps, Close, checkpointSecrets, ghosts
  <1>m. Crash => TypeOK'
    <2> HAVE Crash
    <2>1. /\ crashes \in 0..MaxCrashes /\ MaxCrashes \in Nat
          /\ crashes < MaxCrashes /\ crashes' = crashes + 1
      BY MigrationsAssumption DEF TypeOK, Crash
    <2>2. crashes' \in 0..MaxCrashes
      BY ONLY <2>1
    <2> QED  BY <2>2 DEF TypeOK, Steps, Crash, files
  <1>n. LoseKey => TypeOK'
    BY DEF TypeOK, Steps, LoseKey, files
  <1>o. SwapKey => TypeOK'
    BY DEF TypeOK, Steps, SwapKey, files
  <1>p. RestoreKey => TypeOK'
    BY DEF TypeOK, Steps, RestoreKey, files
  <1>q. UNCHANGED vars => TypeOK'
    BY DEF TypeOK, Steps, vars
  <1>r. CASE Next
    BY <1>r, <1>a, <1>b, <1>c, <1>d, <1>e, <1>f, <1>g, <1>h, <1>i, <1>j, <1>l, <1>m, <1>n,
       <1>o, <1>p, NextCases
  <1> QED  BY <1>q, <1>r

\* The lasting facts of PhaseInv survive a step that leaves the rows and the
\* key alone and does not move the start forward.
LEMMA PhaseFrame ==
  ASSUME PhaseInv, UNCHANGED <<key, rows, tun>>, pc' \in {pc, "down", "refused"}
  PROVE  PhaseInv'
  <1>1. pc' \in Loaded => pc' = pc
    BY DEF Loaded, Current, Converted, Cleaning
  <1>2. (pc' \in Current \/ pc' \in Converted \/ pc' \in Encrypted) => pc' = pc
    BY DEF Encrypted, Current, Converted, Cleaning
  <1>3. NoPlain' = NoPlain /\ EncryptedBy' = EncryptedBy
    BY DEF NoPlain, EncryptedBy
  <1> QED  BY <1>1, <1>2, <1>3 DEF PhaseInv

\* What the steps behind the daemon have established is preserved.
LEMMA PhaseInductive ==
  ASSUME TypeOK, PhaseInv, [Next]_vars
  PROVE  PhaseInv'
  <1> DEFINE Phases == Steps \cup {"down", "up", "refused"}
  <1>k. pc \in Loaded => key \in Keys
    BY DEF PhaseInv
  <1>a. OpenWithKey => PhaseInv'
    BY DEF OpenWithKey, PhaseInv, Loaded, Current, Converted, Encrypted, Cleaning
  <1>b. loadOrCreateSecretKey => PhaseInv'
    BY DEF loadOrCreateSecretKey, PhaseInv, Loaded, Current, Converted, Encrypted, Cleaning
  <1>c. migrateV3Data => PhaseInv'
    <2> HAVE migrateV3Data
    <2>1. pc = "v3" /\ key' = key /\ key \in Keys
      BY <1>k DEF migrateV3Data, Loaded
    <2>2. CASE /\ pc' = "v4" /\ UNCHANGED <<rows, wal>>
               /\ \A p \in Projects : rows[p].services = "list" /\ rows[p].digests = "map"
      BY <2>1, <2>2 DEF PhaseInv, Loaded, Current, Converted, Encrypted, Cleaning
    <2>3. CASE pc' = "v3"
      BY <2>1, <2>3 DEF PhaseInv, Loaded, Current, Converted, Encrypted, Cleaning
    <2> QED  BY <2>2, <2>3, V3Rows
  <1>d. migrateV4CustomToForm => PhaseInv'
    <2> HAVE migrateV4CustomToForm
    <2>1. pc = "v4" /\ key' = key /\ key \in Keys
      BY <1>k DEF migrateV4CustomToForm, Loaded, Current
    <2>2. \A p \in Projects : rows[p].services = "list" /\ rows[p].digests = "map"
      BY <2>1 DEF PhaseInv, Current
    <2>3. \A p \in Projects : rows'[p].services = "list" /\ rows'[p].digests = "map"
      BY <2>2, V4Rows
    <2>4. \/ pc' = "v4"
          \/ pc' = "marker" /\ \A p \in Projects : ~ToConvert(rows'[p])
      BY V4Rows
    <2> QED  BY <2>1, <2>3, <2>4 DEF PhaseInv, Loaded, Current, Converted, Encrypted, Cleaning
  <1>e. Marker => PhaseInv'
    BY DEF Marker, PhaseInv, Loaded, Current, Converted, Encrypted, Cleaning
  <1>f. migrateV8Secrets => PhaseInv'
    <2> HAVE migrateV8Secrets
    <2>1. pc = "v8" /\ key' = key /\ key \in Keys
      BY <1>k DEF migrateV8Secrets, Loaded, Current, Converted
    <2>2. CASE pc' = "refused" /\ UNCHANGED <<rows, tun>>
      BY <2>1, <2>2, PhaseFrame
    <2>3. \A p \in Projects : /\ rows[p].services = "list" /\ rows[p].digests = "map"
                              /\ ~ToConvert(rows[p])
      BY <2>1 DEF PhaseInv, Current, Converted
    <2>4. CASE /\ EncryptedBy \subseteq {key} /\ NoPlain /\ pc' = "pending"
               /\ UNCHANGED <<rows, tun>>
      <3>1. NoPlain' /\ EncryptedBy' \subseteq {key}
        BY <2>4 DEF NoPlain, EncryptedBy
      <3> QED  BY <2>1, <2>3, <2>4, <3>1 DEF PhaseInv
    <2>5. CASE /\ EncryptedBy \subseteq {key} /\ pc' = "pending"
               /\ \A p \in Projects :
                    /\ rows'[p].by = key
                    /\ rows'[p].custom = rows[p].custom /\ rows'[p].compose = rows[p].compose
                    /\ rows'[p].services = rows[p].services
                    /\ rows'[p].digests = rows[p].digests
               /\ \A f \in Fields : tun'[f] = IF tun[f] = Plain THEN key ELSE tun[f]
      <3>1. key # Plain
        BY <2>1, MigrationsAssumption
      <3>2. NoPlain'
        BY <2>5, <3>1 DEF NoPlain
      <3>3. EncryptedBy' \subseteq {key}
        BY <2>5, EncryptedMeaning, EncryptedMeaningAfter
      <3>4. \A p \in Projects : /\ rows'[p].services = "list" /\ rows'[p].digests = "map"
                                /\ ~ToConvert(rows'[p])
        BY <2>3, <2>5 DEF ToConvert
      <3> QED  BY <2>1, <2>5, <3>2, <3>3, <3>4 DEF PhaseInv
    <2> QED  BY <2>1, <2>2, <2>4, <2>5, V8Rows
  <1>g. CleanUp => PhaseInv'
    <2> HAVE CleanUp
    <2>1. pc \in Cleaning /\ pc' \in Cleaning /\ UNCHANGED <<key, rows, tun>>
      BY DEF CleanUp, Cleaning
    <2>2. NoPlain' = NoPlain /\ EncryptedBy' = EncryptedBy
      BY <2>1 DEF NoPlain, EncryptedBy
    <2>3. pc' # "up"
      BY <2>1 DEF Cleaning
    <2> QED  BY <2>1, <2>2, <2>3 DEF PhaseInv, Loaded, Current, Converted, Encrypted
  <1>h. migrateV9SecretEnvKeys => PhaseInv'
    <2> HAVE migrateV9SecretEnvKeys
    <2>1. pc = "v9" /\ pc' = "up" /\ UNCHANGED <<key, tun>>
      BY DEF migrateV9SecretEnvKeys
    <2>2. \A p \in Projects : rows[p].services = "list" /\ rows[p].digests = "map"
      BY <2>1 DEF PhaseInv, Current, Converted, Cleaning
    <2>3. NoPlain /\ EncryptedBy \subseteq {key} /\ key \in Keys
      BY <2>1 DEF PhaseInv, Loaded, Current, Converted, Encrypted, Cleaning
    <2>4. NoPlain'
      BY <2>1, <2>3, V9Rows DEF NoPlain
    <2>5. EncryptedBy' \subseteq {key}
      BY <2>1, <2>3, V9Rows, EncryptedMeaning, EncryptedMeaningAfter
    <2>6. \A p \in Projects : rows'[p].services = "list" /\ rows'[p].digests = "map"
      BY <2>2, V9Rows
    <2>7. \A p \in Projects : ~rows'[p].null
      BY V9Rows
    <2> QED  BY <2>1, <2>3, <2>4, <2>5, <2>6, <2>7 DEF PhaseInv, Converted, Cleaning
  <1>i. ASSUME NEW p \in Projects, NEW env \in SUBSET Vars, NEW custom \in BOOLEAN,
               NEW secret \in SUBSET env, UpdateProject(p, env, secret, custom)
        PROVE  PhaseInv'
    <2>1. pc = "up" /\ pc' = "up" /\ UNCHANGED <<key, tun>>
      BY <1>i DEF UpdateProject
    <2>2. \A q \in Projects : rows[q].services = "list" /\ rows[q].digests = "map"
      BY <2>1 DEF PhaseInv, Current
    <2>3. NoPlain /\ EncryptedBy \subseteq {key} /\ key \in Keys
      BY <2>1 DEF PhaseInv, Loaded, Current, Encrypted
    <2>4. /\ \A q \in Projects \ {p} : rows'[q] = rows[q]
          /\ rows'[p].by = key
          /\ rows'[p].services = rows[p].services /\ rows'[p].digests = rows[p].digests
          /\ ~rows'[p].null
      BY <1>i, <2>3, UpdateRows
    <2>5. key # Plain
      BY <2>3, MigrationsAssumption
    <2>6. NoPlain'
      BY <2>1, <2>3, <2>4, <2>5 DEF NoPlain
    <2>7. EncryptedBy' \subseteq {key}
      BY <2>1, <2>3, <2>4, EncryptedMeaning, EncryptedMeaningAfter
    <2>8. \A q \in Projects : rows'[q].services = "list" /\ rows'[q].digests = "map"
      BY <2>2, <2>4
    <2>9. \A q \in Projects : ~rows'[q].null
      BY <2>1, <2>4 DEF PhaseInv
    <2> QED  BY <2>1, <2>3, <2>6, <2>7, <2>8, <2>9 DEF PhaseInv, Converted, Cleaning
  <1>j. Restart => PhaseInv'
    BY PhaseFrame DEF Restart
  <1>l. Close => PhaseInv'
    BY PhaseFrame DEF Close
  <1>m. Crash => PhaseInv'
    BY PhaseFrame DEF Crash
  <1>n. LoseKey \/ SwapKey \/ RestoreKey => PhaseInv'
    <2> SUFFICES ASSUME LoseKey \/ SwapKey \/ RestoreKey
                 PROVE  PhaseInv'
      OBVIOUS
    <2>1. pc' = "down"
      BY DEF LoseKey, SwapKey, RestoreKey
    <2> QED  BY <2>1 DEF PhaseInv, Loaded, Current, Converted, Encrypted, Cleaning
  <1>q. UNCHANGED vars => PhaseInv'
    BY PhaseFrame DEF vars
  <1>r. CASE Next
    BY <1>r, <1>a, <1>b, <1>c, <1>d, <1>e, <1>f, <1>g, <1>h, <1>i, <1>j, <1>l, <1>m, <1>n,
       NextCases
  <1> QED  BY <1>q, <1>r

\* RowInv looks at the rows, their class and what was submitted only.
LEMMA RowFrame ==
  ASSUME RowInv, UNCHANGED <<rows, customs, submitted, class>>
  PROVE  RowInv'
  BY DEF RowInv

\* The variables and the classification of every row are preserved.
LEMMA RowInductive ==
  ASSUME TypeOK, PhaseInv, RowInv, [Next]_vars
  PROVE  RowInv'
  <1>a. OpenWithKey => RowInv'
    BY RowFrame DEF OpenWithKey, ghosts
  <1>b. loadOrCreateSecretKey => RowInv'
    BY RowFrame DEF loadOrCreateSecretKey
  <1>c. migrateV3Data => RowInv'
    <2> HAVE migrateV3Data
    <2>1. UNCHANGED <<customs, submitted, class>>
      BY DEF migrateV3Data, ghosts
    <2> QED  BY <2>1, V3Rows DEF RowInv, ToConvert
  <1>d. migrateV4CustomToForm => RowInv'
    <2> HAVE migrateV4CustomToForm
    <2>1. UNCHANGED <<customs, submitted, class>>
      BY DEF migrateV4CustomToForm, ghosts
    <2>2. CASE UNCHANGED rows
      BY <2>1, <2>2, RowFrame
    <2>3. ASSUME NEW p \in Projects, ToConvert(rows[p]), ~ToConvert(rows'[p]),
                 \A q \in Projects \ {p} : rows'[q] = rows[q],
                 rows'[p].env = MergedEnv(rows[p]),
                 rows'[p].null = rows[p].null, rows'[p].secret = rows[p].secret
          PROVE  RowInv'
      <3>1. p \notin customs => rows'[p].env = rows[p].env \cup YamlVars
        BY <2>3 DEF RowInv, MergedEnv
      <3>2. rows[p].null => rows'[p].env = class[p]
        BY <2>3, <3>1 DEF RowInv
      <3>3. p \notin customs => submitted[p] \subseteq rows'[p].env
        BY <2>3, <3>1 DEF RowInv
      <3> QED  BY <2>1, <2>3, <3>2, <3>3 DEF RowInv
    <2> QED  BY <2>2, <2>3, V4Rows
  <1>e. Marker => RowInv'
    BY RowFrame DEF Marker, ghosts
  <1>f. migrateV8Secrets => RowInv'
    <2> HAVE migrateV8Secrets
    <2>1. pc = "v8" /\ key \in Keys /\ UNCHANGED <<customs, submitted, class>>
      BY DEF migrateV8Secrets, PhaseInv, Loaded, Current, Converted, ghosts
    <2>2. CASE UNCHANGED rows
      BY <2>1, <2>2, RowFrame
    <2>3. CASE \A p \in Projects :
                    /\ rows'[p].custom = rows[p].custom /\ rows'[p].compose = rows[p].compose
                    /\ rows'[p].env = rows[p].env
                    /\ rows'[p].null = rows[p].null /\ rows'[p].secret = rows[p].secret
      <3>1. \A p \in Projects : ~ToConvert(rows[p])
        BY <2>1 DEF PhaseInv, Converted
      <3>2. \A p \in Projects : ~ToConvert(rows'[p])
        BY <2>3, <3>1 DEF ToConvert
      <3> QED  BY <2>1, <2>3, <3>1, <3>2 DEF RowInv
    <2> QED  BY <2>1, <2>2, <2>3, V8Rows
  <1>g. CleanUp => RowInv'
    BY RowFrame DEF CleanUp, ghosts
  <1>h. migrateV9SecretEnvKeys => RowInv'
    <2> HAVE migrateV9SecretEnvKeys
    <2>1. pc = "v9" /\ UNCHANGED <<customs, submitted, class>>
      BY DEF migrateV9SecretEnvKeys, ghosts
    <2>2. \A p \in Projects : ~ToConvert(rows[p])
      BY <2>1 DEF PhaseInv, Converted, Cleaning
    <2>3. \A p \in Projects : ~ToConvert(rows'[p])
      BY <2>2, V9Rows DEF ToConvert
    <2>4. \A p \in Projects : /\ ~rows'[p].null /\ rows'[p].env = rows[p].env
                              /\ rows'[p].secret = IF rows[p].null THEN rows[p].env
                                                   ELSE rows[p].secret
      BY V9Rows
    <2> QED  BY <2>1, <2>2, <2>3, <2>4 DEF RowInv
  <1>i. ASSUME NEW p \in Projects, NEW env \in SUBSET Vars, NEW custom \in BOOLEAN,
               NEW secret \in SUBSET env, UpdateProject(p, env, secret, custom)
        PROVE  RowInv'
    <2>1. pc = "up" /\ key \in Keys
      BY <1>i DEF UpdateProject, PhaseInv, Loaded, Current
    <2>2. /\ \A q \in Projects \ {p} : rows'[q] = rows[q]
          /\ rows'[p].env = env /\ ~rows'[p].null /\ rows'[p].secret = secret
          /\ ToConvert(rows'[p]) <=> custom
      BY <1>i, <2>1, UpdateRows
    <2>3. /\ class'[p] = secret /\ submitted'[p] = env
          /\ \A q \in Projects \ {p} : class'[q] = class[q] /\ submitted'[q] = submitted[q]
          /\ \A q \in Projects \ {p} : q \in customs' <=> q \in customs
          /\ custom => p \in customs'
      BY <1>i DEF UpdateProject, TypeOK
    <2> QED  BY <2>2, <2>3 DEF RowInv
  <1>j. Restart => RowInv'
    BY RowFrame DEF Restart, ghosts
  <1>l. Close => RowInv'
    BY RowFrame DEF Close, ghosts
  <1>m. Crash => RowInv'
    BY RowFrame DEF Crash
  <1>n. LoseKey \/ SwapKey \/ RestoreKey => RowInv'
    BY RowFrame DEF LoseKey, SwapKey, RestoreKey
  <1>q. UNCHANGED vars => RowInv'
    BY RowFrame DEF vars
  <1>r. CASE Next
    BY <1>r, <1>a, <1>b, <1>c, <1>d, <1>e, <1>f, <1>g, <1>h, <1>i, <1>j, <1>l, <1>m, <1>n,
       NextCases
  <1> QED  BY <1>q, <1>r

\* FileInv survives a step that touches neither the files nor the rows.
LEMMA FileFrame ==
  ASSUME FileInv, UNCHANGED <<rows, tun, pending, files>>,
         pc' \in {pc} \cup (Loaded \ (Cleaning \cup {"up"})) \cup {"down", "refused", "write_key"}
  PROVE  FileInv'
  <1>1. NoPlain' = NoPlain
    BY DEF NoPlain
  <1>2. pc' \in {"truncate", "clear", "v9", "up"} => pc' = pc
    BY DEF Loaded, Current, Converted, Cleaning
  <1> QED  BY <1>1, <1>2 DEF FileInv, files

\* A commit puts the changed rows into the log, where secrets appear only if
\* a row holds one.
LEMMA FileCommit ==
  ASSUME FileInv, wal' = wal \cup Live(rows', tun'), UNCHANGED <<db, vacuumed>>,
         pending' = "no" => pending = "no" /\ (NoPlain' => NoPlain),
         pc' \notin {"truncate", "clear"},
         pc' \in {"v9", "up"} => pending' = "no"
  PROVE  FileInv'
  <1>1. Live(rows', tun') \subseteq IF vacuumed' THEN wal' ELSE db' \cup wal'
    OBVIOUS
  <1>2. ASSUME pending' = "no", NoPlain'
        PROVE  "plain" \notin db' \cup wal'
    <2>1. "plain" \notin db \cup wal
      BY <1>2 DEF FileInv
    <2> QED  BY <1>2, <2>1, PlainMeaningAfter
  <1> QED  BY <1>1, <1>2 DEF FileInv

\* A checkpoint moves the log into the database.
LEMMA FileCheckpoint ==
  ASSUME FileInv, checkpointSecrets, UNCHANGED <<rows, tun>>
  PROVE  /\ Live(rows', tun') \subseteq IF vacuumed' THEN wal' ELSE db' \cup wal'
         /\ db' \subseteq db \cup wal /\ wal' = {}
         /\ vacuumed => db' = wal
  BY DEF FileInv, checkpointSecrets

\* What can be read in the files is preserved.
LEMMA FileInductive ==
  ASSUME TypeOK, PhaseInv, FileInv, [Next]_vars
  PROVE  FileInv'
  <1>a. OpenWithKey => FileInv'
    BY FileFrame DEF OpenWithKey, Loaded, Current, Converted, Cleaning
  <1>b. loadOrCreateSecretKey => FileInv'
    BY FileFrame DEF loadOrCreateSecretKey, Loaded, Current, Converted, Cleaning
  <1>c. migrateV3Data => FileInv'
    <2> HAVE migrateV3Data
    <2>1. UNCHANGED <<tun, pending, db, vacuumed>>
      BY DEF migrateV3Data
    <2>2. CASE pc' = "v4" /\ UNCHANGED <<rows, wal>>
      BY <2>1, <2>2, FileFrame DEF files, Loaded, Current, Converted, Cleaning
    <2>3. CASE pc' = "v3" /\ wal' = wal \cup Live(rows', tun)
      <3>1. NoPlain' => NoPlain
        BY <2>1, V3Rows DEF NoPlain
      <3> QED  BY <2>1, <2>3, <3>1, FileCommit
    <2> QED  BY <2>2, <2>3, V3Rows
  <1>d. migrateV4CustomToForm => FileInv'
    <2> HAVE migrateV4CustomToForm
    <2>1. UNCHANGED <<tun, pending, db, vacuumed>>
      BY DEF migrateV4CustomToForm
    <2>2. CASE pc' = "marker" /\ UNCHANGED <<rows, wal>>
      BY <2>1, <2>2, FileFrame DEF files, Loaded, Current, Converted, Cleaning
    <2>3. CASE /\ pc' = "v4" /\ wal' = wal \cup Live(rows', tun)
               /\ \E p \in Projects : rows'[p].by = Plain
      <3>1. ~NoPlain'
        BY <2>3 DEF NoPlain
      <3> QED  BY <2>1, <2>3, <3>1, FileCommit
    <2> QED  BY <2>2, <2>3, V4Rows
  <1>e. Marker => FileInv'
    <2> HAVE Marker
    <2>1. NoPlain' = NoPlain
      BY DEF Marker, NoPlain
    <2> QED  BY <2>1 DEF Marker, FileInv, files
  <1>f. migrateV8Secrets => FileInv'
    <2> HAVE migrateV8Secrets
    <2>1. key \in Keys /\ UNCHANGED <<db, vacuumed>>
      BY DEF migrateV8Secrets, PhaseInv, Loaded, Current, Converted
    <2>2. CASE pc' \in {"refused", "pending"} /\ UNCHANGED <<rows, tun, pending, wal>>
      <3>1. NoPlain' = NoPlain
        BY <2>2 DEF NoPlain
      <3> QED  BY <2>1, <2>2, <3>1 DEF FileInv
    <2>3. CASE pc' = "pending" /\ pending' = "yes" /\ wal' = wal \cup Live(rows', tun')
      BY <2>1, <2>3, FileCommit
    <2> QED  BY <2>1, <2>2, <2>3, V8Rows
  <1>g. CleanUp => FileInv'
    <2> HAVE CleanUp
    <2>1. UNCHANGED <<rows, tun>> /\ pc \in Cleaning
      BY DEF CleanUp, Cleaning
    <2>2. NoPlain /\ NoPlain' /\ pending # "absent"
      BY <2>1 DEF PhaseInv, Encrypted, NoPlain, TypeOK, Cleaning
    <2>3. CASE pc = "pending" /\ pending = "yes"
      <3>1. pc' = "vacuum" /\ pending' = "yes" /\ checkpointSecrets
        BY <2>3 DEF CleanUp
      <3> QED  BY <2>1, <3>1, FileCheckpoint DEF FileInv
    <2>4. CASE pc = "pending" /\ pending # "yes"
      <3>1. pc' = "v9" /\ UNCHANGED <<files, pending>> /\ pending = "no"
        BY <2>2, <2>4 DEF CleanUp, TypeOK
      <3> QED  BY <2>1, <2>2, <3>1 DEF FileInv, files
    <2>5. CASE pc = "vacuum"
      <3>1. /\ pc' = "truncate" /\ wal' = Live(rows', tun') /\ vacuumed' = TRUE
            /\ UNCHANGED <<db, pending>>
        BY <2>1, <2>5 DEF CleanUp, Vacuum
      <3>2. "plain" \notin wal'
        BY <2>2, <3>1, PlainMeaningAfter
      <3> QED  BY <2>2, <3>1, <3>2 DEF FileInv
    <2>6. CASE pc = "truncate"
      <3>1. pc' = "clear" /\ checkpointSecrets /\ pending' = pending
        BY <2>6 DEF CleanUp
      <3>2. "plain" \notin db' \cup wal'
        BY <2>1, <2>6, <3>1, FileCheckpoint DEF FileInv
      <3> QED  BY <2>1, <3>1, <3>2, FileCheckpoint DEF FileInv
    <2>7. CASE pc = "clear"
      <3>1. pc' = "v9" /\ pending' = "no" /\ UNCHANGED files
        BY <2>7 DEF CleanUp
      <3> QED  BY <2>1, <2>7, <3>1 DEF FileInv, files
    <2> QED  BY <2>3, <2>4, <2>5, <2>6, <2>7 DEF CleanUp
  <1>h. migrateV9SecretEnvKeys => FileInv'
    <2> HAVE migrateV9SecretEnvKeys
    <2>1. pc = "v9" /\ pc' = "up" /\ UNCHANGED <<tun, pending, db, vacuumed>>
      BY DEF migrateV9SecretEnvKeys
    <2>2. pending = "no" /\ NoPlain
      BY <2>1 DEF FileInv, PhaseInv, Encrypted, Cleaning
    <2>3. CASE rows' = rows /\ wal' = wal
      BY <2>1, <2>2, <2>3 DEF FileInv, NoPlain
    <2>4. CASE wal' = wal \cup Live(rows', tun)
      BY <2>1, <2>2, <2>4, FileCommit
    <2> QED  BY <2>3, <2>4, V9Rows
  <1>i. ASSUME NEW p \in Projects, NEW env \in SUBSET Vars, NEW custom \in BOOLEAN,
               NEW secret \in SUBSET env, UpdateProject(p, env, secret, custom)
        PROVE  FileInv'
    <2>1. /\ pc = "up" /\ pc' = "up" /\ UNCHANGED <<tun, pending, db, vacuumed>>
          /\ wal' = wal \cup Live(rows', tun)
      BY <1>i DEF UpdateProject, Commit
    <2>2. pending = "no" /\ NoPlain
      BY <2>1 DEF FileInv, PhaseInv, Encrypted
    <2> QED  BY <2>1, <2>2, FileCommit
  <1>j. Restart => FileInv'
    BY FileFrame DEF Restart
  <1>l. Close => FileInv'
    <2> HAVE Close
    <2>1. pc' = "down" /\ checkpointSecrets /\ UNCHANGED <<rows, tun, pending>>
      BY DEF Close
    <2>2. NoPlain' = NoPlain
      BY <2>1 DEF NoPlain
    <2> QED  BY <2>1, <2>2, FileCheckpoint DEF FileInv
  <1>m. Crash => FileInv'
    BY FileFrame DEF Crash
  <1>n. LoseKey \/ SwapKey \/ RestoreKey => FileInv'
    BY FileFrame DEF LoseKey, SwapKey, RestoreKey
  <1>q. UNCHANGED vars => FileInv'
    BY FileFrame DEF vars, files
  <1>r. CASE Next
    BY <1>r, <1>a, <1>b, <1>c, <1>d, <1>e, <1>f, <1>g, <1>h, <1>i, <1>j, <1>l, <1>m, <1>n,
       NextCases
  <1> QED  BY <1>q, <1>r

\* Unless the operator has exchanged the key, it opens what is stored; and no
\* start gets past v8 with an exchanged key.
LEMMA KeyInductive ==
  ASSUME TypeOK, PhaseInv, RowInv, FileInv, KeyInv, [Next]_vars
  PROVE  KeyInv'
  <1>t. /\ key \in Keys \cup {NoKey, ShortKey} /\ NoKey \notin Keys /\ ShortKey \notin Keys
        /\ Plain \notin Keys
        /\ lost \in Keys \cup {NoKey} /\ customs \subseteq Projects /\ rows \in [Projects -> Row]
    BY MigrationsAssumption DEF TypeOK, Row
  <1>u. UNCHANGED <<rows, tun>> => EncryptedBy' = EncryptedBy
    BY DEF EncryptedBy
  <1>v. ASSUME UNCHANGED <<key, rows, tun, customs, lost>>, pc' # "write_key"
        PROVE  KeyInv'
    BY <1>u, <1>v DEF KeyInv
  <1>a. OpenWithKey => KeyInv'
    <2> HAVE OpenWithKey
    <2>1. UNCHANGED <<rows, tun, customs, lost>> /\ EncryptedBy' = EncryptedBy
      BY <1>u DEF OpenWithKey, ghosts
    <2>2. CASE UNCHANGED key /\ pc' # "write_key"
      BY <1>v, <2>1, <2>2
    <2>3. CASE key = NoKey /\ ~CiphertextFound /\ pc' = "write_key" /\ key' = ShortKey
      <3>1. "cipher" \notin Live(rows, tun)
        BY <2>3 DEF CiphertextFound, FileInv
      <3>2. EncryptedBy = {}
        BY <3>1, PlainMeaning
      <3> QED  BY <1>t, <2>1, <2>3, <3>2 DEF KeyInv
    <2> QED  BY <2>2, <2>3 DEF OpenWithKey
  <1>b. loadOrCreateSecretKey => KeyInv'
    <2> HAVE loadOrCreateSecretKey
    <2>1. /\ pc = "write_key" /\ pc' = "v3" /\ key' \in Keys /\ lost' = NoKey
          /\ UNCHANGED <<rows, tun, customs>> /\ EncryptedBy' = EncryptedBy
      BY <1>u DEF loadOrCreateSecretKey
    <2>2. EncryptedBy = {}
      BY <2>1 DEF KeyInv
    <2> QED  BY <2>1, <2>2 DEF KeyInv
  <1>c. migrateV3Data => KeyInv'
    <2> HAVE migrateV3Data
    <2>1. UNCHANGED <<key, tun, customs, lost>> /\ pc' # "write_key"
      BY V3Rows DEF migrateV3Data, ghosts
    <2>2. \A p \in Projects : rows'[p].by = rows[p].by
      BY V3Rows
    <2>3. EncryptedBy' = EncryptedBy
      BY <2>1, <2>2 DEF EncryptedBy
    <2> QED  BY <2>1, <2>2, <2>3 DEF KeyInv
  <1>d. migrateV4CustomToForm => KeyInv'
    <2> HAVE migrateV4CustomToForm
    <2>1. UNCHANGED <<key, tun, customs, lost>> /\ pc' # "write_key"
      BY V4Rows DEF migrateV4CustomToForm, ghosts
    <2>2. CASE UNCHANGED rows
      BY <1>v, <2>1, <2>2
    <2>3. ASSUME NEW p \in Projects, ToConvert(rows[p]), rows'[p].by = Plain,
                 \A q \in Projects \ {p} : rows'[q] = rows[q]
          PROVE  KeyInv'
      <3>1. \A S : EncryptedBy \subseteq S => EncryptedBy' \subseteq S
        BY <1>t, <2>1, <2>3, EncryptedMeaning, EncryptedMeaningAfter
      <3>2. EncryptedBy = {} => EncryptedBy' = {}
        BY <3>1
      <3>3. CASE EncryptedBy = {}
        <4>1. EncryptedBy' = {}
          BY <3>2, <3>3
        <4>2. ~(customs # Projects /\ lost # NoKey /\ key \in Keys)
          BY <3>3 DEF KeyInv
        <4> QED  BY <2>1, <4>1, <4>2 DEF KeyInv
      <3>4. CASE EncryptedBy # {}
        <4>1. \A q \in Projects \ customs : rows[q].by \in Keys
          BY <3>4 DEF KeyInv
        <4>2. p \in customs
          BY <1>t, <2>3, <4>1 DEF RowInv
        <4>3. \A q \in Projects \ customs : rows'[q].by \in Keys
          BY <2>3, <4>1, <4>2
        <4>4. customs # Projects => EncryptedBy' # {}
          BY <1>t, <4>3 DEF EncryptedBy
        <4> QED  BY <2>1, <3>1, <3>2, <4>3, <4>4 DEF KeyInv
      <3> QED  BY <3>3, <3>4
    <2> QED  BY <2>2, <2>3, V4Rows
  <1>e. Marker => KeyInv'
    BY <1>v DEF Marker, ghosts
  <1>f. migrateV8Secrets => KeyInv'
    <2> HAVE migrateV8Secrets
    <2>1. key \in Keys /\ UNCHANGED <<key, customs, lost>>
      BY DEF migrateV8Secrets, PhaseInv, Loaded, Current, Converted, ghosts
    <2>2. CASE pc' \in {"refused", "pending"} /\ UNCHANGED <<rows, tun>>
      BY <1>v, <2>1, <2>2
    <2>3. CASE /\ EncryptedBy \subseteq {key} /\ pc' = "pending"
               /\ \A p \in Projects : rows'[p].by = key
               /\ \A f \in Fields : tun'[f] = IF tun[f] = Plain THEN key ELSE tun[f]
      <3>1. EncryptedBy' \subseteq {key}
        BY <2>3, EncryptedMeaning, EncryptedMeaningAfter
      <3>2. customs = Projects \/ lost = NoKey
        BY <2>1, <2>3 DEF KeyInv
      <3> QED  BY <2>1, <2>3, <3>1, <3>2 DEF KeyInv
    <2> QED  BY <2>1, <2>2, <2>3, V8Rows
  <1>g. CleanUp => KeyInv'
    BY <1>v DEF CleanUp, ghosts
  <1>h. migrateV9SecretEnvKeys => KeyInv'
    <2> HAVE migrateV9SecretEnvKeys
    <2>1. UNCHANGED <<key, tun, customs, lost>> /\ pc' # "write_key"
      BY DEF migrateV9SecretEnvKeys, ghosts
    <2>2. \A p \in Projects : rows'[p].by = rows[p].by
      BY V9Rows
    <2>3. EncryptedBy' = EncryptedBy
      BY <2>1, <2>2 DEF EncryptedBy
    <2> QED  BY <2>1, <2>2, <2>3 DEF KeyInv
  <1>i. ASSUME NEW p \in Projects, NEW env \in SUBSET Vars, NEW custom \in BOOLEAN,
               NEW secret \in SUBSET env, UpdateProject(p, env, secret, custom)
        PROVE  KeyInv'
    <2>1. /\ pc = "up" /\ pc' = "up" /\ UNCHANGED <<key, tun, lost>>
          /\ customs \subseteq customs' /\ customs' \subseteq Projects
      BY <1>i, <1>t DEF UpdateProject
    <2>2. NoPlain /\ EncryptedBy \subseteq {key} /\ key \in Keys
      BY <2>1 DEF PhaseInv, Loaded, Current, Encrypted
    <2>3. (\A q \in Projects \ {p} : rows'[q] = rows[q]) /\ rows'[p].by = key
      BY <1>i, <2>2, UpdateRows
    <2>4. \A q \in Projects : rows'[q].by \in Keys
      <3>1. \A q \in Projects : rows[q].by \in Keys \cup {Plain}
        <4>1. \A q \in Projects : rows[q] \in Row
          BY <1>t
        <4> QED  BY <4>1 DEF Row
      <3> QED  BY <2>2, <2>3, <3>1 DEF NoPlain
    <2>5. EncryptedBy' \subseteq {key}
      BY <2>1, <2>2, <2>3, EncryptedMeaning, EncryptedMeaningAfter
    <2>6. customs' # Projects => lost = NoKey
      <3>1. customs' # Projects => customs # Projects
        BY <1>t, <2>1
      <3> QED  BY <2>2, <3>1 DEF KeyInv
    <2> QED  BY <2>1, <2>2, <2>4, <2>5, <2>6 DEF KeyInv
  <1>j. Restart => KeyInv'
    BY <1>v DEF Restart, ghosts
  <1>l. Close => KeyInv'
    BY <1>v DEF Close, ghosts
  <1>m. Crash => KeyInv'
    BY <1>v DEF Crash
  <1>n. LoseKey => KeyInv'
    <2> HAVE LoseKey
    <2>1. /\ pc' = "down" /\ key \in Keys /\ lost = NoKey /\ key' = NoKey /\ lost' = key
          /\ UNCHANGED <<rows, customs>> /\ EncryptedBy' = EncryptedBy
      BY <1>u DEF LoseKey
    <2> QED  BY <1>t, <2>1 DEF KeyInv
  <1>o. SwapKey => KeyInv'
    <2> HAVE SwapKey
    <2>1. /\ pc' = "down" /\ key \in Keys /\ lost = NoKey /\ EncryptedBy # {}
          /\ key' \in Keys \ {key} /\ lost' = key
          /\ UNCHANGED <<rows, customs>> /\ EncryptedBy' = EncryptedBy
      BY <1>u DEF SwapKey
    <2> QED  BY <1>t, <2>1 DEF KeyInv
  <1>p. RestoreKey => KeyInv'
    <2> HAVE RestoreKey
    <2>1. /\ pc' = "down" /\ lost # NoKey /\ key' = lost /\ lost' = NoKey
          /\ UNCHANGED <<rows, customs>> /\ EncryptedBy' = EncryptedBy
      BY <1>u DEF RestoreKey
    <2> QED  BY <1>t, <2>1 DEF KeyInv
  <1>q. UNCHANGED vars => KeyInv'
    BY <1>u DEF vars, KeyInv
  <1>r. CASE Next
    BY <1>r, <1>a, <1>b, <1>c, <1>d, <1>e, <1>f, <1>g, <1>h, <1>i, <1>j, <1>l, <1>m, <1>n,
       <1>o, <1>p, NextCases
  <1> QED  BY <1>q, <1>r

-----------------------------------------------------------------------------
\* Every database of an older release satisfies the invariant.
LEMMA InitInv == Init => MigInv
  <1> SUFFICES ASSUME Init
               PROVE  MigInv
    OBVIOUS
  <1> USE MigrationsAssumption
  <1>1. /\ db = Live(rows, tun) \cup {"plain"} /\ wal = {} /\ vacuumed = FALSE
        /\ pending = "absent" /\ pc = "down" /\ lost = NoKey
        /\ class = submitted /\ customs = {} /\ crashes = 0 /\ stores = 0
        /\ submitted = [p \in Projects |-> IF rows[p].compose = "yaml" THEN Vars ELSE RowVars]
    BY DEF Init
  <1>2. ASSUME NEW r \in LegacyRows
        PROVE  /\ r \in Row /\ r.by = Plain /\ r.null /\ r.env = RowVars
               /\ (r.compose = "yaml") <=> ToConvert(r)
    <2>1. \E c \in BOOLEAN, y \in {"", "bad", "yaml"}, s \in {"scalar", "list"} :
            /\ c <=> y # ""
            /\ r = [custom |-> c, compose |-> y, services |-> s,
                    digests |-> IF s = "list" THEN "map" ELSE "scalar",
                    by |-> Plain, env |-> RowVars, null |-> TRUE, secret |-> {}]
      BY DEF LegacyRows
    <2>2. PICK c \in BOOLEAN, y \in {"", "bad", "yaml"}, s \in {"scalar", "list"} :
            /\ c <=> y # ""
            /\ r = [custom |-> c, compose |-> y, services |-> s,
                    digests |-> IF s = "list" THEN "map" ELSE "scalar",
                    by |-> Plain, env |-> RowVars, null |-> TRUE, secret |-> {}]
      BY <2>1
    <2>3. /\ r.custom = c /\ r.compose = y /\ r.by = Plain /\ r.null = TRUE
          /\ r.env = RowVars
      BY <2>2
    <2>4. r \in Row
      <3> DEFINE d == IF s = "list" THEN "map" ELSE "scalar"
      <3>1. d \in {"scalar", "map"} /\ RowVars \in SUBSET Vars /\ {} \in SUBSET Vars
        BY DEF Vars
      <3> HIDE DEF d
      <3>2. r = [custom |-> c, compose |-> y, services |-> s, digests |-> d,
                 by |-> Plain, env |-> RowVars, null |-> TRUE, secret |-> {}]
        BY <2>2 DEF d
      <3> QED  BY <3>1, <3>2 DEF Row
    <2> QED  BY <2>2, <2>3, <2>4 DEF ToConvert
  <1> DEFINE Legacy == /\ rows \in [Projects -> LegacyRows]
                       /\ tun \in [Fields -> {Plain, Empty}]
                       /\ key = NoKey /\ used = {}
             Scrubless(k) ==
                 /\ rows = [p \in Projects |->
                         [custom |-> FALSE, compose |-> "", services |-> "list",
                          digests |-> "map", by |-> k, env |-> RowVars, null |-> TRUE,
                          secret |-> {}]]
                 /\ tun = [f \in Fields |-> k]
                 /\ key = k /\ used = {k}
             Facts ==
                 /\ rows \in [Projects -> Row] /\ tun \in [Fields -> Keys \cup {Plain, Empty}]
                 /\ \A p \in Projects :
                      /\ rows[p].null /\ rows[p].env = RowVars
                      /\ (rows[p].compose = "yaml") <=> ToConvert(rows[p])
                      /\ ToConvert(rows[p]) => rows[p].by = Plain
                 /\ \/ key = NoKey /\ used = {} /\ EncryptedBy = {}
                    \/ /\ key \in Keys /\ used = {key} /\ EncryptedBy \subseteq {key}
                       /\ \A p \in Projects : rows[p].by \in Keys
  <1>3. Legacy \/ \E k \in Keys : Scrubless(k)
    BY DEF Init
  <1>4. ASSUME Legacy
        PROVE  Facts
    <2>1. \A p \in Projects : rows[p] \in LegacyRows
      BY <1>4
    <2>2. EncryptedBy \subseteq {}
      BY <1>2, <1>4, <2>1, EncryptedMeaning
    <2>3. rows \in [Projects -> Row]
      BY <1>2, <1>4, <2>1
    <2>4. \A p \in Projects : /\ rows[p].null /\ rows[p].env = RowVars
                              /\ (rows[p].compose = "yaml") <=> ToConvert(rows[p])
                              /\ rows[p].by = Plain
      BY <1>2, <2>1
    <2> QED  BY <1>4, <2>2, <2>3, <2>4
  <1>5. ASSUME NEW k \in Keys, Scrubless(k)
        PROVE  Facts
    <2>1. \A p \in Projects :
            /\ rows[p] \in Row /\ rows[p].by = k /\ rows[p].env = RowVars /\ rows[p].null
            /\ ~rows[p].custom /\ rows[p].compose = ""
      BY <1>5 DEF Row, Vars
    <2>2. rows \in [Projects -> Row]
      BY <1>5, <2>1
    <2>3. EncryptedBy \subseteq {k}
      BY <1>5, <2>1, EncryptedMeaning
    <2> QED  BY <1>5, <2>1, <2>2, <2>3 DEF ToConvert
  <1>6. Facts
    BY <1>3, <1>4, <1>5
  <1> HIDE DEF Legacy, Scrubless
  <1>7. submitted \in [Projects -> SUBSET Vars]
    BY <1>1 DEF Vars
  <1>8. TypeOK
    <2>1. db \subseteq {"plain", "cipher"}
      BY <1>1, LiveMeaning
    <2>2. used \subseteq Keys /\ key \in Keys \cup {NoKey, ShortKey}
      BY <1>6
    <2>3. crashes \in 0..MaxCrashes /\ stores \in 0..MaxStores
      BY <1>1
    <2> QED  BY <1>1, <1>6, <1>7, <2>1, <2>2, <2>3 DEF TypeOK, Row, Steps
  <1>9. PhaseInv
    BY <1>1 DEF PhaseInv, Loaded, Current, Converted, Encrypted, Cleaning
  <1>10. RowInv
    <2>1. \A p \in Projects : submitted[p] = IF ToConvert(rows[p]) THEN Vars ELSE RowVars
      BY <1>1, <1>6
    <2> QED  BY <1>1, <1>6, <2>1 DEF RowInv, Vars
  <1>11. FileInv
    BY <1>1 DEF FileInv
  <1>12. KeyInv
    BY <1>1, <1>6 DEF KeyInv
  <1> QED  BY <1>8, <1>9, <1>10, <1>11, <1>12 DEF MigInv

\* The invariant holds in every reachable state.
LEMMA Invariance == Spec => []MigInv
  <1>1. MigInv /\ [Next]_vars => MigInv'
    BY TypesInductive, PhaseInductive, RowInductive, FileInductive, KeyInductive DEF MigInv
  <1> QED  BY <1>1, InitInv, PTL DEF Spec

\* Every state of the start, and of the files under it, is well formed.
THEOREM MigrationTypes == Spec => []TypeOK
  <1>1. MigInv => TypeOK
    BY DEF MigInv
  <1> QED  BY <1>1, Invariance, PTL

\* Once OpenWithKey has returned, no secret can be read in the database file
\* or in its log, wherever earlier starts crashed in migrate.
THEOREM NoPlaintext == Spec => []NoPlaintextWhenUp
  <1>1. MigInv => NoPlaintextWhenUp
    BY PlainMeaning DEF MigInv, PhaseInv, FileInv, NoPlaintextWhenUp, Encrypted
  <1> QED  BY <1>1, Invariance, PTL

\* loadOrCreateSecretKey never draws a key over ciphertext, and no start gets
\* past migrateV8Secrets with a key that does not open every value.
THEOREM KeyOpens == Spec => []KeyOpensDatabase
  <1>1. MigInv => KeyOpensDatabase
    BY DEF MigInv, PhaseInv, KeyInv, KeyOpensDatabase, Encrypted
  <1> QED  BY <1>1, Invariance, PTL

\* The migrations lose no variable of a project that was never stored in
\* custom mode.
THEOREM VariablesSurvive == Spec => []EnvSurvives
  <1>1. MigInv => EnvSurvives
    <2> SUFFICES ASSUME MigInv, pc = "up", NEW p \in Projects \ customs
                 PROVE  submitted[p] \subseteq rows[p].env
      BY DEF EnvSurvives
    <2>1. rows[p].by # Plain
      BY DEF MigInv, PhaseInv, Encrypted, NoPlain
    <2> QED  BY <2>1 DEF MigInv, RowInv
  <1> QED  BY <1>1, Invariance, PTL

\* A running daemon finds every row in the current format, classified as the
\* operator, or migrateV9SecretEnvKeys, classified it.
THEOREM RowsAreCurrent == Spec => []RowsCurrent
  <1>1. MigInv => RowsCurrent
    <2> SUFFICES ASSUME MigInv, pc = "up", NEW p \in Projects
                 PROVE  /\ rows[p].services = "list" /\ rows[p].digests = "map"
                        /\ ~rows[p].null /\ rows[p].secret = class[p]
      BY DEF RowsCurrent
    <2>1. rows[p].services = "list" /\ rows[p].digests = "map"
      BY DEF MigInv, PhaseInv, Current
    <2>2. ~rows[p].null
      BY DEF MigInv, PhaseInv
    <2> QED  BY <2>1, <2>2 DEF MigInv, RowInv
  <1> QED  BY <1>1, Invariance, PTL
=============================================================================
