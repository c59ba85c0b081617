----------------------------- MODULE Migrations -----------------------------
(***************************************************************************)
(* internal/db/db.go OpenWithKey and migrate, internal/db/secrets.go: what *)
(* one start of the daemon does to the key file and to the rows of a       *)
(* database of an older release, one action per committed statement, with  *)
(* a crash between any two of them.                                        *)
(*                                                                         *)
(* A stored value is known by the key that encrypts it, or Plain.  The     *)
(* database file and its write-ahead log are known by what can be read in  *)
(* their bytes, free pages and old frames included: "plain" secrets or     *)
(* "cipher" values with the bbsit:secret:v1: prefix.                       *)
(***************************************************************************)
EXTENDS Naturals

CONSTANTS
    Projects,        \* project ids
    Keys,            \* master keys the generator may draw
    NoKey,           \* the key file does not exist
    ShortKey,        \* the key file exists and is not 32 bytes long
    Plain, Empty,    \* a column that is not encrypted; an empty column
    RowVars,         \* environment variables of a legacy row
    YamlVars,        \* environment variables inside custom_compose
    MaxCrashes, MaxStores  \* bounds

ASSUME MigrationsAssumption ==
    /\ {NoKey, ShortKey, Plain, Empty} \cap Keys = {}
    /\ NoKey # ShortKey /\ Plain # Empty
    /\ MaxCrashes \in Nat /\ MaxStores \in Nat

VARIABLES
    key,       \* the key file
    rows,      \* projects, project_state, deployments; null: secret_env_keys IS
               \* NULL; digests: "state" when only project_state has maps
    tun,       \* tunnel_secret and cf_api_token of one tunnel
    pending,   \* secret_migration_cleanup: "absent", "yes" or "no"
    db, wal,   \* what the bytes of the two files show
    vacuumed,  \* the log holds a complete new image of the database
    pc,        \* the next step of the start, "up", "down" or "refused"
    used, lost,        \* keys ever drawn; the key the operator can restore
    submitted, class,  \* per project: what the operator stored, and how it
                       \* should be classified
    customs,   \* projects ever stored in custom mode, their values encrypted
    crashes, stores

vars == <<key, rows, tun, pending, db, wal, vacuumed, pc, used, lost, submitted,
          class, customs, crashes, stores>>

Vars == RowVars \cup YamlVars
Fields == {"tunnel_secret", "cf_api_token"}
Steps == {"write_key", "v3", "v4", "marker", "v8", "pending", "vacuum", "truncate",
          "clear", "v9"}

TypeOK ==
    /\ key \in Keys \cup {NoKey, ShortKey}
    /\ rows \in [Projects -> [custom : BOOLEAN, compose : {"", "bad", "yaml"},
                              services : {"scalar", "list"},
                              digests : {"scalar", "state", "map"},
                              by : Keys \cup {Plain}, env : SUBSET Vars,
                              null : BOOLEAN, secret : SUBSET Vars]]
    /\ tun \in [Fields -> Keys \cup {Plain, Empty}]
    /\ pending \in {"absent", "yes", "no"}
    /\ pc \in {"v8", "pending", "vacuum", "truncate", "clear", "v9", "up"}
         => pending # "absent"
    /\ db \subseteq {"plain", "cipher"} /\ wal \subseteq {"plain", "cipher"}
    /\ vacuumed \in BOOLEAN
    /\ pc \in Steps \cup {"down", "up", "refused"}
    /\ used \subseteq Keys /\ lost \in Keys \cup {NoKey}
    /\ submitted \in [Projects -> SUBSET Vars] /\ class \in [Projects -> SUBSET Vars]
    /\ customs \subseteq Projects
    /\ crashes \in 0..MaxCrashes /\ stores \in 0..MaxStores

\* What a copy of the live rows shows, in the columns that hold secrets:
\* env_vars and those of the tunnel.  custom_compose is stored as it is, with
\* the variables in it, and nothing here counts it.
Live(rs, t) ==
    LET by == {rs[p].by : p \in Projects} \cup {t[f] : f \in Fields}
    IN  (IF Plain \in by THEN {"plain"} ELSE {}) \cup (IF by \cap Keys # {} THEN {"cipher"} ELSE {})

\* A row of a release before the services array, or of one before form mode.
LegacyRows ==
    LET row(c, y, s) == [custom |-> c, compose |-> y, services |-> s,
                         digests |-> IF s = "list" THEN "map" ELSE "scalar",
                         by |-> Plain, env |-> RowVars, null |-> TRUE, secret |-> {}]
    IN  {row(FALSE, "", s) : s \in {"scalar", "list"}}
        \cup {row(TRUE, y, "list") : y \in {"bad", "yaml"}}

\* A database that was never encrypted, or one that an earlier release
\* encrypted without scrubbing its free pages.
Init ==
    /\ \/ /\ rows \in [Projects -> LegacyRows]
          /\ tun \in [Fields -> {Plain, Empty}]
          /\ key = NoKey /\ used = {}
       \/ \E k \in Keys :
            /\ rows = [p \in Projects |->
                         [custom |-> FALSE, compose |-> "", services |-> "list",
                          digests |-> "map", by |-> k, env |-> RowVars, null |-> TRUE,
                          secret |-> {}]]
            /\ tun = [f \in Fields |-> k]
            /\ key = k /\ used = {k}
    /\ db = Live(rows, tun) \cup {"plain"} /\ wal = {} /\ vacuumed = FALSE
    /\ pending = "absent" /\ pc = "down" /\ lost = NoKey
    /\ submitted = [p \in Projects |-> IF rows[p].compose = "yaml" THEN Vars ELSE RowVars]
    /\ class = submitted /\ customs = {}
    /\ crashes = 0 /\ stores = 0

-----------------------------------------------------------------------------
\* SQLite: a commit appends the changed pages to the log; a truncating
\* checkpoint writes the log into the database and empties it; VACUUM puts a
\* copy of every live row, and of nothing else, into the log.
Commit(rs, t) == wal' = wal \cup Live(rs, t)

checkpointSecrets ==
    /\ db' = IF vacuumed THEN wal ELSE db \cup wal
    /\ wal' = {} /\ vacuumed' = FALSE

Vacuum == wal' = Live(rows, tun) /\ vacuumed' = TRUE

files == <<db, wal, vacuumed>>
ghosts == <<used, lost, submitted, class, customs, crashes, stores>>

MutCiphertextFound == "cipher" \in db

\* fileContainsEncryptedSecrets of the database and of its log.
CiphertextFound == "cipher" \in db \cup wal

\* OpenWithKey up to loadSecretCipher.  A key file that is missing although
\* there are encrypted values, or that has the wrong length, ends the start.
OpenWithKey ==
    /\ pc = "down"
    /\ \/ key = NoKey /\ CiphertextFound /\ pc' = "refused" /\ key' = key
       \/ key = NoKey /\ ~CiphertextFound /\ pc' = "write_key" /\ key' = ShortKey
       \/ key = ShortKey /\ pc' = "refused" /\ key' = key
       \/ key \in Keys /\ pc' = "v3" /\ key' = key
    /\ UNCHANGED <<rows, tun, pending, files, ghosts>>

\* The new file was created empty; now its 32 random bytes are written.
loadOrCreateSecretKey ==
    /\ pc = "write_key" /\ pc' = "v3"
    /\ \E k \in Keys \ used : key' = k /\ used' = used \cup {k}
    /\ lost' = NoKey
    /\ UNCHANGED <<rows, tun, pending, files, submitted, class, customs, crashes, stores>>

\* migrateV3Data, one row at a time: the services of every project, then the
\* digests of every project's state, then those of its deployments.
migrateV3Data ==
    /\ pc = "v3"
    /\ LET old == {p \in Projects : rows[p].services = "scalar" \/ rows[p].digests # "map"} IN
       \/ /\ old = {} /\ pc' = "v4"
          /\ UNCHANGED <<rows, wal>>
       \/ /\ \E p \in old :
               \/ /\ rows[p].services = "scalar"
                  /\ rows' = [rows EXCEPT ![p].services = "list"]
               \/ /\ rows[p].digests = "scalar"
                  /\ \A q \in Projects : rows[q].services # "scalar"
                  /\ rows' = [rows EXCEPT ![p].digests = "state"]
               \/ /\ rows[p].digests = "state"
                  /\ \A q \in Projects : rows[q].services # "scalar" /\ rows[q].digests # "scalar"
                  /\ rows' = [rows EXCEPT ![p].digests = "map"]
          /\ pc' = pc /\ Commit(rows', tun)
    /\ UNCHANGED <<key, tun, pending, db, vacuumed, ghosts>>

MutMergedEnv(r) == YamlVars

\* The JSON object in env_vars, none if the column is not JSON, with the
\* variables of custom_compose added.
MergedEnv(r) == (IF r.by = Plain THEN r.env ELSE {}) \cup YamlVars

\* migrateV4CustomToForm, one row at a time, at every start.
migrateV4CustomToForm ==
    /\ pc = "v4"
    /\ LET old == {p \in Projects : rows[p].custom /\ rows[p].compose = "yaml"} IN
       \/ /\ old = {} /\ pc' = "marker"
          /\ UNCHANGED <<rows, wal>>
       \/ /\ \E p \in old :
               rows' = [rows EXCEPT ![p] = [@ EXCEPT !.custom = FALSE, !.compose = "",
                                              !.by = Plain, !.env = MergedEnv(rows[p])]]
          /\ pc' = pc /\ Commit(rows', tun)
    /\ UNCHANGED <<key, tun, pending, db, vacuumed, ghosts>>

\* CREATE TABLE IF NOT EXISTS secret_migration_cleanup; INSERT OR IGNORE.
Marker ==
    /\ pc = "marker" /\ pc' = "v8"
    /\ pending' = IF pending = "absent" THEN "yes" ELSE pending
    /\ UNCHANGED <<key, rows, tun, files, ghosts>>

EncryptedBy == ({rows[p].by : p \in Projects} \cup {tun[f] : f \in Fields}) \cap Keys

MutV8RefusesCiphertext ==
    /\ pc = "v8"
    /\ IF EncryptedBy = {} \/ pending = "no"
       THEN /\ pc' = "pending"
            /\ rows' = [p \in Projects |-> [rows[p] EXCEPT !.by = key]]
            /\ tun' = [f \in Fields |-> IF tun[f] = Plain THEN key ELSE tun[f]]
            /\ pending' = IF Live(rows, tun) = {"cipher"} THEN pending ELSE "yes"
            /\ Commit(rows', tun')
       ELSE pc' = "refused" /\ UNCHANGED <<rows, tun, wal, pending>>
    /\ UNCHANGED <<key, db, vacuumed, ghosts>>

\* migrateV8Secrets: every encrypted value must open with the loaded key; the
\* others are encrypted in one transaction that also asks for a clean-up.
migrateV8Secrets ==
    LET plain == "plain" \in Live(rows, tun) IN
    /\ pc = "v8"
    /\ \/ /\ ~(EncryptedBy \subseteq {key})
          /\ pc' = "refused"
          /\ UNCHANGED <<rows, tun, pending, wal>>
       \/ /\ EncryptedBy \subseteq {key} /\ ~plain
          /\ pc' = "pending"
          /\ UNCHANGED <<rows, tun, pending, wal>>
       \/ /\ EncryptedBy \subseteq {key} /\ plain
          /\ pc' = "pending" /\ pending' = "yes"
          /\ rows' = [p \in Projects |-> [rows[p] EXCEPT !.by = key]]
          /\ tun' = [f \in Fields |-> IF tun[f] = Plain THEN key ELSE tun[f]]
          /\ Commit(rows', tun')
    /\ UNCHANGED <<key, db, vacuumed, ghosts>>

MutCleanUp ==
    \/ /\ pc = "pending" /\ pc' = (IF pending = "yes" THEN "vacuum" ELSE "v9")
       /\ pending' = "no"
       /\ IF pending = "yes" THEN checkpointSecrets ELSE UNCHANGED files
       /\ UNCHANGED <<key, rows, tun, ghosts>>
    \/ /\ pc = "vacuum" /\ pc' = "truncate" /\ Vacuum
       /\ UNCHANGED <<key, rows, tun, db, pending, ghosts>>
    \/ /\ pc = "truncate" /\ pc' = "clear" /\ checkpointSecrets
       /\ UNCHANGED <<key, rows, tun, pending, ghosts>>
    \/ /\ pc = "clear" /\ pc' = "v9"
       /\ UNCHANGED <<key, rows, tun, files, pending, ghosts>>

\* The scrubbing of migrate: checkpoint, VACUUM, checkpoint, and only then
\* pending=0.
CleanUp ==
    \/ /\ pc = "pending" /\ pc' = (IF pending = "yes" THEN "vacuum" ELSE "v9")
       /\ IF pending = "yes" THEN checkpointSecrets ELSE UNCHANGED files
       /\ UNCHANGED <<key, rows, tun, pending, ghosts>>
    \/ /\ pc = "vacuum" /\ pc' = "truncate" /\ Vacuum
       /\ UNCHANGED <<key, rows, tun, db, pending, ghosts>>
    \/ /\ pc = "truncate" /\ pc' = "clear" /\ checkpointSecrets
       /\ UNCHANGED <<key, rows, tun, pending, ghosts>>
    \/ /\ pc = "clear" /\ pc' = "v9" /\ pending' = "no"
       /\ UNCHANGED <<key, rows, tun, files, ghosts>>

MutV9WithCleanUp ==
    /\ pc = "v9" /\ pc' = "up"
    /\ rows' = [p \in Projects |->
                  IF rows[p].null /\ pending = "yes" THEN [rows[p] EXCEPT !.null = FALSE, !.secret = rows[p].env]
                  ELSE rows[p]]
    /\ IF rows' = rows THEN wal' = wal ELSE Commit(rows', tun)
    /\ UNCHANGED <<key, tun, pending, db, vacuumed, ghosts>>

\* migrateV9SecretEnvKeys: one transaction.
migrateV9SecretEnvKeys ==
    /\ pc = "v9" /\ pc' = "up"
    /\ rows' = [p \in Projects |->
                  IF rows[p].null THEN [rows[p] EXCEPT !.null = FALSE, !.secret = rows[p].env]
                  ELSE rows[p]]
    /\ IF rows' = rows THEN wal' = wal ELSE Commit(rows', tun)
    /\ UNCHANGED <<key, tun, pending, db, vacuumed, ghosts>>

-----------------------------------------------------------------------------
\* The daemon at work: UpdateProject encrypts what it stores.  A custom-mode
\* project is converted first, unless it comes with services.
UpdateProject(p, env, secret, custom) ==
    /\ pc = "up" /\ stores < MaxStores /\ stores' = stores + 1
    /\ rows' = [rows EXCEPT ![p] = [@ EXCEPT !.custom = custom,
                                      !.compose = IF custom THEN "yaml" ELSE "",
                                      !.by = key, !.env = env, !.null = FALSE,
                                      !.secret = secret]]
    /\ submitted' = [submitted EXCEPT ![p] = env]
    /\ customs' = IF custom THEN customs \cup {p} ELSE customs
    /\ class' = [class EXCEPT ![p] = secret]
    /\ Commit(rows', tun)
    /\ UNCHANGED <<key, tun, pending, db, vacuumed, pc, used, lost, crashes>>

\* Close: SQLite checkpoints the log when the last connection closes.
Close ==
    /\ pc = "up" /\ pc' = "down"
    /\ checkpointSecrets
    /\ UNCHANGED <<key, rows, tun, pending, ghosts>>

Crash ==
    /\ pc \in Steps \cup {"up"} /\ pc' = "down"
    /\ crashes < MaxCrashes /\ crashes' = crashes + 1
    /\ UNCHANGED <<key, rows, tun, pending, files, used, lost, submitted, class, customs, stores>>

\* systemd starts the daemon again after a refused start.
Restart ==
    /\ pc = "refused" /\ pc' = "down"
    /\ UNCHANGED <<key, rows, tun, pending, files, ghosts>>

\* The operator moves the database without its key, and finds the key again.
LoseKey ==
    /\ pc = "down" /\ key \in Keys /\ lost = NoKey
    /\ key' = NoKey /\ lost' = key
    /\ UNCHANGED <<rows, tun, pending, files, pc, used, submitted, class, customs, crashes, stores>>

\* Or installs the key of another database.
SwapKey ==
    /\ pc = "down" /\ key \in Keys /\ lost = NoKey /\ EncryptedBy # {}
    /\ \E k \in Keys \ {key} : key' = k /\ used' = used \cup {k}
    /\ lost' = key
    /\ UNCHANGED <<rows, tun, pending, files, pc, submitted, class, customs, crashes, stores>>

RestoreKey ==
    /\ pc = "down" /\ lost # NoKey
    /\ key' = lost /\ lost' = NoKey
    /\ UNCHANGED <<rows, tun, pending, files, pc, used, submitted, class, customs, crashes, stores>>

Start ==
    \/ OpenWithKey \/ loadOrCreateSecretKey \/ migrateV3Data \/ migrateV4CustomToForm
    \/ Marker \/ migrateV8Secrets \/ CleanUp \/ migrateV9SecretEnvKeys \/ Restart

Next ==
    \/ Start
    \/ \E p \in Projects, env \in SUBSET Vars, custom \in BOOLEAN :
         \E secret \in SUBSET env : UpdateProject(p, env, secret, custom)
    \/ Close \/ Crash \/ LoseKey \/ SwapKey \/ RestoreKey

Spec == Init /\ [][Next]_vars

\* systemd keeps starting the daemon, and no step of a start blocks forever.
FairSpec == Spec /\ WF_vars(Start)

-----------------------------------------------------------------------------
\* Once a start has succeeded, no value of env_vars, tunnel_secret or
\* cf_api_token can be read in the database file or in its log: not in a
\* column, not in a free page, not in an old frame, wherever earlier starts
\* crashed.
NoPlaintextWhenUp == pc = "up" => "plain" \notin db \cup wal \cup Live(rows, tun)

\* The key file, unless the operator has exchanged it, opens every stored
\* value: a start without the key draws no other one while there is
\* ciphertext.  And no start succeeds with an exchanged key, as long as one
\* project was never stored in custom mode: v4 replaces the values of the
\* others before v8 can find that the key does not open them.
KeyOpensDatabase ==
    /\ customs # Projects
    /\ pc = "up" \/ (key \in Keys /\ lost = NoKey)
    => EncryptedBy \subseteq {key}

\* No start loses a variable of a project, unless it was stored in custom mode
\* once its values were encrypted: v4 cannot parse these and keeps only the
\* variables in custom_compose.
EnvSurvives ==
    pc = "up" => \A p \in Projects \ customs : submitted[p] \subseteq rows[p].env

\* A legacy project comes up with all its variables secret, also the ones v4
\* took from custom_compose; a classification stored later is never changed.
\* A running daemon finds every row in the current format.  A NULL
\* classification would make scanProject, and with it ListProjects, fail.
RowsCurrent ==
    pc = "up" => \A p \in Projects :
        /\ rows[p].services = "list" /\ rows[p].digests = "map"
        /\ ~rows[p].null /\ rows[p].secret = class[p]

\* A start with a complete key file succeeds in the end: none of the
\* half-done migrations a crash can leave behind makes the next one refuse
\* (with the same exception as KeyOpensDatabase).
KeyedStartsSucceed ==
    (key \in Keys) ~> (pc = "up" \/ lost # NoKey \/ customs = Projects)
=============================================================================
