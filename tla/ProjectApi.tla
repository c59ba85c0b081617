----------------------------- MODULE ProjectApi -----------------------------
(***************************************************************************)
(* internal/web/api.go: requests that create, update, import and delete    *)
(* one project.  A handler reads the row, merges, and writes in a second   *)
(* statement; handlers run concurrently.  Only what concerns the           *)
(* environment is kept of the row.                                         *)
(***************************************************************************)
EXTENDS ProjectSecrets

CONSTANT Handlers   \* requests that can be in progress together

VARIABLES
    row,      \* the project's row, as scanProject returns it
    handler,  \* per handler: the operation, the project to write, the keys it
              \* will log as made visible and, for the properties, the masked
              \* keys of its request and whether the row is as it read it
    visible   \* values some request asked to be visible

vars == <<row, handler, visible>>

Idle == [op |-> "idle", p |-> NoProject, warn |-> {}, masked |-> {}, fresh |-> TRUE]

Rows == [exists : {TRUE}, env : Envs, secret : SUBSET EnvKeys] \cup {NoProject}

TypeOK ==
    /\ row \in Rows /\ row.secret \subseteq DOMAIN row.env
    /\ handler \in [Handlers -> [op : {"idle", "update", "create", "delete"}, p : Rows,
                                 warn : SUBSET EnvKeys, masked : SUBSET EnvKeys, fresh : BOOLEAN]]
    /\ \A h \in Handlers : handler[h].p.secret \subseteq DOMAIN handler[h].p.env
    /\ visible \subseteq Values \cup {Mask}

Init ==
    /\ row = NoProject
    /\ handler = [h \in Handlers |-> Idle]
    /\ visible = {}

-----------------------------------------------------------------------------
\* The keys a request wants visible: the ones its classification leaves out,
\* or the ones that are visible already.
AskedVisible(q, x) == IF q.hasSecret THEN EnvKeys \ q.secret ELSE DOMAIN x.env \ x.secret

Ask(q, x) ==
    visible' = visible \cup {q.env[k] : k \in AskedVisible(q, x) \cap DOMAIN q.env}
                       \cup {x.env[k] : k \in AskedVisible(q, x) \cap DOMAIN x.env}

\* The handlers after a write of the row by h, which is now at x.
Outdate(h, x) ==
    [g \in Handlers |->
        IF g = h THEN x
        ELSE [handler[g] EXCEPT !.fresh = @ /\ (handler[g].op = "idle" \/ row' = row)]]

Begin(h, op, q) ==
    /\ Resolvable(q, row)
    /\ handler' = [handler EXCEPT ![h] =
                     [op |-> op, p |-> resolveProjectSecrets(q, row),
                      warn |-> declassifiedSecretEnvKeys(row, resolveProjectSecrets(q, row)),
                      masked |-> Masked(q, row), fresh |-> TRUE]]
    /\ Ask(q, row)
    /\ UNCHANGED row

\* apiUpdateProject up to UpdateProject: 404 without a row.
apiUpdateProject(h, q) ==
    /\ handler[h].op = "idle" /\ row.exists
    /\ Begin(h, "update", q)

\* upsertProject up to its write: update if the row could be read.
upsertProject(h, q) ==
    /\ handler[h].op = "idle"
    /\ Begin(h, IF row.exists THEN "update" ELSE "create", q)

\* apiCreateProject: nothing is read; a second row of that id is a conflict.
apiCreateProject(h, q) ==
    /\ handler[h].op = "idle"
    /\ Resolvable(q, NoProject)
    /\ row' = IF row.exists THEN row ELSE resolveProjectSecrets(q, NoProject)
    /\ handler' = Outdate(h, handler[h])
    /\ Ask(q, NoProject)

apiDeleteProject(h) ==
    /\ handler[h].op = "idle" /\ row.exists
    /\ handler' = [handler EXCEPT ![h] = [Idle EXCEPT !.op = "delete"]]
    /\ UNCHANGED <<row, visible>>

\* UPDATE ... WHERE id=?: changes nothing, without an error, if the row is gone.
UpdateProject(h) ==
    /\ handler[h].op = "update"
    /\ row' = IF row.exists THEN handler[h].p ELSE row
    /\ handler' = Outdate(h, Idle)
    /\ UNCHANGED visible

\* INSERT: an error if another handler was faster.
CreateProject(h) ==
    /\ handler[h].op = "create"
    /\ row' = IF row.exists THEN row ELSE handler[h].p
    /\ handler' = Outdate(h, Idle)
    /\ UNCHANGED visible

DeleteProject(h) ==
    /\ handler[h].op = "delete"
    /\ row' = NoProject
    /\ handler' = Outdate(h, Idle)
    /\ UNCHANGED visible

Next ==
    \E h \in Handlers :
        \/ \E q \in Requests :
             apiUpdateProject(h, q) \/ upsertProject(h, q) \/ apiCreateProject(h, q)
        \/ apiDeleteProject(h)
        \/ UpdateProject(h) \/ CreateProject(h) \/ DeleteProject(h)

Spec == Init /\ [][Next]_vars

-----------------------------------------------------------------------------
\* The mask is never stored as the value of a secret: the value it stood for
\* would be lost, and nobody could see that it is.
MaskNotStored ==
    \A p \in {row} \cup {handler[h].p : h \in Handlers} :
        \A k \in p.secret : k \in DOMAIN p.env /\ p.env[k] # Mask

\* What responses and ordinary exports show of a project, the mask aside, was
\* submitted under a key that some request wanted visible: no order of
\* requests shows a value that was only ever submitted as a secret.
NothingLeaks ==
    \A p \in {row} \cup {handler[h].p : h \in Handlers} :
        \A k \in DOMAIN p.env :
            redactedEnvVars(p.env, p.secret)[k] \in visible \cup {Mask}

\* Importing the ordinary export of a project over that project changes
\* neither a value nor a classification.
ExportImportIdentity ==
    row.exists => /\ Resolvable(Exported(row), row)
                  /\ resolveProjectSecrets(Exported(row), row) = row

\* h updates the row it has read, with no other write in between.
Writes(h) ==
    handler[h].op = "update" /\ handler'[h] = Idle /\ row.exists /\ handler[h].fresh

\* An update that no other request's write comes in between preserves the value
\* of every secret it submits the mask for, and its audit warning names every
\* key that was secret and is visible afterwards.
UpdateKeepsSecrets ==
    [][\A h \in Handlers : Writes(h) =>
         /\ \A k \in handler[h].masked \cap row.secret :
               k \in DOMAIN row'.env /\ row'.env[k] = row.env[k]
         /\ {k \in row.secret \cap DOMAIN row'.env : k \notin row'.secret}
               \subseteq handler[h].warn]_vars
=============================================================================
