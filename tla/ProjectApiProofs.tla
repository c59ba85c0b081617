-------------------------- MODULE ProjectApiProofs --------------------------
(***************************************************************************)
(* What holds of ProjectApi for any sets of keys, values and concurrent    *)
(* requests.  The argument is about the merge: resolveProjectSecrets turns *)
(* a sound project and an accepted request into a sound project, and the   *)
(* rest of the handlers only carries sound projects around.                *)
(***************************************************************************)
EXTENDS ProjectApi, TLAPS

\* A project row with its types, whose secrets are all there and none is the
\* mask.
Sound(p) ==
    /\ p \in Rows
    /\ \A k \in p.secret : k \in DOMAIN p.env /\ p.env[k] # Mask

\* All that a response shows of p is among the values in V or is the mask.
ShowsOnly(p, V) ==
    \A k \in DOMAIN p.env : redactedEnvVars(p.env, p.secret)[k] \in V \cup {Mask}

\* What an update computed from the row x still has to satisfy when it is
\* written over x.
ComputedFrom(g, x) ==
    /\ \A k \in g.masked \cap x.secret : k \in DOMAIN g.p.env /\ g.p.env[k] = x.env[k]
    /\ declassifiedSecretEnvKeys(x, g.p) \subseteq g.warn

HandlerType ==
    [op : {"idle", "update", "create", "delete"}, p : Rows,
     warn : SUBSET EnvKeys, masked : SUBSET EnvKeys, fresh : BOOLEAN]

SoundInv ==
    /\ Sound(row)
    /\ handler \in [Handlers -> HandlerType]
    /\ \A h \in Handlers : Sound(handler[h].p)

VisibleInv ==
    /\ visible \subseteq Values \cup {Mask}
    /\ ShowsOnly(row, visible)
    /\ \A h \in Handlers : ShowsOnly(handler[h].p, visible)

\* An update nobody's write came in between still fits the row.
FreshInv ==
    \A h \in Handlers :
        handler[h].op = "update" /\ handler[h].fresh => ComputedFrom(handler[h], row)

\* The inductive invariant.
ApiInv == SoundInv /\ VisibleInv /\ FreshInv

-----------------------------------------------------------------------------
(* The operators the handlers are built from.                              *)

\* An environment is a function from some of the keys to values.
LEMMA EnvIsFunction ==
    ASSUME NEW e \in Envs
    PROVE  DOMAIN e \subseteq EnvKeys /\ e \in [DOMAIN e -> Values \cup {Mask}]
  BY DEF Envs

\* And any such function is an environment.
LEMMA FunctionIsEnv ==
    ASSUME NEW S \in SUBSET EnvKeys, NEW e \in [S -> Values \cup {Mask}]
    PROVE  e \in Envs
  BY DEF Envs

\* The value that stands for a missing row has no keys.
LEMMA NoProjectSound ==
    /\ NoProject \in Rows /\ Sound(NoProject)
    /\ NoProject.env \in Envs /\ DOMAIN NoProject.env = {} /\ NoProject.secret = {}
    /\ \A V : ShowsOnly(NoProject, V)
  <1>1. NoEnv \in [{} -> Values \cup {Mask}] /\ DOMAIN NoEnv = {}
    BY DEF NoEnv
  <1>2. NoEnv \in Envs
    BY <1>1, FunctionIsEnv
  <1> QED  BY <1>1, <1>2 DEF NoProject, Rows, Sound, ShowsOnly

\* A row is an environment with a set of keys.
LEMMA RowFields ==
    ASSUME NEW p \in Rows
    PROVE  p.env \in Envs /\ p.secret \subseteq EnvKeys /\ p.exists \in BOOLEAN
  <1>1. NoEnv \in Envs
    BY NoProjectSound DEF NoProject
  <1>2. CASE p = NoProject
    BY <1>1, <1>2 DEF NoProject
  <1>3. CASE p \in [exists : {TRUE}, env : Envs, secret : SUBSET EnvKeys]
    BY <1>3
  <1> QED  BY <1>2, <1>3 DEF Rows

\* What is submitted, or kept because nothing was submitted, is an environment.
LEMMA SubmittedIsEnv ==
    ASSUME NEW q \in Requests, NEW x \in Rows
    PROVE  /\ SubmittedEnv(q, x) \in Envs
           /\ q.env \in Envs /\ q.secret \subseteq EnvKeys
           /\ q.hasEnv \in BOOLEAN /\ q.hasSecret \in BOOLEAN
  <1>1. NoEnv \in Envs
    BY NoProjectSound DEF NoProject
  <1> QED  BY <1>1, RowFields DEF Requests, SubmittedEnv

\* resolveProjectSecrets returns a project: the keys that were submitted, with
\* a submitted or a stored value each.
LEMMA ResolveType ==
    ASSUME NEW q \in Requests, NEW x \in Rows, Resolvable(q, x)
    PROVE  resolveProjectSecrets(q, x) \in Rows
  <1>1. /\ DOMAIN SubmittedEnv(q, x) \subseteq EnvKeys
        /\ SubmittedEnv(q, x) \in [DOMAIN SubmittedEnv(q, x) -> Values \cup {Mask}]
    BY SubmittedIsEnv, EnvIsFunction
  <1>2. x.env \in [DOMAIN x.env -> Values \cup {Mask}]
    BY RowFields, EnvIsFunction
  <1>3. ResolvedEnv(q, x) \in [DOMAIN SubmittedEnv(q, x) -> Values \cup {Mask}]
    BY <1>1, <1>2 DEF ResolvedEnv
  <1>4. ResolvedEnv(q, x) \in Envs
    BY <1>1, <1>3, FunctionIsEnv
  <1>5. desiredSecrets(q, x) \subseteq EnvKeys
    BY <1>1, SubmittedIsEnv DEF desiredSecrets
  <1> QED  BY <1>4, <1>5 DEF resolveProjectSecrets, Project, Rows

\* An accepted request never makes the mask the value of a secret: a masked
\* key that is to be secret was one before, and gets its stored value back.
LEMMA ResolveSound ==
    ASSUME NEW q \in Requests, NEW x, Sound(x), Resolvable(q, x)
    PROVE  Sound(resolveProjectSecrets(q, x))
  <1> DEFINE y == resolveProjectSecrets(q, x)
  <1>0. x \in Rows
    BY DEF Sound
  <1>1. y \in Rows
    BY <1>0, ResolveType
  <1>2. y.env = ResolvedEnv(q, x) /\ y.secret = desiredSecrets(q, x)
    BY DEF resolveProjectSecrets, Project
  <1>3. desiredSecrets(q, x) \subseteq DOMAIN SubmittedEnv(q, x)
    BY DEF desiredSecrets, Resolvable
  <1>4. ASSUME NEW k \in desiredSecrets(q, x)
        PROVE  ResolvedEnv(q, x)[k] # Mask
    <2>1. CASE k \in Masked(q, x)
      <3>1. k \in x.secret /\ k \in DOMAIN x.env /\ x.env[k] # Mask
        BY <1>4, <2>1 DEF Resolvable, Sound
      <3> QED  BY <1>3, <1>4, <2>1, <3>1 DEF ResolvedEnv
    <2>2. CASE k \notin Masked(q, x)
      BY <1>3, <1>4, <2>2 DEF ResolvedEnv, Masked
    <2> QED  BY <2>1, <2>2
  <1>5. DOMAIN ResolvedEnv(q, x) = DOMAIN SubmittedEnv(q, x)
    BY DEF ResolvedEnv
  <1> QED  BY <1>1, <1>2, <1>3, <1>4, <1>5 DEF Sound

\* What the merged project shows, the request asked to be visible: a key that
\* is not secret afterwards was left out of the request's classification, or
\* was visible before.
LEMMA ResolveShows ==
    ASSUME NEW q \in Requests, NEW x \in Rows, Resolvable(q, x), Ask(q, x)
    PROVE  ShowsOnly(resolveProjectSecrets(q, x), visible')
  <1> DEFINE y == resolveProjectSecrets(q, x)
  <1>1. y.env = ResolvedEnv(q, x) /\ y.secret = desiredSecrets(q, x)
    BY DEF resolveProjectSecrets, Project
  <1>2. DOMAIN ResolvedEnv(q, x) = DOMAIN SubmittedEnv(q, x)
    BY DEF ResolvedEnv
  <1>3. DOMAIN SubmittedEnv(q, x) \subseteq EnvKeys
    BY SubmittedIsEnv, EnvIsFunction
  <1>4. ASSUME NEW k \in DOMAIN SubmittedEnv(q, x), k \notin desiredSecrets(q, x)
        PROVE  ResolvedEnv(q, x)[k] \in visible'
    <2>1. k \in AskedVisible(q, x)
      BY <1>3, <1>4 DEF AskedVisible, desiredSecrets
    <2>2. k \in DOMAIN q.env => q.env[k] \in visible'
      BY <2>1 DEF Ask
    <2>3. k \in DOMAIN x.env => x.env[k] \in visible'
      BY <2>1 DEF Ask
    <2>4. \/ k \in DOMAIN x.env /\ ResolvedEnv(q, x)[k] = x.env[k]
          \/ ResolvedEnv(q, x)[k] = SubmittedEnv(q, x)[k]
      BY <1>4 DEF ResolvedEnv
    <2> QED  BY <1>4, <2>2, <2>3, <2>4 DEF SubmittedEnv
  <1> QED  BY <1>1, <1>2, <1>4 DEF ShowsOnly, redactedEnvVars

\* Asking only adds values, all of them submitted or stored ones.
LEMMA AskGrows ==
    ASSUME NEW q \in Requests, NEW x \in Rows, Ask(q, x), visible \subseteq Values \cup {Mask}
    PROVE  visible \subseteq visible' /\ visible' \subseteq Values \cup {Mask}
  <1>1. q.env \in [DOMAIN q.env -> Values \cup {Mask}] /\ x.env \in [DOMAIN x.env -> Values \cup {Mask}]
    BY SubmittedIsEnv, RowFields, EnvIsFunction
  <1> QED  BY <1>1 DEF Ask

\* What shows only V shows only a larger set.
LEMMA ShowsMore ==
    ASSUME NEW p, NEW V, NEW W, V \subseteq W, ShowsOnly(p, V)
    PROVE  ShowsOnly(p, W)
  BY DEF ShowsOnly

\* The update a handler computes fits the row it was computed from.
LEMMA ResolveComputed ==
    ASSUME NEW q \in Requests, NEW x \in Rows, Resolvable(q, x), NEW g,
           g.p = resolveProjectSecrets(q, x), g.masked = Masked(q, x),
           g.warn = declassifiedSecretEnvKeys(x, resolveProjectSecrets(q, x))
    PROVE  ComputedFrom(g, x)
  <1>1. g.p.env = ResolvedEnv(q, x)
    BY DEF resolveProjectSecrets, Project
  <1>2. ASSUME NEW k \in Masked(q, x) \cap x.secret
        PROVE  k \in DOMAIN ResolvedEnv(q, x) /\ ResolvedEnv(q, x)[k] = x.env[k]
    BY <1>2 DEF Resolvable, ResolvedEnv, Masked
  <1> QED  BY <1>1, <1>2 DEF ComputedFrom

-----------------------------------------------------------------------------
(* The handlers.                                                           *)

\* Reading the row and merging the request: the handler now carries a sound
\* project that fits the row.
LEMMA BeginPreserves ==
    ASSUME ApiInv, NEW h \in Handlers, NEW q \in Requests,
           NEW op \in {"update", "create"}, Begin(h, op, q)
    PROVE  ApiInv'
  <1> DEFINE y == resolveProjectSecrets(q, row)
             g == [op |-> op, p |-> y, warn |-> declassifiedSecretEnvKeys(row, y),
                   masked |-> Masked(q, row), fresh |-> TRUE]
  <1>1. row' = row /\ row \in Rows /\ Sound(row) /\ Resolvable(q, row) /\ Ask(q, row)
    BY DEF ApiInv, SoundInv, Sound, Begin
  <1>2. handler' = [handler EXCEPT ![h] = g]
    BY DEF Begin
  <1>3. Sound(y) /\ y \in Rows /\ ShowsOnly(y, visible')
    BY <1>1, ResolveSound, ResolveType, ResolveShows
  <1>4. ComputedFrom(g, row)
    BY <1>1, ResolveComputed
  <1>5. visible \subseteq visible' /\ visible' \subseteq Values \cup {Mask}
    BY <1>1, AskGrows DEF ApiInv, VisibleInv
  <1>6. g.warn \in SUBSET EnvKeys /\ g.masked \in SUBSET EnvKeys
    BY <1>1, RowFields, SubmittedIsEnv, EnvIsFunction
       DEF declassifiedSecretEnvKeys, Masked
  <1>7. g \in HandlerType /\ g.p = y
    BY <1>3, <1>6 DEF HandlerType
  <1> HIDE DEF g, y
  <1>8. SoundInv'
    BY <1>1, <1>2, <1>3, <1>7 DEF ApiInv, SoundInv
  <1>9. VisibleInv'
    BY <1>1, <1>2, <1>3, <1>5, <1>7, ShowsMore DEF ApiInv, SoundInv, VisibleInv
  <1>10. FreshInv'
    BY <1>1, <1>2, <1>4 DEF ApiInv, SoundInv, FreshInv
  <1> QED  BY <1>8, <1>9, <1>10 DEF ApiInv

\* Writing a sound project whose visible values are accounted for: the other
\* handlers that are in progress have read another row, or the same one.
LEMMA WritePreserves ==
    ASSUME ApiInv, NEW h \in Handlers, NEW g \in HandlerType,
           Sound(row'), ShowsOnly(row', visible'),
           visible \subseteq visible', visible' \subseteq Values \cup {Mask},
           handler' = Outdate(h, g), g.op = "idle", Sound(g.p), ShowsOnly(g.p, visible')
    PROVE  ApiInv'
  <1>1. ASSUME NEW f \in Handlers, f # h
        PROVE  /\ handler'[f] \in HandlerType
               /\ handler'[f].p = handler[f].p /\ handler'[f].op = handler[f].op
               /\ handler'[f].masked = handler[f].masked /\ handler'[f].warn = handler[f].warn
               /\ handler'[f].fresh => handler[f].fresh /\ (handler[f].op = "idle" \/ row' = row)
    <2>1. handler'[f] = [handler[f] EXCEPT !.fresh = @ /\ (handler[f].op = "idle" \/ row' = row)]
      BY <1>1 DEF Outdate
    <2>2. handler[f] \in HandlerType
      BY DEF ApiInv, SoundInv
    <2> QED  BY <2>1, <2>2 DEF HandlerType
  <1>2. handler'[h] = g
    BY DEF Outdate
  <1>3. handler' \in [Handlers -> HandlerType]
    BY <1>1, <1>2 DEF Outdate
  <1>4. SoundInv'
    BY <1>1, <1>2, <1>3 DEF ApiInv, SoundInv
  <1>5. VisibleInv'
    BY <1>1, <1>2, ShowsMore DEF ApiInv, VisibleInv
  <1>6. FreshInv'
    <2> SUFFICES ASSUME NEW f \in Handlers, handler'[f].op = "update", handler'[f].fresh
                 PROVE  ComputedFrom(handler'[f], row')
      BY DEF FreshInv
    <2>1. f # h
      BY <1>2
    <2>2. ComputedFrom(handler[f], row) /\ row' = row
      BY <1>1, <2>1 DEF ApiInv, FreshInv
    <2> QED  BY <1>1, <2>1, <2>2 DEF ComputedFrom
  <1> QED  BY <1>4, <1>5, <1>6 DEF ApiInv

\* Every step of every handler preserves the invariant.
LEMMA Inductive == ApiInv /\ [Next]_vars => ApiInv'
  <1> SUFFICES ASSUME ApiInv, [Next]_vars
               PROVE  ApiInv'
    OBVIOUS
  <1>0. /\ Sound(row) /\ row \in Rows /\ ShowsOnly(row, visible)
        /\ visible \subseteq Values \cup {Mask}
        /\ handler \in [Handlers -> HandlerType]
        /\ \A h \in Handlers : Sound(handler[h].p) /\ ShowsOnly(handler[h].p, visible)
    BY DEF ApiInv, SoundInv, VisibleInv, Sound
  <1>i. /\ Idle \in HandlerType /\ Idle.op = "idle" /\ Idle.p = NoProject
        /\ [Idle EXCEPT !.op = "delete"] \in HandlerType
    BY NoProjectSound DEF Idle, HandlerType
  <1>1. ASSUME NEW h \in Handlers, NEW q \in Requests, apiUpdateProject(h, q)
        PROVE  ApiInv'
    BY <1>1, BeginPreserves DEF apiUpdateProject
  <1>2. ASSUME NEW h \in Handlers, NEW q \in Requests, upsertProject(h, q)
        PROVE  ApiInv'
    BY <1>2, BeginPreserves DEF upsertProject
  <1>3. ASSUME NEW h \in Handlers, NEW q \in Requests, apiCreateProject(h, q)
        PROVE  ApiInv'
    <2> DEFINE y == resolveProjectSecrets(q, NoProject)
    <2>1. Sound(y) /\ ShowsOnly(y, visible')
      BY <1>3, NoProjectSound, ResolveSound, ResolveShows DEF apiCreateProject
    <2>2. visible \subseteq visible' /\ visible' \subseteq Values \cup {Mask}
      BY <1>0, <1>3, NoProjectSound, AskGrows DEF apiCreateProject
    <2>3. row' = row \/ row' = y
      BY <1>3 DEF apiCreateProject
    <2> HIDE DEF y
    <2>4. Sound(row') /\ ShowsOnly(row', visible')
      BY <1>0, <2>1, <2>2, <2>3, ShowsMore
    <2>5. /\ handler[h] \in HandlerType /\ handler[h].op = "idle" /\ Sound(handler[h].p)
          /\ ShowsOnly(handler[h].p, visible')
      BY <1>0, <1>3, <2>2, ShowsMore DEF apiCreateProject
    <2>6. handler' = Outdate(h, handler[h])
      BY <1>3 DEF apiCreateProject
    <2> QED  BY <2>2, <2>4, <2>5, <2>6, WritePreserves
  <1>4. ASSUME NEW h \in Handlers, apiDeleteProject(h)
        PROVE  ApiInv'
    <2>1. row' = row /\ visible' = visible
      BY <1>4 DEF apiDeleteProject
    <2>2. \A f \in Handlers : f # h => handler'[f] = handler[f]
      BY <1>0, <1>4 DEF apiDeleteProject
    <2>3. /\ handler'[h] = [Idle EXCEPT !.op = "delete"]
          /\ handler'[h].op = "delete" /\ handler'[h].p = NoProject
      BY <1>0, <1>4 DEF apiDeleteProject, Idle
    <2>4. handler' \in [Handlers -> HandlerType]
      BY <1>0, <1>4, <1>i DEF apiDeleteProject
    <2>5. SoundInv'
      BY <1>0, <2>1, <2>2, <2>3, <2>4, NoProjectSound DEF SoundInv
    <2>6. VisibleInv'
      BY <1>0, <2>1, <2>2, <2>3, NoProjectSound DEF VisibleInv
    <2>7. FreshInv'
      BY <2>1, <2>2, <2>3 DEF ApiInv, FreshInv
    <2> QED  BY <2>5, <2>6, <2>7 DEF ApiInv
  <1>5. ASSUME NEW h \in Handlers, UpdateProject(h)
        PROVE  ApiInv'
    BY <1>0, <1>i, <1>5, NoProjectSound, WritePreserves DEF UpdateProject
  <1>6. ASSUME NEW h \in Handlers, CreateProject(h)
        PROVE  ApiInv'
    BY <1>0, <1>i, <1>6, NoProjectSound, WritePreserves DEF CreateProject
  <1>7. ASSUME NEW h \in Handlers, DeleteProject(h)
        PROVE  ApiInv'
    BY <1>0, <1>i, <1>7, NoProjectSound, WritePreserves DEF DeleteProject
  <1>8. CASE UNCHANGED vars
    BY <1>8 DEF vars, ApiInv, SoundInv, VisibleInv, FreshInv
  <1> QED  BY <1>1, <1>2, <1>3, <1>4, <1>5, <1>6, <1>7, <1>8 DEF Next

\* The database without the project, and no request, satisfy it.
LEMMA InitInv == Init => ApiInv
  <1> SUFFICES ASSUME Init PROVE ApiInv
    OBVIOUS
  <1>1. Idle \in HandlerType /\ Idle.op = "idle" /\ Idle.p = NoProject
    BY NoProjectSound DEF Idle, HandlerType
  <1> QED  BY <1>1, NoProjectSound DEF Init, ApiInv, SoundInv, VisibleInv, FreshInv

\* The invariant holds in every reachable state.
LEMMA Invariance == Spec => []ApiInv
  BY InitInv, Inductive, PTL DEF Spec

-----------------------------------------------------------------------------
\* The types, with every secret key among the keys of its environment.
THEOREM TypeCorrect == Spec => []TypeOK
  <1>1. ApiInv => TypeOK
    BY DEF ApiInv, SoundInv, VisibleInv, Sound, TypeOK, HandlerType
  <1> QED  BY <1>1, Invariance, PTL

\* Neither the row nor a project on its way to it has the mask as the value of
\* a secret, whatever requests run together.
THEOREM MaskNeverStored == Spec => []MaskNotStored
  <1>1. ApiInv => MaskNotStored
    BY DEF ApiInv, SoundInv, Sound, MaskNotStored
  <1> QED  BY <1>1, Invariance, PTL

\* No order of requests shows a value that was only submitted as a secret.
THEOREM NoLeak == Spec => []NothingLeaks
  <1>1. ApiInv => NothingLeaks
    BY DEF ApiInv, VisibleInv, ShowsOnly, NothingLeaks
  <1> QED  BY <1>1, Invariance, PTL

\* The ordinary export of a project can be imported over it, and changes
\* nothing: every masked value is a secret that is there.
THEOREM ExportImport == Spec => []ExportImportIdentity
  <1>1. ApiInv => ExportImportIdentity
    <2> SUFFICES ASSUME Sound(row), row.exists
                 PROVE  /\ Resolvable(Exported(row), row)
                        /\ resolveProjectSecrets(Exported(row), row) = row
      BY DEF ApiInv, SoundInv, ExportImportIdentity
    <2> DEFINE q == Exported(row)
    <2>0. row # NoProject
      BY DEF NoProject
    <2>1. row \in [exists : {TRUE}, env : Envs, secret : SUBSET EnvKeys]
      BY <2>0 DEF Sound, Rows
    <2>2. row.env \in [DOMAIN row.env -> Values \cup {Mask}]
      BY <2>1, EnvIsFunction
    <2>3. /\ SubmittedEnv(q, row) \in [DOMAIN row.env -> Values \cup {Mask}]
          /\ \A k \in DOMAIN row.env : SubmittedEnv(q, row)[k] =
                                         IF k \in row.secret THEN Mask ELSE row.env[k]
      BY <2>2 DEF SubmittedEnv, Exported, redactedEnvVars
    <2>4. q.hasSecret /\ q.secret = row.secret /\ desiredSecrets(q, row) = row.secret
      BY DEF Exported, desiredSecrets
    <2>5. row.secret \subseteq DOMAIN row.env
      BY DEF Sound
    <2> HIDE DEF q
    <2>6. Resolvable(q, row)
      BY <2>3, <2>4, <2>5 DEF Resolvable, Masked
    <2>7. ResolvedEnv(q, row) = row.env
      <3>1. \A k \in DOMAIN row.env : ResolvedEnv(q, row)[k] = row.env[k]
        BY <2>3, <2>5 DEF ResolvedEnv, Masked
      <3>2. ResolvedEnv(q, row) = [k \in DOMAIN row.env |-> ResolvedEnv(q, row)[k]]
        BY <2>3 DEF ResolvedEnv
      <3> QED  BY <2>2, <3>1, <3>2
    <2>8. resolveProjectSecrets(q, row) = row
      BY <2>1, <2>4, <2>7 DEF resolveProjectSecrets, Project
    <2> QED  BY <2>6, <2>8 DEF q
  <1> QED  BY <1>1, Invariance, PTL

\* A handler that computed an update comes to rest only by writing it.
LEMMA OnlyUpdateWrites ==
    ASSUME ApiInv, Next, NEW h \in Handlers, handler[h].op = "update", handler'[h] = Idle
    PROVE  UpdateProject(h)
  <1>0. handler \in [Handlers -> HandlerType] /\ Idle.op = "idle"
    BY DEF ApiInv, SoundInv, Idle
  <1> PICK g \in Handlers :
        \/ \E q \in Requests :
             apiUpdateProject(g, q) \/ upsertProject(g, q) \/ apiCreateProject(g, q)
        \/ apiDeleteProject(g)
        \/ UpdateProject(g) \/ CreateProject(g) \/ DeleteProject(g)
    BY DEF Next
  <1>1. CASE g # h
    <2>1. \/ handler'[h] = handler[h]
          \/ handler'[h] = [handler[h] EXCEPT !.fresh = @ /\ (handler[h].op = "idle" \/ row' = row)]
      BY <1>0, <1>1 DEF apiUpdateProject, upsertProject, apiCreateProject, apiDeleteProject,
         UpdateProject, CreateProject, DeleteProject, Begin, Outdate
    <2>2. handler'[h].op = "update"
      BY <1>0, <2>1 DEF HandlerType
    <2> QED  BY <1>0, <2>2
  <1>2. CASE g = h
    BY <1>2 DEF apiUpdateProject, upsertProject, apiCreateProject, apiDeleteProject,
       CreateProject, DeleteProject
  <1> QED  BY <1>1, <1>2

\* An update that nobody's write came in between keeps the value of every
\* secret it submitted the mask for, and warns of every secret it makes visible.
THEOREM UpdatesKeepSecrets == Spec => UpdateKeepsSecrets
  <1> DEFINE Keeps == \A h \in Handlers : Writes(h) =>
                        /\ \A k \in handler[h].masked \cap row.secret :
                              k \in DOMAIN row'.env /\ row'.env[k] = row.env[k]
                        /\ {k \in row.secret \cap DOMAIN row'.env : k \notin row'.secret}
                              \subseteq handler[h].warn
  <1>1. ApiInv /\ [Next]_vars => [Keeps]_vars
    <2> SUFFICES ASSUME ApiInv, Next, NEW h \in Handlers, Writes(h)
                 PROVE  /\ \A k \in handler[h].masked \cap row.secret :
                              k \in DOMAIN row'.env /\ row'.env[k] = row.env[k]
                        /\ {k \in row.secret \cap DOMAIN row'.env : k \notin row'.secret}
                              \subseteq handler[h].warn
      OBVIOUS
    <2>1. UpdateProject(h)
      BY OnlyUpdateWrites DEF Writes
    <2>2. row' = handler[h].p
      BY <2>1 DEF UpdateProject, Writes
    <2>3. ComputedFrom(handler[h], row)
      BY DEF Writes, ApiInv, FreshInv
    <2> QED  BY <2>2, <2>3 DEF ComputedFrom, declassifiedSecretEnvKeys
  <1> QED  BY <1>1, Invariance, PTL DEF Spec, UpdateKeepsSecrets
=============================================================================
