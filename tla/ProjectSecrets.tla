--------------------------- MODULE ProjectSecrets ---------------------------
(***************************************************************************)
(* internal/web/project_secrets.go: how the values and the classification  *)
(* of a submitted environment are merged with the stored ones.             *)
(*                                                                         *)
(* A project is [exists, env, secret]; env maps keys to values.  A request *)
(* is [hasEnv, env, hasSecret, secret]: env_vars and secret_env_keys may   *)
(* each be missing.                                                        *)
(***************************************************************************)
EXTENDS Naturals

CONSTANTS
    EnvKeys,  \* names of environment variables
    Values,   \* their values
    Mask      \* redactedSecret, the eight asterisks

ASSUME MaskAssumption == Mask \notin Values

Envs == UNION {[S -> Values \cup {Mask}] : S \in SUBSET EnvKeys}
NoEnv == [k \in {} |-> Mask]
NoProject == [exists |-> FALSE, env |-> NoEnv, secret |-> {}]
Project(e, s) == [exists |-> TRUE, env |-> e, secret |-> s]

Requests ==
    [hasEnv : {TRUE}, env : Envs, hasSecret : BOOLEAN, secret : SUBSET EnvKeys]
    \cup [hasEnv : {FALSE}, env : {NoEnv}, hasSecret : BOOLEAN, secret : SUBSET EnvKeys]

MutRedactAll(env, secret) == [k \in DOMAIN env |-> Mask]

redactedEnvVars(env, secret) ==
    [k \in DOMAIN env |-> IF k \in secret THEN Mask ELSE env[k]]

\* What an ordinary export carries: an empty env_vars is left out of the
\* document, an empty secret_env_keys is not.
Exported(x) ==
    [hasEnv |-> DOMAIN x.env # {}, env |-> redactedEnvVars(x.env, x.secret),
     hasSecret |-> TRUE, secret |-> x.secret]

SubmittedEnv(q, x) == IF q.hasEnv THEN q.env ELSE x.env

MutDesiredSecrets(q, x) ==
    IF q.hasSecret THEN q.secret ELSE DOMAIN SubmittedEnv(q, x) \cap x.secret

\* Without a classification, stored keys keep theirs and new keys are secret.
desiredSecrets(q, x) ==
    IF q.hasSecret THEN q.secret
    ELSE {k \in DOMAIN SubmittedEnv(q, x) :
            ~x.exists \/ k \notin DOMAIN x.env \/ k \in x.secret}

Masked(q, x) == {k \in DOMAIN SubmittedEnv(q, x) : SubmittedEnv(q, x)[k] = Mask}

MutResolvable(q, x) ==
    q.hasSecret => q.secret \subseteq DOMAIN SubmittedEnv(q, x)

\* The requests that are not answered with an error.
Resolvable(q, x) ==
    /\ q.hasSecret => q.secret \subseteq DOMAIN SubmittedEnv(q, x)
    /\ \A k \in Masked(q, x) :
        /\ k \in desiredSecrets(q, x) => x.exists /\ k \in x.secret
        /\ k \in x.secret => k \in DOMAIN x.env

MutResolvedEnv(q, x) ==
    [k \in DOMAIN SubmittedEnv(q, x) |->
        IF k \in Masked(q, x) \cap x.secret \cap desiredSecrets(q, x)
        THEN x.env[k] ELSE SubmittedEnv(q, x)[k]]

ResolvedEnv(q, x) ==
    [k \in DOMAIN SubmittedEnv(q, x) |->
        IF k \in Masked(q, x) \cap x.secret \cap DOMAIN x.env
        THEN x.env[k] ELSE SubmittedEnv(q, x)[k]]

\* resolveProjectSecrets(p, existing)
resolveProjectSecrets(q, x) == Project(ResolvedEnv(q, x), desiredSecrets(q, x))

\* declassifiedSecretEnvKeys(existing, updated)
declassifiedSecretEnvKeys(x, y) == {k \in x.secret \cap DOMAIN y.env : k \notin y.secret}
=============================================================================
