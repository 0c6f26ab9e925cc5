------------------------------ MODULE FarmStore -----------------------------
(***************************************************************************)
(* One building of the farm service with the shift store its environment   *)
(* selects at start-up (workplaces/farm/cmd/farm/main.go): a Dapr sidecar  *)
(* wins, a Redis URL comes next, memory is what is left.                   *)
(***************************************************************************)
EXTENDS MemStore, RedisStore, DaprStore

CONSTANT Environment  \* what may be configured: "sidecar", "redis_url"

VARIABLE backend

fvars == <<vars, call, turn, backend>>

\* Three places shifts can live, in order of preference.
Chosen(env) ==
    IF "sidecar" \in env THEN "dapr"
    ELSE IF "redis_url" \in env THEN "redis" ELSE "memory"

FarmInit ==
    /\ RedisInit /\ DaprInit
    /\ \E env \in SUBSET Environment : backend = Chosen(env)

FarmNext ==
    /\ \/ backend = "memory" /\ MemNext /\ UNCHANGED <<call, turn>>
       \/ backend = "redis" /\ RedisNext /\ UNCHANGED turn
       \/ backend = "dapr" /\ DaprNext /\ UNCHANGED call
    /\ UNCHANGED backend

FarmSpec == FarmInit /\ [][FarmNext]_fvars

-----------------------------------------------------------------------------
\* Every variable keeps its type: the shifts, each replica's call to Redis,
\* each caller's turn at the actor.
FarmTypeOK == RedisTypeOK /\ DaprTypeOK /\ backend \in {"memory", "redis", "dapr"}

\* Whichever store the environment selects, the shifts move only as the
\* contract of one store with atomic operations allows: through the mutex of
\* one replica; through several replicas with skewed clocks, scripts that
\* travel, get lost, or release in two steps; and through a document that is
\* loaded and saved apart, which no older copy may overwrite.
FarmImplementsStore == Spec
=============================================================================
