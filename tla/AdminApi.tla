------------------------------- MODULE AdminApi -------------------------------
(***************************************************************************)
(* PUT /api/admin/config behind the authentication of AdminAuth            *)
(* (api/admin/config.rs): the runtime configuration in memory, the limit   *)
(* the rate limiter goes by, and the copy in app_config that the next start*)
(* loads.  put_config updates the three under three locks, one after the   *)
(* other, and persists the snapshot it took under the first.               *)
(***************************************************************************)
EXTENDS AdminAuth

CONSTANTS
    Limit, Depth,            \* values of search_rate_limit_per_minute, fanout_depth
    DEFAULT_LIMIT            \* RateLimitConfig::default().limit

ASSUME ConfigAssumption ==
    /\ None \notin Limit \cup Depth
    /\ None \notin [limit : Limit \cup {None}, depth : Depth \cup {None}]

VARIABLES
    runtime_config, rate_limit,   \* in memory
    table,                        \* app_config's runtime_config, None when absent
    put,                          \* [Req -> patch and snapshot of its put_config]
    disturbed                     \* history: two updates overlapped, or a write failed

configVars == <<runtime_config, rate_limit, table, put, disturbed>>
vars == <<authVars, configVars>>

\* RuntimeConfig, and a request body: absent fields are None.  The other three
\* fields are handled as fanout_depth is.
RuntimeConfig == [limit : Opt(Limit), depth : Opt(Depth)]
Default == [limit |-> None, depth |-> None]
NoPut == [patch |-> Default, snapshot |-> Default]

TypeOK ==
    /\ AuthTypeOK
    /\ runtime_config \in RuntimeConfig /\ rate_limit \in Limit \cup {DEFAULT_LIMIT}
    /\ table \in Opt(RuntimeConfig)
    /\ put \in [Req -> [patch : RuntimeConfig, snapshot : RuntimeConfig]]
    /\ disturbed \in BOOLEAN

\* load_from_db, as main does it, and the limiter's configuration from it.
Load(t) == IF t = None THEN Default ELSE t
LimitOf(cfg) == IF cfg.limit = None THEN DEFAULT_LIMIT ELSE cfg.limit

Init ==
    /\ AuthInit
    /\ runtime_config = Default /\ rate_limit = DEFAULT_LIMIT /\ table = None
    /\ put = [r \in Req |-> NoPut] /\ disturbed = FALSE

-----------------------------------------------------------------------------
Updating(r) == req[r].pc \in {"limit", "persist"}

Given(new, old) == IF new # None THEN new ELSE old
Merge(cfg, patch) ==
    [limit |-> Given(patch.limit, cfg.limit), depth |-> Given(patch.depth, cfg.depth)]

\* Mutant: the snapshot is taken before the patch is applied.
SnapshotBefore(cfg, patch) == cfg
Snapshot(cfg, patch) == Merge(cfg, patch)

AfterPatch(patch) == IF patch.limit # None THEN "limit" ELSE "persist"

\* 1. The patch, under the write lock of runtime_config.
PutPatch(r, patch) ==
    /\ req[r].pc = "handler"
    /\ runtime_config' = Merge(runtime_config, patch)
    /\ put' = [put EXCEPT ![r] = [patch |-> patch,
                                  snapshot |-> Snapshot(runtime_config, patch)]]
    /\ Goto(r, AfterPatch(patch))
    /\ disturbed' = (disturbed \/ \E q \in Req : Updating(q))
    /\ UNCHANGED <<attemptVars, tokenVars, faults, restarts, guesses, armed,
                   rate_limit, table>>

\* 2. The limiter, under the write lock of rate_limit_config.
PutLimit(r) ==
    /\ req[r].pc = "limit"
    /\ rate_limit' = put[r].patch.limit
    /\ Goto(r, "persist")
    /\ UNCHANGED <<attemptVars, tokenVars, faults, restarts, guesses, armed,
                   runtime_config, table, put, disturbed>>

\* 3. The snapshot, under the database mutex.
PutPersist(r) ==
    /\ req[r].pc = "persist"
    /\ table' = put[r].snapshot
    /\ put' = [put EXCEPT ![r] = NoPut]
    /\ Leave(r)
    /\ UNCHANGED <<attemptVars, tokenVars, faults, restarts, guesses, armed,
                   runtime_config, rate_limit, disturbed>>

\* The write fails: 500, though the new configuration is in force.
PutPersistFails(r) ==
    /\ req[r].pc = "persist" /\ faults < MaxFaults
    /\ faults' = faults + 1 /\ disturbed' = TRUE
    /\ put' = [put EXCEPT ![r] = NoPut]
    /\ Leave(r)
    /\ UNCHANGED <<attemptVars, tokenVars, restarts, guesses, armed,
                   runtime_config, rate_limit, table>>

Restart(env) ==
    /\ AuthRestart(env)
    /\ runtime_config' = Load(table)
    /\ rate_limit' = LimitOf(Load(table))
    /\ put' = [r \in Req |-> NoPut] /\ disturbed' = FALSE
    /\ UNCHANGED table

PutStep(r) ==
    \/ \E patch \in RuntimeConfig : PutPatch(r, patch)
    \/ PutLimit(r) \/ PutPersist(r) \/ PutPersistFails(r)

Next ==
    \/ \E r \in Req :
         \/ \E a \in Ip, tok \in Opt(Token) : Arrive(r, a, tok) /\ UNCHANGED configVars
         \/ AuthStep(r) /\ UNCHANGED configVars
         \/ PutStep(r)
    \/ Second /\ UNCHANGED configVars
    \/ \E env \in Opt(Token) : Restart(env)

Spec == Init /\ [][Next]_vars

\* Requests are served and time passes; nothing obliges a client to send one.
FairSpec ==
    /\ Spec /\ WF_vars(Second /\ UNCHANGED configVars)
    /\ \A r \in Req : WF_vars((AuthStep(r) /\ UNCHANGED configVars) \/ PutStep(r))

-----------------------------------------------------------------------------
(* Properties *)

\* "After MAX_FAILURES consecutive failed attempts from the same IP address,
\* further requests are rejected" (auth.rs), as far as two sections allow: until
\* the address is clean again at most MAX_FAILURES wrong tokens are compared,
\* and one for each other request that had passed the check by then, and one for
\* each statement that failed.  It holds across expired lockouts, whose
\* failed_count stays, and restarts.
GuessBudget ==
    \A a \in Ip : guesses[a] <= MAX_FAILURES + (Cardinality(Req) - 1) + faults

\* The lockout is served: whenever the check lets a request of the address
\* through, LOCKOUT_SECONDS have passed since a failure last set its lockout,
\* less the seconds that failure was recorded late, unless an accepted token has
\* cleared the address since.
LockoutServed ==
    [][\A r \in Req :
         req[r].pc = "check" /\ req'[r].pc = "judge" /\ faults' = faults
         => armed[req[r].ip] >= LOCKOUT_SECONDS - MaxLag]_vars

\* No lockout for ever: once an address sends no more wrong tokens it is not
\* locked out for good, however often it asks meanwhile.
LockoutEnds ==
    \A a \in Ip :
        (<>[](\A r \in Req : req[r].ip = a => req[r].token = admin))
            => []<>(left[a] <= 0)

\* "Changes take effect immediately for new requests and are persisted ... so
\* they survive a restart" (config.rs): whenever no update is under way, memory,
\* limiter and table agree, unless two updates have overlapped since the start
\* or a write has failed (their snapshots and limits reach the three places in
\* any order).
ConfigSettled ==
    (\A r \in Req : ~Updating(r)) /\ ~disturbed
        => runtime_config = Load(table) /\ rate_limit = LimitOf(runtime_config)

\* A restart without an override keeps the token in force before it, also when
\* that token came from an override of an earlier start.
TokenKept == [][Restart(None) => admin' = admin]_vars

=============================================================================
