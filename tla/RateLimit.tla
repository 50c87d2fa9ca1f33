------------------------------ MODULE RateLimit ------------------------------
(***************************************************************************)
(* The sliding-window rate limiter with escalating cooloff of the public   *)
(* routes (api/rate_limit.rs), seen from one client address: the row of    *)
(* rate_limit_state under its key "ip:<address>", the cached answer to "is *)
(* this address a peer node?", and any number of concurrent requests.      *)
(*                                                                         *)
(* A request takes its timestamp on arrival (require_rate_limit), then     *)
(* awaits the peer cache and the configuration, then takes the database    *)
(* mutex: it may be decided MaxSkew seconds after the time it goes by.     *)
(* The clock starts at 1: last_violation_at = 0 means "never".             *)
(***************************************************************************)
EXTENDS Integers, Sequences, FiniteSets

CONSTANTS
    Req,                      \* request slots: requests in progress at once
    ANON_LIMIT, PEER_LIMIT,   \* RateLimitConfig::limit of the two buckets
    WINDOW, CLEAN_PERIOD,
    LADDER,                   \* cooloff_ladder
    PEER_IP_CACHE_TTL,
    MaxSkew, MaxTime, MaxMoves   \* bounds

ASSUME LimiterAssumption ==
    /\ ANON_LIMIT \in Nat /\ PEER_LIMIT \in Nat /\ ANON_LIMIT <= PEER_LIMIT
    /\ WINDOW \in Nat /\ CLEAN_PERIOD \in Nat /\ PEER_IP_CACHE_TTL \in Nat
    /\ LADDER \in Seq(Nat) /\ LADDER # <<>>
    /\ \A i \in 1..(Len(LADDER) - 1) : LADDER[i] < LADDER[i + 1]
    /\ MaxSkew \in Nat /\ MaxTime \in Nat \ {0} /\ MaxMoves \in Nat

VARIABLES
    clock,
    request_log, violations, cooloff_until, last_violation_at,   \* the row
    peer,                     \* does an enabled node_peers URL name this host?
    cached, cacheAge,         \* PeerIpCache: its answer and its age
    req,                      \* [Req -> where the request stands]
    moves,
    granted,                  \* history: when each request so far was allowed
    usedPeer,                 \* history: was the peer bucket ever used?
    movedAge                  \* history: age of the last change of peer

rowVars == <<request_log, violations, cooloff_until, last_violation_at>>
cacheVars == <<cached, cacheAge>>
histVars == <<granted, usedPeer>>
vars == <<clock, rowVars, peer, cacheVars, req, moves, histVars, movedAge>>

Stale == PEER_IP_CACHE_TTL + 1     \* ages saturate here: never refreshed is stale
Older(a) == IF a < Stale THEN a + 1 ELSE a

NoReq == [pc |-> "idle", now |-> 0, limit |-> 0]

TypeOK ==
    /\ clock \in 1..MaxTime
    /\ request_log \in Seq(1..MaxTime) /\ Len(request_log) <= PEER_LIMIT
    /\ violations \in Nat /\ cooloff_until \in Nat /\ last_violation_at \in 0..MaxTime
    /\ peer \in BOOLEAN /\ cached \in BOOLEAN /\ cacheAge \in 0..Stale
    /\ req \in [Req -> [pc : {"idle", "arrived", "decide"}, now : 0..MaxTime,
                        limit : {0, ANON_LIMIT, PEER_LIMIT}]]
    /\ moves \in 0..MaxMoves
    /\ granted \in Seq(1..MaxTime) /\ usedPeer \in BOOLEAN /\ movedAge \in 0..Stale

Init ==
    /\ clock = 1
    /\ request_log = <<>> /\ violations = 0 /\ cooloff_until = 0 /\ last_violation_at = 0
    /\ peer \in BOOLEAN /\ cached = FALSE /\ cacheAge = Stale
    /\ req = [r \in Req |-> NoReq] /\ moves = 0
    /\ granted = <<>> /\ usedPeer = FALSE /\ movedAge = Stale

-----------------------------------------------------------------------------
(* require_rate_limit *)

Arrive(r) ==
    /\ req[r].pc = "idle"
    /\ req' = [req EXCEPT ![r] = [pc |-> "arrived", now |-> clock, limit |-> 0]]
    /\ UNCHANGED <<clock, rowVars, peer, cacheVars, moves, histVars, movedAge>>

\* Mutant: the cache is never refreshed once it has been filled.
NeedsRefreshOnce == cacheAge = Stale /\ clock = 1
NeedsRefresh == cacheAge > PEER_IP_CACHE_TTL

\* load_peer_hosts_from_db: is an enabled peer's host this address, now?
refresh == peer

\* is_peer_ip under the cache's lock, then the clone of the bucket's config.
Bucket(r) ==
    LET p == IF NeedsRefresh THEN refresh ELSE cached
    IN  /\ req[r].pc = "arrived"
        /\ cached' = p
        /\ cacheAge' = IF NeedsRefresh THEN 0 ELSE cacheAge
        /\ req' = [req EXCEPT ![r] = [pc |-> "decide", now |-> @.now,
                                      limit |-> IF p THEN PEER_LIMIT ELSE ANON_LIMIT]]
        /\ usedPeer' = (usedPeer \/ p)
        /\ UNCHANGED <<clock, rowVars, peer, moves, granted, movedAge>>

\* check_and_record_key: one call under the database mutex.  The first guard is
\* common to its three outcomes.
Deciding(r) == req[r].pc = "decide" /\ req' = [req EXCEPT ![r] = NoReq]

\* Mutant: the reset does not wait for the clean period.
CleanAtOnce(now) == last_violation_at > 0 /\ cooloff_until <= now
Clean(now) ==
    /\ last_violation_at > 0 /\ now - last_violation_at > CLEAN_PERIOD
    /\ cooloff_until <= now

ViolationsAt(now) == IF Clean(now) THEN 0 ELSE violations

\* Vec::retain of the timestamps after cut; kept[n] is what it leaves of the
\* first n.
Retain(log, cut) ==
    LET kept[n \in 0..Len(log)] ==
          IF n = 0 THEN <<>>
          ELSE IF log[n] > cut THEN Append(kept[n - 1], log[n]) ELSE kept[n - 1]
    IN  kept[Len(log)]

\* Mutant: the window is shorter by one second.
PrunedEarly(now) == Retain(request_log, now - WINDOW + 1)
Pruned(now) == Retain(request_log, now - WINDOW)

Capped(log, cap) ==
    IF Len(log) > cap THEN SubSeq(log, Len(log) - cap + 1, Len(log)) ELSE log

\* Mutant: a running cooloff is not looked at.
CoolingNever(now) == FALSE
Cooling(now) == cooloff_until > now

RejectCooling(r) ==
    LET now == req[r].now
    IN  /\ Deciding(r) /\ Cooling(now)
        /\ violations' = ViolationsAt(now)
        /\ UNCHANGED <<clock, request_log, cooloff_until, last_violation_at, peer,
                       cacheVars, moves, histVars, movedAge>>

RejectedLog(now) == Pruned(now)

Violate(r) ==
    LET now == req[r].now
        idx == IF ViolationsAt(now) < Len(LADDER) - 1 THEN ViolationsAt(now)
               ELSE Len(LADDER) - 1
    IN  /\ Deciding(r) /\ ~Cooling(now)
        /\ Len(Pruned(now)) >= req[r].limit
        /\ request_log' = RejectedLog(now)
        /\ violations' = ViolationsAt(now) + 1
        /\ cooloff_until' = now + LADDER[idx + 1]
        /\ last_violation_at' = now
        /\ UNCHANGED <<clock, peer, cacheVars, moves, histVars, movedAge>>

Allow(r) ==
    LET now == req[r].now
    IN  /\ Deciding(r) /\ ~Cooling(now)
        /\ Len(Pruned(now)) < req[r].limit
        /\ request_log' = Capped(Append(Pruned(now), now), 2 * req[r].limit)
        /\ violations' = ViolationsAt(now)
        /\ granted' = Append(granted, clock)
        /\ UNCHANGED <<clock, cooloff_until, last_violation_at, peer, cacheVars,
                       moves, usedPeer, movedAge>>

\* The row cannot be read or saved: 500, nothing recorded.
StorageFails(r) ==
    /\ Deciding(r)
    /\ UNCHANGED <<clock, rowVars, peer, cacheVars, moves, histVars, movedAge>>

-----------------------------------------------------------------------------
(* Environment *)

\* The admin, or the health checker, enables or disables the peer.
MovePeer ==
    /\ moves < MaxMoves
    /\ moves' = moves + 1 /\ peer' = ~peer /\ movedAge' = 0
    /\ UNCHANGED <<clock, rowVars, cacheVars, req, histVars>>

Time ==
    /\ clock < MaxTime
    /\ \A r \in Req : req[r].pc # "idle" => clock - req[r].now < MaxSkew
    /\ clock' = clock + 1
    /\ cacheAge' = Older(cacheAge) /\ movedAge' = Older(movedAge)
    /\ UNCHANGED <<rowVars, peer, cached, req, moves, histVars>>

Next ==
    \/ \E r \in Req :
         \/ Arrive(r) \/ Bucket(r)
         \/ RejectCooling(r) \/ Violate(r) \/ Allow(r) \/ StorageFails(r)
    \/ MovePeer \/ Time

Spec == Init /\ [][Next]_vars

-----------------------------------------------------------------------------
(* Properties *)

\* Requests let through in the WINDOW - MaxSkew seconds that end at t.
GrantedUpTo(t) ==
    Cardinality({i \in DOMAIN granted :
                   granted[i] > t - (WINDOW - MaxSkew) /\ granted[i] <= t})

\* "Maximum number of requests allowed within window_seconds" (RateLimitConfig),
\* as far as late decisions allow: a request that goes by an earlier time than
\* the one that pruned the log last sees a log shorter by their distance, so the
\* bound holds for every WINDOW - MaxSkew consecutive seconds.  It is the
\* largest bucket the address has used, across cooloffs, pruning, resets and
\* moves between the buckets, which share one log.
WindowLimit ==
    /\ TypeOK
    /\ \A t \in 1..clock : GrantedUpTo(t) <= IF usedPeer THEN PEER_LIMIT ELSE ANON_LIMIT

\* Penalties escalate: with a growing ladder a new cooloff is longer than the
\* one before it, or as long as the last rung, unless a whole clean period has
\* passed since that one was imposed, whichever request noticed it and in
\* whatever order they were decided.
Escalates ==
    [][\A r \in Req :
         last_violation_at > 0 /\ violations' > 0
         /\ req[r].pc = "decide" /\ req'[r].pc = "idle" /\ cooloff_until' # cooloff_until
         => \/ cooloff_until' - last_violation_at' > cooloff_until - last_violation_at
            \/ cooloff_until' - last_violation_at' = LADDER[Len(LADDER)]
            \/ clock - last_violation_at > CLEAN_PERIOD]_vars

\* However late a request is decided, it never shortens a running cooloff and
\* is never let through while one is running on the wall clock.
CooloffHolds ==
    [][/\ cooloff_until' >= cooloff_until
       /\ granted' # granted => cooloff_until <= clock]_vars

\* The peer cache forgets: an address is put into the wrong bucket only within
\* PEER_IP_CACHE_TTL seconds of the change in node_peers.
BucketFollowsPeers ==
    [][\A r \in Req :
         req[r].pc = "arrived" /\ req'[r].pc = "decide" /\ movedAge > PEER_IP_CACHE_TTL
         => cached' = peer]_vars

=============================================================================
