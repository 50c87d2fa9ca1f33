----------------------------- MODULE Federation -----------------------------
(***************************************************************************)
(* One engine of the federation: its peers (federation/storage.rs and the  *)
(* admin handlers on it), their health (federation/health.rs), and the     *)
(* searches that fan out to them (federation/fanout.rs, api/public.rs).    *)
(*                                                                         *)
(* Every statement group below runs under the database mutex.  A search    *)
(* lists its peers once, calls all of them and records each outcome as it  *)
(* arrives; the health sweep lists the disabled peers and probes them one  *)
(* after the other.  Neither holds the mutex over a call, so rows change,  *)
(* go and come while calls are under way, and both address rows by id.     *)
(***************************************************************************)
EXTENDS Ranking

CONSTANTS
    Url, Remote,             \* URLs of peers, collections they offer
    MaxPeers,                \* bound: ids in use at once
    Slot,                    \* searches under way at once
    Request,                 \* what clients ask for: a route, a depth, a query
    Discovered,              \* engines gossip has told of, see Gossip
    FAILURE_THRESHOLD, MAX_FANOUT_DEPTH, SEARCH_LIMIT,
    Index,                   \* the local index as the query meets it
    PeerScores,              \* the scores in a peer's answer
    Weight,                  \* source_weight of its subscriptions
    None

ASSUME FederationAssumption ==
    /\ FAILURE_THRESHOLD \in Nat \ {0} /\ MaxPeers \in Nat
    /\ Request \subseteq [via : {"sse", "json", "mcp"}, depth : Nat,
                            query : {"blank", "malformed", "fine"}]
    /\ Discovered \subseteq Url /\ None \notin Url /\ IsFiniteSet(Slot) /\ IsFiniteSet(Remote)
    /\ None \notin [url : Url, enabled : BOOLEAN, failures : Nat]

ASSUME ResultsAssumption ==
    /\ Index \in Seq(Hit(Nat, Int, STRING, STRING)) /\ SEARCH_LIMIT \in Nat
    /\ PeerScores \in [Url -> Seq(Int)] /\ Weight \in [Url -> Int]

VARIABLES
    peers,       \* [Id -> Peer or None]: node_peers
    subs,        \* SUBSET (Id \X Remote): collection_peers of the collection searched
    search,      \* [Slot -> search]
    sweep,       \* entries the running sweep has still to probe, None between sweeps
    up           \* environment: peers that answer the health probe

tables == <<peers, subs>>
vars == <<tables, search, sweep, up>>

Id == 1..MaxPeers
Peer == [url : Url, enabled : BOOLEAN, failures : Nat]
Exists(id) == id \in Id /\ peers[id] # None
Call == [id : Id, url : Url, remote : Remote]  \* ActiveCollectionPeer

\* A search of either kind.  out holds what has been sent to the client of a
\* stream, or gathered for a JSON answer: one batch of results per source.
Idle == [busy |-> FALSE, json |-> FALSE, calls |-> {}, out |-> <<>>,
         listed |-> {}, failed |-> {}, late |-> FALSE]
Busy(s) == search[s].busy
Done(s) == search[s].busy /\ search[s].calls = {}
LocalSource == <<None, None>>
Source(c) == <<c.url, c.remote>>
Tagged(source, rs) == [k \in DOMAIN rs |-> [source |-> source, doc |-> rs[k].doc,
                                            score |-> rs[k].score]]
Batch(source, results) == [source |-> source, results |-> results]

TypeOK ==
    /\ peers \in [Id -> Peer \cup {None}]
    /\ \A i, j \in Id : Exists(i) /\ Exists(j) /\ peers[i].url = peers[j].url => i = j
    /\ subs \subseteq (Id \X Remote) /\ \A p \in subs : Exists(p[1])
    /\ \A s \in Slot :
         /\ search[s].busy \in BOOLEAN /\ search[s].json \in BOOLEAN
         /\ search[s].calls \subseteq search[s].listed /\ search[s].listed \subseteq Call
    /\ up \subseteq Url

Init ==
    /\ peers = [i \in Id |-> None] /\ subs = {}
    /\ search = [s \in Slot |-> Idle] /\ sweep = None
    /\ up \in SUBSET Url

-----------------------------------------------------------------------------
(* Peers and subscriptions: the admin's handlers *)

\* INTEGER PRIMARY KEY without AUTOINCREMENT: one more than the highest id.
NextId(id) ==
    /\ \A j \in Id : Exists(j) => j < id
    /\ id = 1 \/ Exists(id - 1)

\* The URL is unique: a second one is refused.
insert_node_peer(url) ==
    /\ \A i \in Id : Exists(i) => peers[i].url # url
    /\ \E id \in Id :
         /\ NextId(id)
         /\ peers' = [peers EXCEPT ![id] = [url |-> url, enabled |-> TRUE, failures |-> 0]]

\* add_node_peer; the exchange of lists it starts is in Gossip.
AddPeer(url) ==
    /\ insert_node_peer(url)
    /\ UNCHANGED <<subs, search, sweep, up>>

\* promote_discovered: 404 for an engine gossip has not told of
PromoteDiscovered(url) ==
    /\ url \in Discovered
    /\ insert_node_peer(url)
    /\ UNCHANGED <<subs, search, sweep, up>>

Cascade(id) == {p \in subs : p[1] # id}

\* delete_node_peer_handler; the subscriptions go with the row.
DeletePeer(id) ==
    /\ Exists(id)
    /\ peers' = [peers EXCEPT ![id] = None]
    /\ subs' = Cascade(id)
    /\ UNCHANGED <<search, sweep, up>>

Enable(row) == [row EXCEPT !.enabled = TRUE, !.failures = 0]
set_node_peer_enabled(row, enabled) ==
    IF enabled THEN Enable(row) ELSE [row EXCEPT !.enabled = FALSE]

\* update_node_peer_handler
UpdatePeer(id, enabled) ==
    /\ Exists(id)
    /\ peers' = [peers EXCEPT ![id] = set_node_peer_enabled(@, enabled)]
    /\ UNCHANGED <<subs, search, sweep, up>>

\* add_collection_peer_handler: 400 for a peer that does not exist, 500 for a
\* subscription that does.
Subscribe(id, remote) ==
    /\ Exists(id) /\ <<id, remote>> \notin subs
    /\ subs' = subs \cup {<<id, remote>>}
    /\ UNCHANGED <<peers, search, sweep, up>>

\* delete_collection_peer_handler
Unsubscribe(p) ==
    /\ p \in subs
    /\ subs' = subs \ {p}
    /\ UNCHANGED <<peers, search, sweep, up>>

-----------------------------------------------------------------------------
(* Health *)

Below(failures) == failures < FAILURE_THRESHOLD

\* record_result: the row after an outcome.
Recorded(row, success) ==
    LET n == row.failures + 1
    IN  IF success THEN [row EXCEPT !.failures = 0]
        ELSE [row EXCEPT !.failures = n, !.enabled = @ /\ Below(n)]

\* A row that is gone is left alone: the statement changes nothing and, for a
\* failure, the query after it fails and is logged.
RecordResult(id, success) ==
    peers' = IF Exists(id) THEN [peers EXCEPT ![id] = Recorded(@, success)] ELSE peers

\* The peer serves its list of collections.
health_check(url) == url \in up

\* Oldest first, which is by id.
list_node_peers(ids) == [k \in DOMAIN ids |-> [id |-> ids[k], url |-> peers[ids[k]].url]]

\* A tick of spawn_health_check_task: the disabled peers, read under the mutex.
SweepStart ==
    /\ sweep = None
    /\ sweep' = list_node_peers(SetToSortSeq({i \in Id : Exists(i) /\ ~peers[i].enabled}, <))
    /\ UNCHANGED <<tables, search, up>>

\* Mutant: the sweep stops at the first peer that is still down.
NextEntriesStop(ok) == IF ok THEN Tail(sweep) ELSE <<>>
NextEntries(ok) == Tail(sweep)

\* The next probe and, when it is answered, the write; a row that is gone stays
\* gone.
SweepProbe ==
    /\ sweep # None /\ sweep # <<>>
    /\ LET e == Head(sweep)
           ok == health_check(e.url)
       IN  /\ peers' = IF ok /\ Exists(e.id)
                       THEN [peers EXCEPT ![e.id] = set_node_peer_enabled(@, TRUE)] ELSE peers
           /\ sweep' = NextEntries(ok)
    /\ UNCHANGED <<subs, search, up>>

SweepEnd ==
    /\ sweep = <<>> /\ sweep' = None
    /\ UNCHANGED <<tables, search, up>>

-----------------------------------------------------------------------------
(* Searches *)

\* A JSON answer for GET, for POST when the client wants no stream, and for the
\* MCP tool.
wants_json(rq) == rq.via # "sse"

\* run_json_search and the MCP tool cap the depth, the stream takes it as it is.
Capped(depth) == IF depth > MAX_FANOUT_DEPTH THEN MAX_FANOUT_DEPTH ELSE depth
ToolDepth(rq) == Capped(rq.depth)
DepthOf(rq) == CASE rq.via = "sse" -> rq.depth
                 [] rq.via = "json" -> Capped(rq.depth)
                 [] rq.via = "mcp" -> ToolDepth(rq)

\* lookup_collection_id reads the id, a UUID in text, as an integer: the read
\* fails, and local_search falls back to the default configuration.
ConfigFor == DefaultFor
\* A local search that fails (a query that does not parse) counts as one
\* without results.
LocalHits == LocalSearch(Index, "any", ConfigFor, SEARCH_LIMIT)
LocalResults(rq) == IF rq.query = "fine" THEN Tagged(LocalSource, LocalHits) ELSE <<>>

\* Mutant: the peer's own switch is not looked at.
AllCollectionPeers ==
    {[id |-> p[1], url |-> peers[p[1]].url, remote |-> p[2]] : p \in subs}
\* active_collection_peers_for
ActiveCollectionPeers ==
    {[id |-> p[1], url |-> peers[p[1]].url, remote |-> p[2]] :
        p \in {q \in subs : peers[q[1]].enabled}}

\* search_get, search_handler and the MCP tool, up to dispatch, which starts all
\* calls at once.  A blank query is refused.  The local search before the calls
\* shares nothing with the rest.
Search(s, rq) ==
    LET calls == IF DepthOf(rq) > 0 THEN ActiveCollectionPeers ELSE {}
    IN  /\ ~Busy(s) /\ rq.query # "blank"
        /\ search' = [search EXCEPT ![s] =
             [busy |-> TRUE, json |-> wants_json(rq), calls |-> calls,
              out |-> <<Batch(LocalSource, LocalResults(rq))>>,
              listed |-> calls, failed |-> {}, late |-> FALSE]]
        /\ UNCHANGED <<tables, sweep, up>>

\* What a peer's answer becomes: its label as source, its scores weighted.
PeerResults(c) ==
    Tagged(Source(c), [k \in DOMAIN PeerScores[c.url] |->
                          [doc |-> k, score |-> PeerScores[c.url][k] * Weight[c.url]]])

\* Mutant: a peer that fails ends the fan-out.
CallsAfterAbort(s, c, ok) == IF ok THEN search[s].calls \ {c} ELSE {}
CallsAfter(s, c, ok) == search[s].calls \ {c}

\* HttpPeerClient::search: an answer from a peer that is up, or an error or the
\* client's time-out from any (a peer that fans out itself may take too long
\* though it is up).
PeerSearch(c, ok) == ok => c.url \in up

\* The next outcome, in any order.
Outcome(s, c, ok) ==
    /\ c \in search[s].calls
    /\ PeerSearch(c, ok)
    /\ RecordResult(c.id, ok)
    /\ LET x == search[s]
       IN  search' = [search EXCEPT ![s] = [x EXCEPT
             !.calls = CallsAfter(s, c, ok),
             !.failed = IF ok THEN x.failed ELSE x.failed \cup {c},
             !.out = IF ok THEN Append(x.out, Batch(Source(c), PeerResults(c))) ELSE x.out]]
    /\ UNCHANGED <<subs, sweep, up>>

\* FANOUT_COLLECT_TIMEOUT: calls still open are dropped, unrecorded.
Deadline(s) ==
    /\ search[s].json /\ search[s].calls # {}
    /\ search' = [search EXCEPT ![s] = [@ EXCEPT !.calls = {}, !.late = TRUE]]
    /\ UNCHANGED <<tables, sweep, up>>

\* Mutant: a stream with a failed peer is not ended.
ReportedClean(s) == search[s].calls = {} /\ search[s].failed = {}
Reported(s) == search[s].calls = {}

\* All peers have reported: Done ends the stream, or the JSON answer is sent.
Finish(s) ==
    /\ Busy(s) /\ Reported(s)
    /\ search' = [search EXCEPT ![s] = Idle]
    /\ UNCHANGED <<tables, sweep, up>>

\* collect_search's result
Answer(s) == ByScore(FlattenSeq([k \in DOMAIN search[s].out |-> search[s].out[k].results]))

-----------------------------------------------------------------------------
(* Environment *)

Flip(u) ==
    /\ up' = IF u \in up THEN up \ {u} ELSE up \cup {u}
    /\ UNCHANGED <<tables, search, sweep>>

\* Searches and the sweep die with the process.
Restart ==
    /\ search' = [s \in Slot |-> Idle] /\ sweep' = None
    /\ UNCHANGED <<tables, up>>

SearchStep(s) ==
    \/ \E c \in search[s].calls, ok \in BOOLEAN : Outcome(s, c, ok)
    \/ Deadline(s) \/ Finish(s)

SweepStep == SweepStart \/ SweepProbe \/ SweepEnd

Admin ==
    \/ \E u \in Url : AddPeer(u) \/ PromoteDiscovered(u)
    \/ \E i \in Id :
         \/ DeletePeer(i)
         \/ \E b \in BOOLEAN : UpdatePeer(i, b)
         \/ \E r \in Remote : Subscribe(i, r)
    \/ \E p \in subs : Unsubscribe(p)

Next ==
    \/ Admin \/ SweepStep
    \/ \E s \in Slot :
         \/ \E rq \in Request : Search(s, rq)
         \/ SearchStep(s)
    \/ \E u \in Url : Flip(u)
    \/ Restart

Spec == Init /\ [][Next]_vars

\* The sweep ticks for ever, and every call of a search ends, because the HTTP
\* client has a time-out.  Clients are assumed to keep reading their streams.
FairSpec == Spec /\ WF_vars(SweepStep) /\ \A s \in Slot : WF_vars(SearchStep(s))

-----------------------------------------------------------------------------
(* Properties *)

\* "Peer errors are logged ... but never abort the stream" (public.rs): when a
\* search is done, every peer it listed has answered, and is in the output
\* exactly once, or has failed, unless the budget of a JSON search ran out.  The
\* local results come first.
EveryPeerHeard ==
    \A s \in Slot : Done(s) =>
        LET out == search[s].out
            ok == {c \in search[s].listed : \E k \in DOMAIN out : out[k].source = Source(c)}
        IN  /\ out[1].source = LocalSource
            /\ \A j, k \in DOMAIN out : out[j].source = out[k].source => j = k
            /\ Len(out) = 1 + Cardinality(ok) /\ ok \cap search[s].failed = {}
            /\ ~search[s].late => ok \cup search[s].failed = search[s].listed
            /\ search[s].late => search[s].json

\* Every index of five of these documents and a limit of one, so that the cut at
\* 4 * limit is met, and every configuration of a half-life, a weight and a boost.
SmallHits == {[bm25 |-> 1, age |-> 0, domain |-> "e", coll |-> "c"],
              [bm25 |-> 2, age |-> 0 - 1, domain |-> "d", coll |-> "c"],
              [bm25 |-> 2, age |-> 1, domain |-> "d", coll |-> "c"],
              [bm25 |-> 3, age |-> 0, domain |-> "d", coll |-> "o"]}
SmallConfigs == [half_life : {0, 1}, weight : {1, 2}, boost : {{}, {"e"}}]
RankedAlways ==
    \A index \in [1..5 -> SmallHits], cfg \in SmallConfigs, coll \in {"any", "c"} :
        RankedWell(index, coll, cfg, 1)

\* "callers get a single ranked list" (public.rs): the JSON answer holds every
\* result gathered, best score first, and of equal scores the one gathered first,
\* so that the engine's own come before its peers'.  The engine's own list is
\* ranked as RankedWell says, and would be for other indexes and configurations.
AnswerRanked ==
    \A s \in Slot : Done(s) /\ search[s].json =>
        LET a == Answer(s)
            all == FlattenSeq([k \in DOMAIN search[s].out |-> search[s].out[k].results])
            place(r) == CHOOSE k \in DOMAIN all : all[k] = r
        IN  /\ Len(a) = Len(all) /\ Range(a) = Range(all)
            /\ \A i, j \in DOMAIN a : i < j =>
                 \/ a[i].score > a[j].score
                 \/ a[i].score = a[j].score /\ place(a[i]) < place(a[j])
            /\ RankedAlways

\* FAILURE_THRESHOLD: "Number of consecutive failures before a peer is
\* automatically disabled" (health.rs).  A peer that is searched has fewer
\* failures than that, and one that is disabled is called no more: it can still
\* be charged for the calls that were open at that moment, and for nothing
\* else, whatever searches, sweeps, the admin and reused ids do to the count.
ChargedForOpenCalls ==
    \A i \in Id : Exists(i) =>
        peers[i].failures <= (FAILURE_THRESHOLD - 1)
            + (IF peers[i].enabled THEN 0 ELSE Cardinality(Slot) * Cardinality(Remote))

\* Every search ends: with Done on its stream or with its answer.
SearchEnds == \A s \in Slot : Busy(s) ~> ~Busy(s)

\* "Background health checker — re-enable recovered peers" (health.rs): a peer
\* that stays registered and up is enabled again and again, however often
\* searches that time out, or the admin, disable it, once the process stays up.
Recovers ==
    \A u \in Url :
        (<>[][~Restart]_vars /\ <>[](u \in up /\ \E i \in Id : Exists(i) /\ peers[i].url = u))
            => []<>(\E i \in Id : Exists(i) /\ peers[i].url = u /\ peers[i].enabled)

=============================================================================
