------------------------------- MODULE Gossip -------------------------------
(***************************************************************************)
(* The gossip of engine directories between nodes: the discovered_engines  *)
(* table of each node (federation/discovered.rs), the outbound exchange    *)
(* (federation/gossip.rs, api/admin/gossip.rs), the handler that serves it *)
(* (api/gossip.rs), the operator and restarts.                             *)
(*                                                                         *)
(* An exchange takes the database mutex twice, before and after the HTTP   *)
(* round trip, and merges the answer into the list read BEFORE it; several *)
(* exchanges, incoming ones and the operator come between.  The handler    *)
(* holds the mutex throughout.  Request and answer carry the protocol      *)
(* version of their sender, and each side refuses another major.  Times    *)
(* never cross the network, so one clock stands for all the nodes'.  name  *)
(* stands for name and description, which travel together.                 *)
(***************************************************************************)
EXTENDS Integers

CONSTANTS
    Node,            \* engines, named by their SELF_URL
    Link,            \* pairs <<n, p>>: n exchanges with p (node_peers, trigger)
    Name,
    None,            \* no row, no entry
    Version,         \* [Node -> [major, minor]]: its PROTOCOL_VERSION
    FirstName,       \* [Node -> Name]: SELF_NAME in the first state
    Partial,         \* sets of entries that a failing upsert loop may get through
    Removable,       \* pairs <<n, e>>: entries an operator may take out
    Restarting,      \* SUBSET Node: processes that may restart
    MaxTime,
    MaxEvents        \* bound on restarts and removals together

ASSUME GossipAssumption ==
    /\ Link \subseteq Node \X Node /\ \A l \in Link : l[1] # l[2]
    /\ None \notin Name /\ FirstName \in [Node -> Name]
    /\ Version \in [Node -> [major : Nat, minor : Nat]]
    /\ Partial \subseteq SUBSET Node
    /\ Removable \subseteq Node \X Node /\ Restarting \subseteq Node
    /\ MaxTime \in Nat /\ MaxEvents \in Nat

VARIABLES
    discovered,   \* [Node -> [Node -> row or NoRow]]
    xch,          \* [Link -> the exchange of that pair]
    conf,         \* [Node -> Name]: SELF_NAME of the running process
    clock, events

vars == <<discovered, xch, conf, clock, events>>

Time == 0..MaxTime
Row == [name : Name, first : Time, last : Time]
NoRow == [name |-> None, first |-> 0, last |-> 0]
Table == [Node -> Row \cup {NoRow}]
Known(d) == {e \in Node : d[e] # NoRow}

\* What travels: EngineSummary has no times.
Summary == [Node -> Name \cup {None}]
Summarise(d) == [e \in Node |-> d[e].name]

NoTable == [e \in Node |-> NoRow]
NoSummary == [e \in Node |-> None]
Idle == [pc |-> "idle", local |-> NoTable, reply |-> NoSummary]

Larger(a, b) == IF a > b THEN a ELSE b

TypeOK ==
    /\ discovered \in [Node -> Table]
    /\ xch \in [Link -> [pc : {"idle", "sent", "answered"}, local : Table, reply : Summary]]
    /\ conf \in [Node -> Name]
    /\ clock \in Time /\ events \in 0..MaxEvents

-----------------------------------------------------------------------------
(* The table and the merge *)

\* Mutant: last_seen is overwritten instead of advanced.
upsertOverwrites(row, e) ==
    IF row = NoRow THEN e ELSE [name |-> e.name, first |-> row.first, last |-> e.last]
upsert(row, e) ==
    IF row = NoRow THEN e
    ELSE [name |-> e.name, first |-> row.first, last |-> Larger(row.last, e.last)]

\* Mutant: entries that only the other side has are left out.
mergedCommonOnly(row, name, now) ==
    IF name = None \/ row = NoRow THEN row
    ELSE [name |-> name, first |-> row.first, last |-> now]

\* merge_engine_lists for one URL.  An incoming entry is stamped with now.
merged(row, name, now) ==
    IF name = None THEN row
    ELSE IF row = NoRow THEN [name |-> name, first |-> now, last |-> now]
    ELSE [name |-> IF now >= row.last THEN name ELSE row.name,
          first |-> IF now < row.first THEN now ELSE row.first,
          last |-> Larger(row.last, now)]

merge_engine_lists(local, incoming, now) ==
    [e \in Node |-> merged(local[e], incoming[e], now)]

\* Mutant: the table becomes the merged list.
persistReplaces(table, list, S) ==
    [e \in Node |-> IF e \in S THEN list[e] ELSE table[e]]

\* The upsert loop: S are the entries whose statement succeeded.
persist(table, list, S) ==
    [e \in Node |-> IF e \in S /\ list[e] # NoRow THEN upsert(table[e], list[e])
                    ELSE table[e]]

Self(name, now) == [name |-> name, first |-> now, last |-> now]

Init ==
    /\ conf = FirstName /\ clock = 0 /\ events = 0
    /\ discovered = [n \in Node |-> [e \in Node |->
                       IF e = n THEN Self(FirstName[n], 0) ELSE NoRow]]
    /\ xch = [l \in Link |-> Idle]

-----------------------------------------------------------------------------
(* The exchange *)

\* Mutant: a different major is taken for a minor difference.
compatibilityOfMinor(ours, theirs) ==
    IF ours.minor # theirs.minor THEN "MinorMismatch" ELSE "Compatible"
check_compatibility(ours, theirs) ==
    IF ours.major # theirs.major THEN "Incompatible"
    ELSE IF ours.minor # theirs.minor THEN "MinorMismatch"
    ELSE "Compatible"

\* n goes on with a message of p: a minor difference is only logged.
Accepts(n, p) == check_compatibility(Version[n], Version[p]) # "Incompatible"

\* Snapshot the list and post it (periodic loop, new peer, manual trigger).
Begin(l) ==
    /\ xch[l].pc = "idle"
    /\ xch' = [xch EXCEPT ![l] = [pc |-> "sent", local |-> discovered[l[1]],
                                  reply |-> NoSummary]]
    /\ UNCHANGED <<discovered, conf, clock, events>>

\* What is posted: built from the snapshot, without the times.
Payload(l) == Summarise(xch[l].local)

\* The handler merges what it was sent, unless the version is refused; S as in
\* persist.
Merged(l, S) ==
    LET p == l[2]
        list == merge_engine_lists(discovered[p], Payload(l), clock)
    IN  /\ Accepts(p, l[1])
        /\ discovered' = [discovered EXCEPT ![p] = persist(@, list, S)]

\* It answers with its list as it was before the merge.
Serve(l) ==
    /\ xch[l].pc = "sent"
    /\ Merged(l, Node)
    /\ xch' = [xch EXCEPT ![l].pc = "answered", ![l].reply = Summarise(discovered[l[2]])]
    /\ UNCHANGED <<conf, clock, events>>

\* No answer, one that is refused, or a handler that failed after some of its
\* statements (there is no transaction): the initiator logs it and stops.
ExchangeFails(l) ==
    /\ xch[l].pc # "idle"
    /\ xch' = [xch EXCEPT ![l] = Idle]
    /\ \/ xch[l].pc = "sent" /\ \E S \in Partial : Merged(l, S)
       \/ UNCHANGED discovered
    /\ UNCHANGED <<conf, clock, events>>

\* Merge the answer into the snapshot and write the result back.
Persist(l, S) ==
    LET n == l[1]
        list == merge_engine_lists(xch[l].local, xch[l].reply, clock)
    IN  /\ xch[l].pc = "answered" /\ Accepts(n, l[2])
        /\ discovered' = [discovered EXCEPT ![n] = persist(@, list, S)]
        /\ xch' = [xch EXCEPT ![l] = Idle]
        /\ UNCHANGED <<conf, clock, events>>

-----------------------------------------------------------------------------
(* Operator, process, clock *)

remove_discovered(n, e) ==
    /\ events < MaxEvents /\ <<n, e>> \in Removable
    /\ e # n /\ discovered[n][e] # NoRow
    /\ discovered' = [discovered EXCEPT ![n][e] = NoRow]
    /\ events' = events + 1
    /\ UNCHANGED <<xch, conf, clock>>

\* The process restarts, perhaps under another SELF_NAME: its exchanges are
\* gone and ensure_self_entry refreshes its own row.
Restart(n, name) ==
    /\ events < MaxEvents /\ n \in Restarting
    /\ events' = events + 1
    /\ conf' = [conf EXCEPT ![n] = name]
    /\ discovered' = [discovered EXCEPT ![n][n] = upsert(@, Self(name, clock))]
    /\ xch' = [l \in Link |-> IF l[1] = n THEN Idle ELSE xch[l]]
    /\ UNCHANGED clock

Tick ==
    /\ clock < MaxTime /\ clock' = clock + 1
    /\ UNCHANGED <<discovered, xch, conf, events>>

Next ==
    \/ \E l \in Link :
         \/ Begin(l) \/ Serve(l) \/ ExchangeFails(l)
         \/ \E S \in Partial \cup {Node} : Persist(l, S)
    \/ \E n, e \in Node : remove_discovered(n, e)
    \/ \E n \in Node, name \in Name : Restart(n, name)
    \/ Tick

Spec == Init /\ [][Next]_vars

\* The periodic loop begins exchanges for ever, and one that is tried for ever
\* is now and then answered and written back, unless its version is refused.
Fairness ==
    \A l \in {k \in Link : Accepts(k[2], k[1])} :
        WF_vars(Begin(l)) /\ SF_vars(Serve(l)) /\ SF_vars(Persist(l, Node))

FairSpec == Spec /\ Fairness

-----------------------------------------------------------------------------
(* Properties *)

\* "first_seen is preserved across upserts" and "last_seen is advanced to the
\* maximum" (discovered::upsert): while an entry stays, neither a stale list
\* written back nor a restart moves first_seen at all or last_seen back.
SeenTimes ==
    [][\A n, e \in Node :
         discovered[n][e] # NoRow /\ discovered'[n][e] # NoRow
         => /\ discovered'[n][e].first = discovered[n][e].first
            /\ discovered'[n][e].last >= discovered[n][e].last]_vars

\* An entry was first seen before it was last seen, and not in the future, also
\* when a list read before a removal brings the entry back.
SeenOrder ==
    \A n, e \in Node :
        discovered[n][e].first <= discovered[n][e].last /\ discovered[n][e].last <= clock

\* The promise of section 5: the directory is additive, keeps the engine's own
\* entry, and loses others only to the operator of that very node.
Directory == INSTANCE GossipDirectory WITH known <- [n \in Node |-> Known(discovered[n])]
Additive == Directory!Spec

Speaks(n, e) == Version[n].major = Version[e].major

\* "Different major -> reject" (exchange): networks of different majors stay
\* apart.  An engine enters no list of another major, also not through a third
\* engine, an answer, or a list written back after the peer's own changes.
VersionsApart ==
    \A n, e \in Node : discovered[n][e] # NoRow => Speaks(n, e)

\* Gossip spreads: along connected links every engine ends up for good in every
\* list of its major, whatever exchanges fail or run against each other, across
\* minor versions, and (the merge is additive) also after operators removed
\* entries.
EveryoneDiscovered ==
    \A n, e \in Node : Speaks(n, e) => <>[](discovered[n][e] # NoRow)

=============================================================================
