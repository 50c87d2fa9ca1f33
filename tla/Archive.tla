------------------------------ MODULE Archive ------------------------------
(***************************************************************************)
(* Export and import (api/admin/export_import.rs) as functions of the      *)
(* catalogue tables.                                                       *)
(*                                                                         *)
(* A database is a record of tables and a table a set of rows.  Rows carry *)
(* what the two functions tell apart: keys, references, the admin's        *)
(* settings, content hashes.  node_peers rows are named by their unique    *)
(* URL instead of their id; timestamps are left out.                       *)
(***************************************************************************)
EXTENDS Integers, FiniteSets, Sequences, SequencesExt, FiniteSetsExt

CONSTANTS None, FORMAT_VERSION

\* coll: rowid, uuid and unique name.  tgt: unique by collection and prefix.
\* page: unique by collection and URL.  rank: keyed by ROWID of a collection.
\* outl: unique by collection and host.  subs (collection_peers) names its
\* collection.  next is the next uuid to be drawn.
EmptyDb == [coll |-> {}, tgt |-> {}, page |-> {}, rank |-> {}, outl |-> {},
            peers |-> {}, subs |-> {}, next |-> 1]

Unique(rows, key(_)) == \A a, b \in rows : key(a) = key(b) => a = b

NamesOf(d) == {c.name : c \in d.coll}
PeerUrls(d) == {p.url : p \in d.peers}
RankedRows(d) == {k.row : k \in d.rank}
IdsOf(d) == {c.id : c \in d.coll}

\* The rowid SQLite gives a row of a table without AUTOINCREMENT.
NextRowid(d) == IF d.coll = {} THEN 1 ELSE 1 + Max({c.row : c \in d.coll})

\* INSERT INTO collections, with a fresh uuid
InsertCollection(d, name) ==
    [d EXCEPT !.coll = @ \cup {[row |-> NextRowid(d), id |-> d.next, name |-> name]},
              !.next = @ + 1]

\* The two hashes of a version of a page: over title and text when it is
\* crawled, over the body alone when it is imported.
PageHash(body) == <<"page", body>>
doc_content_hash(body) == <<"body", body>>

-----------------------------------------------------------------------------
(* Export *)

\* The import ignores their journal, so it is left out.
ExportPages(d, t) == {[url |-> p.url, hash |-> p.hash] :
                         p \in {q \in d.page : q.coll = t.coll /\ q.prefix = t.prefix}}
ExportTargets(d, id) ==
    {[prefix |-> t.prefix, every |-> t.every, delay |-> t.delay, pages |-> ExportPages(d, t)] :
        t \in {u \in d.tgt : u.coll = id}}

ExportRanking(d, row) ==
    IF row \in RankedRows(d) THEN (CHOOSE k \in d.rank : k.row = row).cfg ELSE None

Suggestion(o) == [host |-> o.host, count |-> o.count, examples |-> o.examples, status |-> o.status]
\* Mutant: only the suggestions the admin has yet to settle are exported.
ExportPending(d, id) == {Suggestion(o) : o \in {q \in d.outl : q.coll = id /\ q.status = "pending"}}
ExportOutlinks(d, id) == {Suggestion(o) : o \in {q \in d.outl : q.coll = id}}

\* Documents carry the NAME of their collection.
ExportDocs(index, name) == {[url |-> x.url, body |-> x.body] : x \in {y \in index : y.name = name}}

ExportPeers(d) == d.peers
\* JOIN node_peers
ExportSubscriptions(d) == {s \in d.subs : s.url \in PeerUrls(d)}

\* ORDER BY name: the k-th collection has k - 1 names before it.
ByName(d, k) == CHOOSE c \in d.coll : Cardinality({b \in d.coll : b.name < c.name}) = k - 1

ExportCollection(d, index, c) ==
    [name |-> c.name, targets |-> ExportTargets(d, c.id), rank |-> ExportRanking(d, c.row),
     outlinks |-> ExportOutlinks(d, c.id), docs |-> ExportDocs(index, c.name)]

\* build_envelope, under the database mutex
Export(d, index) ==
    [version |-> FORMAT_VERSION,
     colls |-> [k \in 1..Cardinality(d.coll) |-> ExportCollection(d, index, ByName(d, k))],
     peers |-> ExportPeers(d),
     subs |-> ExportSubscriptions(d)]

-----------------------------------------------------------------------------
(* Import *)

\* The rows a collection of the envelope brings, under its new uuid: no page
\* is marked indexed.
NewTargets(c, id) == {[coll |-> id, prefix |-> t.prefix, every |-> t.every, delay |-> t.delay] :
                         t \in c.targets}
NewPages(c, id) == UNION {{[coll |-> id, prefix |-> t.prefix, url |-> p.url, hash |-> p.hash,
                            indexed |-> None] : p \in t.pages} : t \in c.targets}
NewOutlinks(c, id) == {[coll |-> id, host |-> o.host, count |-> o.count,
                        examples |-> o.examples, status |-> o.status] : o \in c.outlinks}
\* Mutant: the journal is to be written for the exporting engine's rows.
JobsOfExporter(c, id) ==
    SetToSeq({[name |-> c.name, url |-> x.url, coll |-> 0, body |-> x.body,
               hash |-> doc_content_hash(x.body)] : x \in c.docs})
JobsOf(c, id) ==
    SetToSeq({[name |-> c.name, url |-> x.url, coll |-> id, body |-> x.body,
               hash |-> doc_content_hash(x.body)] : x \in c.docs})

\* A collection whose name is taken is left alone with everything under it.
Skipped(d, c) == c.name \in NamesOf(d)
Skip(acc, c) == acc

\* INSERT INTO ranking_config: the key is the new rowid.
\* Mutant: INSERT OR REPLACE.
RankingReplaced(d, row, c) ==
    IF c.rank = None THEN [ok |-> TRUE, rank |-> d.rank]
    ELSE [ok |-> TRUE, rank |-> {k \in d.rank : k.row # row} \cup {[row |-> row, cfg |-> c.rank]}]
ImportRanking(d, row, c) ==
    IF c.rank = None THEN [ok |-> TRUE, rank |-> d.rank]
    ELSE IF row \in RankedRows(d) THEN [ok |-> FALSE, rank |-> d.rank]
    ELSE [ok |-> TRUE, rank |-> d.rank \cup {[row |-> row, cfg |-> c.rank]}]

\* The UNIQUE constraints of the tables, which a hand-made archive may violate.
Accepted(c) ==
    /\ Unique(c.targets, LAMBDA t : t.prefix)
    /\ Unique(NewPages(c, 0), LAMBDA p : p.url)
    /\ Unique(c.outlinks, LAMBDA o : o.host)

\* One round of the loop over the collections; after an error, nothing more.
ImportCollection(acc, c) ==
    LET d == acc.db
        k == ImportRanking(d, NextRowid(d), c)
    IN  IF ~acc.ok THEN acc
        ELSE IF Skipped(d, c) THEN Skip(acc, c)
        ELSE [ok |-> k.ok /\ Accepted(c),
              db |-> [InsertCollection(d, c.name) EXCEPT
                        !.tgt = @ \cup NewTargets(c, d.next),
                        !.page = @ \cup NewPages(c, d.next),
                        !.rank = k.rank,
                        !.outl = @ \cup NewOutlinks(c, d.next)],
              jobs |-> acc.jobs \o JobsOf(c, d.next)]

\* The loop; loaded[n] is the result of its first n rounds.
ImportCollections(colls, d) ==
    LET loaded[n \in 0..Len(colls)] ==
          IF n = 0 THEN [ok |-> TRUE, db |-> d, jobs |-> <<>>]
          ELSE ImportCollection(loaded[n - 1], colls[n])
    IN  loaded[Len(colls)]

ImportPeers(d, env) ==
    [d EXCEPT !.peers = @ \cup {p \in env.peers : p.url \notin PeerUrls(d)}]

\* INSERT OR IGNORE, when the collection and the peer are known by now
ImportSubscriptions(d, env) ==
    [d EXCEPT !.subs = @ \cup {s \in env.subs : s.local \in NamesOf(d) /\ s.url \in PeerUrls(d)}]

\* apply_envelope_inner: one transaction, the result with the jobs to send.
Apply(env, d) ==
    LET after == ImportCollections(env.colls, d)
    IN  IF after.ok
        THEN [after EXCEPT !.db = ImportSubscriptions(ImportPeers(@, env), env)]
        ELSE [ok |-> FALSE, db |-> d, jobs |-> <<>>]

-----------------------------------------------------------------------------
(* What a catalogue holds, apart from its keys: the reference for export   *)
(* and import.                                                             *)

Content(d) ==
    [colls |-> {[name |-> c.name,
                 tgts |-> {[prefix |-> t.prefix, every |-> t.every, delay |-> t.delay] :
                             t \in {u \in d.tgt : u.coll = c.id}},
                 pages |-> {[url |-> p.url, prefix |-> p.prefix, hash |-> p.hash] :
                              p \in {q \in d.page : q.coll = c.id}},
                 cfgs |-> {k.cfg : k \in {q \in d.rank : q.row = c.row}},
                 outl |-> {<<o.host, o.count, o.examples, o.status>> :
                             o \in {q \in d.outl : q.coll = c.id}}] : c \in d.coll},
     peers |-> d.peers,
     subs |-> {s \in d.subs : s.local \in NamesOf(d)}]

=============================================================================
