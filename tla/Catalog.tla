------------------------------ MODULE Catalog ------------------------------
(***************************************************************************)
(* The catalogue of one engine: collections, crawl targets, outlink        *)
(* suggestions, ranking configurations and subscriptions as the admin's    *)
(* handlers and the crawler change them, with export and import.           *)
(*                                                                         *)
(* A handler runs under the database mutex; the one that awaits before it  *)
(* takes the mutex, adding a target, is two actions.  Foreign keys are     *)
(* switched off on the shared connection while a ranking configuration is  *)
(* written and while an archive is imported (fk is their state between     *)
(* handlers).  A crawl is one action here: IndexPipeline has its steps and *)
(* what may happen between them.                                           *)
(***************************************************************************)
EXTENDS Archive

CONSTANTS
    Name,              \* collection names, numbers as SQL orders them
    Prefix, Url, Host, Body, PeerUrl, Remote, Cfg, Every, Delay,
    Example,           \* outlink examples
    Archives,          \* the archives an admin may import
    MAX_EXAMPLES,
    MaxOps             \* bound: handlers run and pages crawled

Status == {"pending", "promoted", "dismissed"}

ASSUME CatalogAssumption ==
    /\ Name \subseteq Nat /\ None \notin Cfg /\ MAX_EXAMPLES \in Nat \ {0} /\ MaxOps \in Nat
    /\ \A b \in Body : PageHash(b) # None /\ doc_content_hash(b) # None

\* What the import takes from the archive unseen is as an engine writes it: the
\* verdict and the examples of an outlink host, and each peer once.  What the
\* schema refuses (Accepted) may be in it.
ASSUME ArchiveAssumption ==
    \A a \in Archives :
        /\ Len(a.colls) \in Nat
        /\ \A n \in 1..Len(a.colls) :
             LET c == a.colls[n]
             IN  /\ c.name \in Name
                 /\ IsFiniteSet(c.docs) /\ c.docs \subseteq [url : Url, body : Body]
                 /\ \A o \in c.outlinks : /\ o.status \in Status
                                          /\ o.examples \in Seq(Example)
                                          /\ Len(o.examples) <= MAX_EXAMPLES
        /\ Unique(a.peers, LAMBDA p : p.url)

VARIABLES
    db,        \* the tables, see Archive
    fk,        \* PRAGMA foreign_keys of the shared connection
    adding,    \* the add request that awaits the canonical prefix, or None
    jobs,      \* IndexJobs on their way to the index
    index,     \* its documents: [name, url, body], one for a URL
    fault,     \* the last fault: "none", "stopped" (indexer), "crashed"
    ops        \* counts towards MaxOps

vars == <<db, fk, adding, jobs, index, fault, ops>>

\* Rows have their types, and the UNIQUE constraints of the schema hold.
TypeOK ==
    /\ \A c \in db.coll : c.row \in Nat /\ c.id \in 1..(db.next - 1) /\ c.name \in Name
    /\ Unique(db.coll, LAMBDA c : c.name) /\ Unique(db.coll, LAMBDA c : c.row)
    /\ Unique(db.tgt, LAMBDA t : <<t.coll, t.prefix>>)
    /\ Unique(db.page, LAMBDA p : <<p.coll, p.url>>)
    /\ Unique(db.rank, LAMBDA k : k.row)
    /\ Unique(db.outl, LAMBDA o : <<o.coll, o.host>>)
    /\ \A o \in db.outl : o.status \in Status /\ Len(o.examples) <= MAX_EXAMPLES
    /\ Unique(db.peers, LAMBDA p : p.url)
    /\ Unique(index, LAMBDA x : x.url)
    /\ adding = None \/ adding \in [row : Nat, prefix : Prefix]

Init ==
    /\ db = EmptyDb /\ fk = TRUE /\ adding = None
    /\ jobs = <<>> /\ index = {} /\ fault = "none" /\ ops = 0

\* One handler of the admin, or one page crawled.
Op == ops < MaxOps /\ ops' = ops + 1
Rest == UNCHANGED <<adding, jobs, index, fault>>
IndexerUp == fault # "stopped"
Changed(rows, old, new) == (rows \ {old}) \cup {new}

-----------------------------------------------------------------------------
(* Collections and their ranking: admin/collections.rs, admin/ranking.rs *)

\* 500 when the name is taken
CreateCollection(name) ==
    /\ Op /\ name \notin NamesOf(db)
    /\ db' = InsertCollection(db, name)
    /\ Rest /\ UNCHANGED fk

\* The documents and the subscriptions keep the old name.
update_item(d, c, name) == [d EXCEPT !.coll = Changed(@, c, [c EXCEPT !.name = name])]

RenameCollection(c, name) ==
    /\ Op /\ name \notin NamesOf(db)
    /\ db' = update_item(db, c, name)
    /\ Rest /\ UNCHANGED fk

\* ON DELETE CASCADE, as the connection enforces it.  ranking_config compares
\* a rowid with a uuid and never cascades.
delete_item(d, c) ==
    LET kept(rows) == {x \in rows : ~fk \/ x.coll # c.id}
    IN  [d EXCEPT !.coll = @ \ {c}, !.tgt = kept(@), !.page = kept(@), !.outl = kept(@)]

DeleteCollection(c) ==
    /\ Op /\ db' = delete_item(db, c)
    /\ Rest /\ UNCHANGED fk

\* ranking_config::upsert
upsert_ranking(d, row, cfg) ==
    [d EXCEPT !.rank = {k \in @ : k.row # row} \cup {[row |-> row, cfg |-> cfg]}]

\* put_ranking: 404 for a rowid no collection has.  The foreign keys are
\* switched off for the statement and on again.
PutRanking(c, cfg) ==
    /\ Op /\ db' = upsert_ranking(db, c.row, cfg)
    /\ fk' = TRUE
    /\ Rest

-----------------------------------------------------------------------------
(* Crawl targets: admin/crawl_targets.rs *)

\* crawl_targets::add
AddTargetRow(d, id, prefix, every) ==
    [d EXCEPT !.tgt = @ \cup {[coll |-> id, prefix |-> prefix, every |-> every, delay |-> None]}]
HasTarget(id, prefix) == \E t \in db.tgt : t.coll = id /\ t.prefix = prefix

\* The request names a rowid, and is sent with one in use.
AddStart(c, prefix) ==
    /\ Op /\ adding = None
    /\ adding' = [row |-> c.row, prefix |-> prefix]
    /\ UNCHANGED <<db, fk, jobs, index, fault>>

\* The prefix is what was typed, or the canonical form the site redirects to.
\* 404 when no collection has the rowid any more, 500 when it has the target.
AddFinish(prefix, every) ==
    /\ adding # None
    /\ adding' = None
    /\ db' = LET found == {c \in db.coll : c.row = adding.row /\ ~HasTarget(c.id, prefix)}
             IN  IF found = {} THEN db ELSE AddTargetRow(db, (CHOOSE c \in found : TRUE).id, prefix, every)
    /\ UNCHANGED <<fk, jobs, index, fault, ops>>

PagesUnder(d, t) == {p \in d.page : p.coll = t.coll /\ p.prefix = t.prefix}
list_page_urls(d, t) == {p.url : p \in PagesUnder(d, t)}
\* crawl_targets::remove: the pages go with the row.
remove(d, t) == [d EXCEPT !.tgt = @ \ {t}, !.page = IF fk THEN @ \ PagesUnder(d, t) ELSE @]

\* The documents of the pages are taken from the index; a closed channel is
\* logged.  (The batch reaches the indexer at once here; IndexPipeline has the
\* channel.)
RemoveTarget(t) ==
    /\ Op /\ db' = remove(db, t)
    /\ index' = {x \in index : IndexerUp => x.url \notin list_page_urls(db, t)}
    /\ UNCHANGED <<fk, adding, jobs, fault>>

set_interval(d, t, every) == [d EXCEPT !.tgt = Changed(@, t, [t EXCEPT !.every = every])]
SetInterval(t, every) ==
    /\ Op /\ db' = set_interval(db, t, every)
    /\ Rest /\ UNCHANGED fk

set_crawl_delay(d, t, delay) == [d EXCEPT !.tgt = Changed(@, t, [t EXCEPT !.delay = delay])]
SetCrawlDelay(t, delay) ==
    /\ Op /\ db' = set_crawl_delay(db, t, delay)
    /\ Rest /\ UNCHANGED fk

-----------------------------------------------------------------------------
(* Outlink suggestions: db/outlink_hosts.rs, admin/outlinks.rs *)

\* merge_example: first seen first kept, none twice
Merged(examples, e) ==
    IF Len(examples) >= MAX_EXAMPLES \/ \E k \in DOMAIN examples : examples[k] = e
    THEN examples ELSE Append(examples, e)

\* The update of a host that has a row.
\* Mutant: a settled host becomes a suggestion again.
Reopened(o, e) == [o EXCEPT !.count = @ + 1, !.examples = Merged(@, e), !.status = "pending"]
Seen(o, e) == IF o.status # "pending" THEN o
              ELSE [o EXCEPT !.count = @ + 1, !.examples = Merged(@, e)]

record_hit(outl, id, host, e) ==
    LET old == {o \in outl : o.coll = id /\ o.host = host}
    IN  (outl \ old) \cup
        (IF old = {} THEN {[coll |-> id, host |-> host, count |-> 1, examples |-> <<e>>,
                            status |-> "pending"]}
         ELSE {Seen(o, e) : o \in old})

mark_promoted(d, o) == [d EXCEPT !.outl = Changed(@, o, [o EXCEPT !.status = "promoted"])]
mark_dismissed(d, o) == [d EXCEPT !.outl = Changed(@, o, [o EXCEPT !.status = "dismissed"])]

\* A target for the host; a duplicate is an error and leaves the suggestion.
PromoteOutlink(o, prefix, every) ==
    /\ Op /\ ~HasTarget(o.coll, prefix)
    /\ db' = mark_promoted(AddTargetRow(db, o.coll, prefix, every), o)
    /\ Rest /\ UNCHANGED fk

DismissOutlink(o) ==
    /\ Op /\ db' = mark_dismissed(db, o)
    /\ Rest /\ UNCHANGED fk

-----------------------------------------------------------------------------
(* The crawler and the indexer, each on a connection of its own *)

\* crawl_page for a fresh answer of a page that is filed under its own URL: the
\* document is sent unless the journal shows it, the row keeps its journal, and
\* one link leads to another host.  When the channel is closed, a page that is
\* to be sent is given up before anything is written.
Crawl(t, url, body, host, e) ==
    LET prior == {p \in db.page : p.coll = t.coll /\ p.url = url}
        indexed == IF prior = {} THEN None ELSE (CHOOSE p \in prior : TRUE).indexed
        name == (CHOOSE c \in db.coll : c.id = t.coll).name
    IN  /\ Op /\ t.coll \in IdsOf(db)
        /\ IndexerUp \/ indexed = PageHash(body)
        /\ jobs' = IF indexed = PageHash(body) THEN jobs
                   ELSE Append(jobs, [name |-> name, url |-> url, coll |-> t.coll, body |-> body,
                                      hash |-> PageHash(body)])
        /\ db' = [db EXCEPT
                    !.page = (@ \ prior) \cup {[coll |-> t.coll, prefix |-> t.prefix, url |-> url,
                                                hash |-> PageHash(body), indexed |-> indexed]},
                    !.outl = record_hit(@, t.coll, host, e)]
        /\ UNCHANGED <<fk, adding, index, fault>>

\* The indexer replaces the document of the URL and marks the row.
IndexNext ==
    LET j == Head(jobs)
        rows == {p \in db.page : p.coll = j.coll /\ p.url = j.url}
    IN  /\ jobs # <<>>
        /\ jobs' = Tail(jobs)
        /\ index' = {x \in index : x.url # j.url} \cup {[name |-> j.name, url |-> j.url, body |-> j.body]}
        /\ db' = [db EXCEPT !.page = (@ \ rows) \cup {[p EXCEPT !.indexed = j.hash] : p \in rows}]
        /\ UNCHANGED <<fk, adding, fault, ops>>

\* A flush fails: the indexer ends with what is queued, and its channel closes.
IndexerStops ==
    /\ fault = "none" /\ fault' = "stopped"
    /\ jobs' = <<>>
    /\ UNCHANGED <<db, fk, adding, index, ops>>

\* The tables and the index survive; what was under way does not.
Crash ==
    /\ fault # "crashed" /\ fault' = "crashed"
    /\ adding' = None /\ jobs' = <<>> /\ fk' = TRUE
    /\ UNCHANGED <<db, index, ops>>

-----------------------------------------------------------------------------
(* Peers: the rows an archive takes along *)

AddPeer(url) ==
    /\ Op /\ url \notin PeerUrls(db)
    /\ db' = [db EXCEPT !.peers = @ \cup {[url |-> url, enabled |-> TRUE]}]
    /\ Rest /\ UNCHANGED fk

DeletePeer(p) ==
    /\ Op
    /\ db' = [db EXCEPT !.peers = @ \ {p}, !.subs = {s \in @ : ~fk \/ s.url # p.url}]
    /\ Rest /\ UNCHANGED fk

\* Nothing asks whether a collection has the name.
Subscribe(name, p, remote) ==
    LET s == [local |-> name, url |-> p.url, remote |-> remote]
    IN  /\ Op /\ s \notin db.subs
        /\ db' = [db EXCEPT !.subs = @ \cup {s}]
        /\ Rest /\ UNCHANGED fk

-----------------------------------------------------------------------------
(* Import *)

\* apply_envelope: off for the transaction, on again whatever its result.
\* Mutant: an error returns before they are.
FkAfterError(ok) == ok
FkAfter(ok) == TRUE

\* handle_import: 400 for another version.  The jobs are sent after the commit;
\* when the channel is closed the answer is 500, and the rows stay.
Import(env) ==
    LET applied == Apply(env, db)
    IN  /\ Op /\ env.version = FORMAT_VERSION
        /\ db' = applied.db /\ jobs' = IF IndexerUp THEN jobs \o applied.jobs ELSE jobs
        /\ fk' = FkAfter(applied.ok)
        /\ UNCHANGED <<adding, index, fault>>

Next ==
    \/ \E n \in Name : CreateCollection(n)
    \/ \E c \in db.coll, n \in Name : RenameCollection(c, n)
    \/ \E c \in db.coll : DeleteCollection(c)
    \/ \E c \in db.coll, k \in Cfg : PutRanking(c, k)
    \/ \E c \in db.coll, p \in Prefix : AddStart(c, p)
    \/ \E p \in Prefix, v \in Every : AddFinish(p, v)
    \/ \E t \in db.tgt : RemoveTarget(t)
    \/ \E t \in db.tgt, v \in Every : SetInterval(t, v)
    \/ \E t \in db.tgt, v \in Delay : SetCrawlDelay(t, v)
    \/ \E o \in db.outl, p \in Prefix, v \in Every : PromoteOutlink(o, p, v)
    \/ \E o \in db.outl : DismissOutlink(o)
    \/ \E t \in db.tgt, u \in Url, b \in Body, h \in Host, e \in Example : Crawl(t, u, b, h, e)
    \/ IndexNext
    \/ IndexerStops \/ Crash
    \/ \E u \in PeerUrl : AddPeer(u)
    \/ \E p \in db.peers : DeletePeer(p)
    \/ \E n \in Name, p \in db.peers, remote \in Remote : Subscribe(n, p, remote)
    \/ \E a \in Archives : Import(a)

Spec == Init /\ [][Next]_vars

-----------------------------------------------------------------------------
(* Properties *)

\* The constraints of the schema hold, although archives are imported with the
\* foreign keys off: a row belongs to rows that exist, no key is used twice, and
\* the deletes that follow an import, a refused one too, cascade
\* (apply_envelope, the schema of 001_init.sql).
Referential ==
    /\ TypeOK
    /\ \A x \in db.tgt \cup db.outl : x.coll \in IdsOf(db)
    /\ \A p \in db.page : HasTarget(p.coll, p.prefix)
    /\ \A s \in db.subs : s.url \in PeerUrls(db)

\* What an engine exports, an empty one takes in whole: its catalogue then
\* has the same content under new keys, and the documents on their way to its
\* index are those of the exported collections (build_envelope, apply_envelope).
\* Neither engine adds a row or sends a document when it takes the archive in
\* again ("additive merge keyed by name/URL").
RoundTrip ==
    LET exported == Export(db, index)
        copy == Apply(exported, EmptyDb)
    IN  /\ copy.ok
        /\ Content(copy.db) = Content(db)
        /\ {[name |-> j.name, url |-> j.url, body |-> j.body] : j \in Range(copy.jobs)}
             = {x \in index : x.name \in NamesOf(db)}
        /\ \A d \in {db, copy.db} : Apply(exported, d) = [ok |-> TRUE, db |-> d, jobs |-> <<>>]

\* An import takes nothing away and changes nothing that is there, and no
\* collection that was there gains a row under it (apply_envelope_inner).
ImportAdditive ==
    \A a \in Archives :
        LET new == Apply(a, db).db
        IN  /\ \A table \in {"coll", "tgt", "page", "rank", "outl", "peers", "subs"} :
                 db[table] \subseteq new[table]
            /\ \A table \in {"tgt", "page", "outl"} :
                 \A x \in new[table] \ db[table] : x.coll \notin IdsOf(db)
            /\ \A k \in new.rank \ db.rank : \A c \in db.coll : c.row # k.row

\* A host the admin has promoted or dismissed stays so while its collection
\* exists: no crawl and no import lists it again (record_hit: "this is what
\* makes dismissal sticky").
SettledStays ==
    [][\A o \in db.outl : o.status # "pending" =>
          \A n \in db'.outl : n.coll = o.coll /\ n.host = o.host =>
             n.status # "pending" /\ n.count = o.count /\ n.examples = o.examples]_vars

\* A page nobody has marked indexed has its document on the way, unless a
\* fault lost it: imported rows and jobs agree on the collection's new uuid
\* (apply_envelope_inner, mark_indexed_batch).  Archives here hold a document
\* for every page.
UnindexedIsQueued ==
    fault = "none" => \A p \in db.page : p.indexed = None =>
                          \E k \in DOMAIN jobs : jobs[k].coll = p.coll /\ jobs[k].url = p.url

=============================================================================
