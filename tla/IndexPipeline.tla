---------------------------- MODULE IndexPipeline ----------------------------
(***************************************************************************)
(* How a crawled page becomes a durable search document, and how the       *)
(* document is taken out again.  Four parties share the state:             *)
(*                                                                         *)
(*  - crawl tasks, one per dispatched target, each running crawl_page over *)
(*    URLs of its prefix (crawler/page.rs).  The BFS order is CrawlDriver's*)
(*    business: here a running task may take any URL of its prefix next;   *)
(*  - the indexer task, sole owner of the Tantivy writer (index/indexer.rs)*)
(*    which drains an upsert channel and a delete channel;                 *)
(*  - admin handlers on other threads, with their own SQLite connection    *)
(*    (api/admin/crawl_targets.rs, api/admin/collections.rs);              *)
(*  - the crawled sites, and process crashes.                              *)
(*                                                                         *)
(* Crawl tasks and the indexer are cooperative tasks of ONE thread: a task *)
(* that has pushed its job runs on to its row write without an await, and  *)
(* a flush runs from the Tantivy commit to the journal update without one. *)
(* Only the admin threads and a crash come between (ThreadFree).           *)
(***************************************************************************)
EXTENDS Integers, Sequences, FiniteSets

CONSTANTS
    Url, Coll, Target, Hash,   \* Hash: a page's content, named by its SHA-256
    None,                      \* SQL NULL / Option::None
    TargetColl,                \* [Target -> Coll]
    UrlPrefix,                 \* [Target -> names]: crawl_targets.url_prefix
    InPrefix,                  \* [Target -> SUBSET Url]: is_in_prefix
    IndexUrl,                  \* [Url -> Url]: redirect target or canonical link
    Etagged,                   \* SUBSET Url: sites that send and honour ETags
    Deletable,                 \* SUBSET Coll: collections the admin may delete
    InitialTargets,            \* targets that exist in the first state
    BATCH_SIZE, CHANNEL_CAPACITY, DELETE_CAPACITY,
    MaxChanges, MaxCrashes, MaxFailures, MaxRemovals,   \* bounds
    FlushCrash                 \* may a crash fall between commit and journal?

ASSUME NoneAssumption == None \notin Coll \cup Target \cup Hash \cup Url
ASSUME TopologyAssumption ==
    /\ TargetColl \in [Target -> Coll]
    /\ InPrefix \in [Target -> SUBSET Url]
    /\ IndexUrl \in [Url -> Url]
    /\ Etagged \subseteq Url
    /\ InitialTargets \subseteq Target
    /\ Deletable \subseteq Coll
    /\ IsFiniteSet(Target)
ASSUME BoundsAssumption ==
    /\ BATCH_SIZE \in Nat \ {0}
    /\ CHANNEL_CAPACITY \in Nat \ {0}
    /\ DELETE_CAPACITY \in Nat \ {0}
    /\ MaxChanges \in Nat /\ MaxCrashes \in Nat
    /\ MaxFailures \in Nat /\ MaxRemovals \in Nat
    /\ FlushCrash \in BOOLEAN

VARIABLES
    \* SQLite: survives a crash
    tstate,      \* [Target -> {"unborn", "live", "gone"}]: crawl_targets
    pages,       \* [Coll -> [Url -> PageRow]]: crawled_pages
    \* Tantivy: survives a crash
    index,       \* [Url -> Doc]: the last commit
    \* the indexer task
    staged,      \* [Url -> Doc]: what the next commit will make durable
    batch,       \* [Coll -> [Url -> hash]]: IndexWriter.pending, last entry per row
    pending,     \* how many upserts the writer holds
    marks,       \* the journal commit() returned, while flush applies it
    ipc,         \* "run", "mark" (between commit and journal), "down" (exited)
    \* channels and the shared counter
    upsertQ, deleteQ, inflight,
    \* crawl tasks and admin handlers
    task, removing,
    \* environment
    site,        \* [Url -> Hash]: what each page holds now
    changes, crashes, failures, removals,
    \* history
    tainted,     \* rows whose journal entry may no longer describe the index
    orphan,      \* documents no later request can name any more
    lost         \* jobs counted in inflight that died with the indexer

dbVars == <<tstate, pages>>
writerVars == <<index, staged, batch, pending, marks, ipc>>
chanVars == <<upsertQ, deleteQ, inflight>>
procVars == <<task, removing>>
envVars == <<site, changes, crashes, failures, removals>>
histVars == <<tainted, orphan, lost>>
vars == <<dbVars, writerVars, chanVars, procVars, envVars, histVars>>

-----------------------------------------------------------------------------
(* Data *)

Opt(S) == S \cup {None}

\* A row of crawled_pages; target = None stands for "no such row".
PageRow == [target : Opt(Target), etag : Opt(Hash),
            content : Opt(Hash), indexed : Opt(Hash)]
NoRow == [target |-> None, etag |-> None, content |-> None, indexed |-> None]
HasRow(c, u) == pages[c][u].target # None

\* A Tantivy document, at most one per URL: every add deletes the URL's term.
Doc == [coll : Opt(Coll), content : Opt(Hash)]
NoDoc == [coll |-> None, content |-> None]

Job == [coll : Coll, url : Url, hash : Hash]

\* A crawl task and where its crawl_page call stands.
TaskPC == {"idle", "ready", "fetch", "notmod", "other", "fresh", "send", "row"}
TaskState == [pc : TaskPC, url : Opt(Url), prior : PageRow, got : Opt(Hash)]
Idle == [pc |-> "idle", url |-> None, prior |-> NoRow, got |-> None]
Ready == [pc |-> "ready", url |-> None, prior |-> NoRow, got |-> None]

At(tk, p) == [pc |-> p, url |-> tk.url, prior |-> tk.prior, got |-> tk.got]

NoBatch == [c \in Coll |-> [u \in Url |-> None]]
NoRemovals == [t \in Target |-> {}]

\* The URL a fetched page is indexed under: out-of-prefix targets are ignored.
index_url(t, u) == IF IndexUrl[u] \in InPrefix[t] THEN IndexUrl[u] ELSE u

QueuedDeletes == UNION ({removing[t] : t \in Target}
                        \cup {deleteQ[i] : i \in DOMAIN deleteQ})

\* No task of the scheduler thread is between two statements of its own.
ThreadFree == ipc # "mark" /\ \A t \in Target : task[t].pc # "row"

TypeOK ==
    /\ tstate \in [Target -> {"unborn", "live", "gone"}]
    /\ pages \in [Coll -> [Url -> PageRow]]
    /\ index \in [Url -> Doc] /\ staged \in [Url -> Doc]
    /\ batch \in [Coll -> [Url -> Opt(Hash)]]
    /\ marks \in [Coll -> [Url -> Opt(Hash)]]
    /\ pending \in 0..(BATCH_SIZE - 1)
    /\ ipc \in {"run", "mark", "down"}
    /\ upsertQ \in Seq(Job) /\ deleteQ \in Seq(SUBSET Url)
    /\ inflight \in Int
    /\ task \in [Target -> TaskState]
    /\ removing \in [Target -> SUBSET Url]
    /\ site \in [Url -> Hash]
    /\ changes \in Nat /\ crashes \in Nat /\ failures \in Nat /\ removals \in Nat
    /\ tainted \subseteq Coll \X Url
    /\ orphan \subseteq Url
    /\ lost \in Nat

Init ==
    /\ tstate = [t \in Target |-> IF t \in InitialTargets THEN "live" ELSE "unborn"]
    /\ pages = [c \in Coll |-> [u \in Url |-> NoRow]]
    /\ index = [u \in Url |-> NoDoc] /\ staged = index
    /\ batch = NoBatch /\ marks = NoBatch /\ pending = 0 /\ ipc = "run"
    /\ upsertQ = <<>> /\ deleteQ = <<>> /\ inflight = 0
    /\ task = [t \in Target |-> Idle] /\ removing = NoRemovals
    /\ site \in [Url -> Hash]
    /\ changes = 0 /\ crashes = 0 /\ failures = 0 /\ removals = 0
    /\ tainted = {} /\ orphan = {} /\ lost = 0

-----------------------------------------------------------------------------
(* Crawl tasks *)

\* tick_once spawns a task for a live target that has none.
Dispatch(t) ==
    /\ ThreadFree
    /\ tstate[t] = "live" /\ task[t].pc = "idle"
    /\ task' = [task EXCEPT ![t] = Ready]
    /\ UNCHANGED <<dbVars, writerVars, chanVars, removing, envVars, histVars>>

\* The run ends: queue empty, page limit, five 429s, or a panic.
Finish(t) ==
    /\ ThreadFree
    /\ task[t].pc = "ready"
    /\ task' = [task EXCEPT ![t] = Idle]
    /\ UNCHANGED <<dbVars, writerVars, chanVars, removing, envVars, histVars>>

\* crawl_page, steps 1-3: load the prior row, then await the fetch.
Load(t, u) ==
    /\ ThreadFree
    /\ task[t].pc = "ready" /\ u \in InPrefix[t]
    /\ task' = [task EXCEPT ![t] = [pc |-> "fetch", url |-> u,
                                    prior |-> pages[TargetColl[t]][u],
                                    got |-> None]]
    /\ UNCHANGED <<dbVars, writerVars, chanVars, removing, envVars, histVars>>

\* The site answers the conditional GET: 304 when the validator still holds.
Answer(t) ==
    LET p == task[t].prior
        u == task[t].url
    IN  /\ task[t].pc = "fetch"
        /\ task' = [task EXCEPT ![t] =
             IF p.etag = site[u]
             THEN [pc |-> "notmod", url |-> u, prior |-> p, got |-> None]
             ELSE [pc |-> "fresh", url |-> u, prior |-> p, got |-> site[u]]]
        /\ UNCHANGED <<dbVars, writerVars, chanVars, removing, envVars, histVars>>

\* Another status: crawl_page records it and keeps the prior validators.
OtherStatus(t) ==
    /\ task[t].pc = "fetch"
    /\ task' = [task EXCEPT ![t] = At(@, "other")]
    /\ UNCHANGED <<dbVars, writerVars, chanVars, removing, envVars, histVars>>

\* 429, transport error or a body that is not HTML: no database write.
FetchFails(t) ==
    /\ task[t].pc = "fetch"
    /\ task' = [task EXCEPT ![t] = Ready]
    /\ UNCHANGED <<dbVars, writerVars, chanVars, removing, envVars, histVars>>

\* Mutant: the row write advances the journal itself, ahead of the commit.
upsertMarksIndexed(t, etag, content) ==
    IF tstate[t] = "live"
    THEN [pages EXCEPT ![TargetColl[t]][task[t].url] =
            [target |-> t, etag |-> etag, content |-> content, indexed |-> content]]
    ELSE pages

\* crawled_pages::upsert.  The foreign key on crawl_target_id refuses the row
\* of a removed target; indexed_content_hash is never among the columns set.
upsert(t, etag, content) ==
    IF tstate[t] = "live"
    THEN [pages EXCEPT ![TargetColl[t]][task[t].url] =
            [target |-> t, etag |-> etag, content |-> content,
             indexed |-> @.indexed]]
    ELSE pages

\* Steps 5 and 6: write the prior row's values back.
KeepRow(t) ==
    /\ ThreadFree
    /\ task[t].pc \in {"notmod", "other"}
    /\ pages' = upsert(t, task[t].prior.etag, task[t].prior.content)
    /\ task' = [task EXCEPT ![t] = Ready]
    /\ UNCHANGED <<tstate, writerVars, chanVars, removing, envVars, histVars>>

EtagOf(u, h) == IF u \in Etagged THEN h ELSE None

\* Mutant: gate on content_hash instead of indexed_content_hash.
already_fetched(t) == task[t].prior.content = task[t].got

\* Step 7 when the journal already holds this content: no job is sent.
already_indexed(t) == task[t].prior.indexed = task[t].got

SkipIndex(t) ==
    /\ ThreadFree
    /\ task[t].pc = "fresh" /\ already_indexed(t)
    /\ pages' = upsert(t, EtagOf(task[t].url, task[t].got), task[t].got)
    /\ task' = [task EXCEPT ![t] = Ready]
    /\ UNCHANGED <<tstate, writerVars, chanVars, removing, envVars, histVars>>

\* Mutant: the job is not counted before the send.
BeginSendUncounted(t) ==
    /\ ThreadFree
    /\ task[t].pc = "fresh" /\ ~already_indexed(t)
    /\ task' = [task EXCEPT ![t] = At(@, "send")]
    /\ UNCHANGED <<dbVars, writerVars, chanVars, removing, envVars, histVars>>

\* Step 7 otherwise: count the job first, then wait for room in the channel.
BeginSend(t) ==
    /\ ThreadFree
    /\ task[t].pc = "fresh" /\ ~already_indexed(t)
    /\ inflight' = inflight + 1
    /\ task' = [task EXCEPT ![t] = At(@, "send")]
    /\ UNCHANGED <<dbVars, writerVars, upsertQ, deleteQ, removing, envVars, histVars>>

Send(t) ==
    LET c == TargetColl[t]
        v == index_url(t, task[t].url)
    IN  /\ ThreadFree
        /\ task[t].pc = "send"
        /\ ipc = "run" /\ Len(upsertQ) < CHANNEL_CAPACITY
        /\ upsertQ' = Append(upsertQ, [coll |-> c, url |-> v, hash |-> task[t].got])
        /\ task' = [task EXCEPT ![t] = At(@, "row")]
        \* history: a document filed under an alias that has no row
        /\ orphan' = IF v # task[t].url /\ ~HasRow(c, v) THEN orphan \cup {v} ELSE orphan
        /\ UNCHANGED <<dbVars, writerVars, deleteQ, inflight, removing, envVars,
                       tainted, lost>>

\* The receiver is gone: roll the counter back and report the page as failed.
SendFails(t) ==
    /\ ThreadFree
    /\ task[t].pc = "send" /\ ipc = "down"
    /\ inflight' = inflight - 1
    /\ task' = [task EXCEPT ![t] = Ready]
    /\ UNCHANGED <<dbVars, writerVars, upsertQ, deleteQ, removing, envVars, histVars>>

\* Only now does the page get its row, validators included.
WriteRow(t) ==
    /\ task[t].pc = "row"
    /\ pages' = upsert(t, EtagOf(task[t].url, task[t].got), task[t].got)
    /\ task' = [task EXCEPT ![t] = Ready]
    \* history: the job is in the channel, but its row was refused
    /\ orphan' = IF tstate[t] = "live" THEN orphan
                 ELSE orphan \cup {index_url(t, task[t].url)}
    /\ UNCHANGED <<tstate, writerVars, chanVars, removing, envVars, tainted, lost>>

-----------------------------------------------------------------------------
(* The indexer task *)

\* flush: commit what st holds, subtract the journal's length, keep the journal.
Commit(st, jnl, n) ==
    /\ index' = st /\ staged' = st
    /\ marks' = jnl /\ batch' = NoBatch /\ pending' = 0
    /\ inflight' = inflight - n
    /\ ipc' = IF n = 0 THEN "run" ELSE "mark"

BatchFull(n) == n >= BATCH_SIZE

\* IndexWriter::upsert replaces whatever document has the URL, of any
\* collection, and records a journal entry; delete_url only drops documents.
StagedDoc(j) == [staged EXCEPT ![j.url] = [coll |-> j.coll, content |-> j.hash]]
Journaled(j) == [batch EXCEPT ![j.coll][j.url] = j.hash]
delete_urls(urls) == [u \in Url |-> IF u \in urls THEN NoDoc ELSE staged[u]]

\* rx.recv: stage the document; a full batch is flushed at once.
Recv ==
    LET j == Head(upsertQ)
        st == StagedDoc(j)
        jnl == Journaled(j)
    IN  /\ ThreadFree /\ ipc = "run" /\ upsertQ # <<>>
        /\ upsertQ' = Tail(upsertQ)
        /\ IF BatchFull(pending + 1)
           THEN Commit(st, jnl, pending + 1)
           ELSE /\ staged' = st /\ batch' = jnl /\ pending' = pending + 1
                /\ UNCHANGED <<index, marks, ipc, inflight>>
        \* history: the URL's document leaves every other collection
        /\ tainted' = tainted \cup {r \in Coll \X Url : r[2] = j.url /\ r[1] # j.coll}
        /\ UNCHANGED <<dbVars, deleteQ, procVars, envVars, orphan, lost>>

\* biased select: a delete batch waits until no upsert is queued.
RecvDelete ==
    LET urls == Head(deleteQ)
    IN  /\ ThreadFree /\ ipc = "run" /\ upsertQ = <<>> /\ deleteQ # <<>>
        /\ deleteQ' = Tail(deleteQ)
        /\ Commit(delete_urls(urls), batch, pending)
        \* history: a journal entry for a deleted URL describes no document
        /\ tainted' = tainted \cup (Coll \X urls)
        /\ UNCHANGED <<dbVars, upsertQ, procVars, envVars, orphan, lost>>

\* MAX_AGE elapsed.
Deadline ==
    /\ ThreadFree /\ ipc = "run" /\ upsertQ = <<>> /\ deleteQ = <<>>
    /\ pending > 0
    /\ Commit(staged, batch, pending)
    /\ UNCHANGED <<dbVars, upsertQ, deleteQ, procVars, envVars, histVars>>

\* mark_indexed_batch: one UPDATE per entry; an entry without a row changes nothing.
mark_indexed_batch ==
    [c \in Coll |-> [u \in Url |->
        IF HasRow(c, u) /\ marks[c][u] # None
        THEN [pages[c][u] EXCEPT !.indexed = marks[c][u]]
        ELSE pages[c][u]]]

Marked == {r \in Coll \X Url : marks[r[1]][r[2]] # None}

Mark ==
    /\ ipc = "mark"
    /\ pages' = mark_indexed_batch
    /\ ipc' = "run" /\ marks' = NoBatch
    \* history: the entry describes the document that is in the index now
    /\ tainted' = tainted \
         {r \in Marked : index[r[2]] = [coll |-> r[1], content |-> marks[r[1]][r[2]]]}
    /\ UNCHANGED <<tstate, index, staged, batch, pending, chanVars, procVars,
                   envVars, orphan, lost>>

\* The task returns: both receivers and the uncommitted writer are dropped.
Exit ==
    /\ ipc' = "down"
    /\ staged' = index /\ batch' = NoBatch /\ pending' = 0 /\ marks' = NoBatch
    /\ upsertQ' = <<>> /\ deleteQ' = <<>>
    /\ lost' = lost + Len(upsertQ) + pending
    /\ orphan' = orphan \cup UNION {deleteQ[i] : i \in DOMAIN deleteQ}
    /\ failures' = failures + 1
    /\ UNCHANGED <<index, inflight, site, changes, crashes, removals>>

\* The writer or the commit fails: `?` ends run.
CommitFails ==
    /\ ThreadFree /\ ipc = "run" /\ failures < MaxFailures
    /\ upsertQ # <<>> \/ deleteQ # <<>> \/ pending > 0
    /\ Exit
    /\ UNCHANGED <<dbVars, procVars, tainted>>

\* The journal update fails (a busy or full database): flush returns its error.
MarkFails ==
    /\ ipc = "mark" /\ failures < MaxFailures
    /\ Exit
    /\ tainted' = tainted \cup Marked
    /\ UNCHANGED <<dbVars, procVars>>

-----------------------------------------------------------------------------
(* Admin handlers, on threads of their own *)

\* UNIQUE (collection_id, url_prefix)
AddTarget(t) ==
    /\ tstate[t] = "unborn"
    /\ \A o \in Target : tstate[o] = "live" /\ TargetColl[o] = TargetColl[t]
                            => UrlPrefix[o] # UrlPrefix[t]
    /\ tstate' = [tstate EXCEPT ![t] = "live"]
    /\ UNCHANGED <<pages, writerVars, chanVars, procVars, envVars, histVars>>

\* The ON DELETE CASCADE of a set of targets.
Cascade(T) == [c \in Coll |-> [u \in Url |->
                 IF pages[c][u].target \in T THEN NoRow ELSE pages[c][u]]]

\* Mutant: the URLs are listed after the cascade has deleted them.
PagesOfAfterCascade(t) == {u \in Url : Cascade({t})[TargetColl[t]][u].target = t}

PagesOf(t) == {u \in Url : pages[TargetColl[t]][u].target = t}

\* list_page_urls and remove under one lock, before the send is awaited.
RemoveTarget(t) ==
    /\ tstate[t] = "live" /\ removals < MaxRemovals
    /\ tstate' = [tstate EXCEPT ![t] = "gone"]
    /\ pages' = Cascade({t})
    /\ removing' = [removing EXCEPT ![t] = PagesOf(t)]
    /\ removals' = removals + 1
    /\ UNCHANGED <<writerVars, chanVars, task, site, changes, crashes, failures, histVars>>

SendDelete(t) ==
    /\ removing[t] # {}
    /\ ipc # "down" /\ Len(deleteQ) < DELETE_CAPACITY
    /\ deleteQ' = Append(deleteQ, removing[t])
    /\ removing' = [removing EXCEPT ![t] = {}]
    /\ UNCHANGED <<dbVars, writerVars, upsertQ, inflight, task, envVars, histVars>>

\* The indexer is gone: the handler logs it and answers 200.
SendDeleteFails(t) ==
    /\ removing[t] # {} /\ ipc = "down"
    /\ removing' = [removing EXCEPT ![t] = {}]
    /\ orphan' = orphan \cup removing[t]
    /\ UNCHANGED <<dbVars, writerVars, chanVars, task, envVars, tainted, lost>>

\* delete_item: the cascade takes targets and rows; the index is not told.
DeleteCollection(c) ==
    LET T == {t \in Target : TargetColl[t] = c}
    IN  /\ removals < MaxRemovals /\ c \in Deletable
        /\ \E t \in T : tstate[t] = "live"
        /\ tstate' = [t \in Target |-> IF t \in T THEN "gone" ELSE tstate[t]]
        /\ pages' = [pages EXCEPT ![c] = [u \in Url |-> NoRow]]
        /\ orphan' = orphan \cup {u \in Url : HasRow(c, u)}
        /\ removals' = removals + 1
        /\ UNCHANGED <<writerVars, chanVars, procVars, site, changes, crashes,
                       failures, tainted, lost>>

-----------------------------------------------------------------------------
(* Environment *)

SiteChange(u, h) ==
    /\ changes < MaxChanges /\ h # site[u]
    /\ site' = [site EXCEPT ![u] = h]
    /\ changes' = changes + 1
    /\ UNCHANGED <<dbVars, writerVars, chanVars, procVars, crashes, failures,
                   removals, histVars>>

\* The process dies and main starts again: channels, counter, writer buffer,
\* tasks and half-done handlers are gone; SQLite and the index are not.
Crash ==
    /\ crashes < MaxCrashes
    /\ ipc = "mark" => FlushCrash
    /\ crashes' = crashes + 1
    /\ staged' = index /\ batch' = NoBatch /\ pending' = 0
    /\ marks' = NoBatch /\ ipc' = "run"
    /\ upsertQ' = <<>> /\ deleteQ' = <<>> /\ inflight' = 0
    /\ task' = [t \in Target |-> Idle] /\ removing' = NoRemovals
    /\ lost' = 0
    /\ tainted' = tainted \cup Marked
    /\ orphan' = orphan \cup QueuedDeletes
    /\ UNCHANGED <<dbVars, index, site, changes, failures, removals>>

-----------------------------------------------------------------------------

CrawlStep(t) ==
    \/ Dispatch(t) \/ Finish(t)
    \/ \E u \in Url : Load(t, u)
    \/ Answer(t) \/ OtherStatus(t) \/ FetchFails(t)
    \/ KeepRow(t) \/ SkipIndex(t)
    \/ BeginSend(t) \/ Send(t) \/ SendFails(t) \/ WriteRow(t)

IndexerStep == Recv \/ RecvDelete \/ Deadline \/ Mark \/ CommitFails \/ MarkFails

AdminStep ==
    \/ \E t \in Target : AddTarget(t) \/ RemoveTarget(t)
                           \/ SendDelete(t) \/ SendDeleteFails(t)
    \/ \E c \in Coll : DeleteCollection(c)

EnvStep == Crash \/ \E u \in Url, h \in Hash : SiteChange(u, h)

Next == (\E t \in Target : CrawlStep(t)) \/ IndexerStep \/ AdminStep \/ EnvStep

Spec == Init /\ [][Next]_vars

(***************************************************************************)
(* The fairness of the deployed system.  The runtime polls every ready     *)
(* task and the mpsc semaphore is first come, first served, so a step that *)
(* is enabled again and again is taken (strong fairness: the steps of the  *)
(* one thread disable each other for a moment).  That a target is          *)
(* dispatched again, that a run reaches each of its URLs again and that    *)
(* the site answers again are the recrawl interval, the BFS, and the       *)
(* assumption that the site is up infinitely often.                        *)
(***************************************************************************)
Progress(t) ==
    Dispatch(t) \/ KeepRow(t) \/ SkipIndex(t) \/ BeginSend(t) \/ Send(t) \/ WriteRow(t)

Drain == Recv \/ Deadline \/ Mark

Fairness ==
    /\ SF_vars(Drain)
    /\ \A t \in Target :
         /\ SF_vars(Progress(t)) /\ SF_vars(Answer(t))
         /\ \A u \in Url : SF_vars(Load(t, u))

FairSpec == Spec /\ Fairness

-----------------------------------------------------------------------------
(* Properties *)

\* indexed_content_hash, the only thing crawl_page asks before it skips the
\* indexer, names the content that is durable in the index under that row's
\* collection, unless something recorded in tainted happened since: another
\* collection took the URL over, a target removal deleted the document under
\* the row, or a flush was cut between its commit and its journal update.
JournalFaithful ==
    \A c \in Coll, u \in Url :
        /\ HasRow(c, u) /\ pages[c][u].indexed # None
        /\ <<c, u>> \notin tainted
        /\ ipc = "mark" => marks[c][u] = None
        => index[u] = [coll |-> c, content |-> pages[c][u].indexed]

\* Why JournalFaithful is inductive.  The writer's journal describes what it
\* has staged; documents differ from the last commit only where the journal
\* says so; a second collection's entry for a URL taints the first; and while
\* flush stands between commit and mark_indexed_batch, the journal it holds
\* describes the index and the writer is empty.
JournalInv ==
    /\ JournalFaithful
    /\ \A c \in Coll, u \in Url : ~HasRow(c, u) => pages[c][u].indexed = None
    /\ \A c \in Coll, u \in Url :
         batch[c][u] # None /\ <<c, u>> \notin tainted
            => staged[u] = [coll |-> c, content |-> batch[c][u]]
    /\ \A u \in Url : (\A c \in Coll : batch[c][u] = None) => staged[u] = index[u]
    /\ \A c, d \in Coll, u \in Url :
         batch[c][u] # None /\ c # d => <<d, u>> \in tainted
    /\ pending = 0 => batch = NoBatch
    /\ ipc # "mark" => marks = NoBatch
    /\ ipc = "mark" =>
         /\ batch = NoBatch
         /\ \A c \in Coll, u \in Url :
              marks[c][u] # None /\ <<c, u>> \notin tainted
                 => index[u] = [coll |-> c, content |-> marks[c][u]]

\* The doc comment of CrawledPageRow::indexed_content_hash taken literally:
\* between two flushes every journal entry names the committed document.
JournalTruth ==
    ipc # "mark" =>
        \A c \in Coll, u \in Url :
            pages[c][u].indexed # None
                => index[u] = [coll |-> c, content |-> pages[c][u].indexed]

\* Tasks that have counted a job and wait for room in the channel.
Sending == {t \in Target : task[t].pc = "send"}

\* What GET /api/admin/status shows (get_status): the counter, never negative.
indexing_pending_count == IF inflight > 0 THEN inflight ELSE 0

\* Every increment of indexing_inflight is matched by one job that is waiting
\* to be sent, queued, buffered or lost with the indexer: neither the failed
\* send, nor the batch flush, nor the delete's extra flush counts one twice.
InflightAccounting ==
    inflight = Len(upsertQ) + pending + Cardinality(Sending) + lost

\* "the counter reaches zero exactly when the index is durably caught up"
\* (flush): a zero on /api/admin/status means no job is on its way and no
\* staged document is waiting for a commit.
ZeroMeansDurable ==
    indexing_pending_count = 0 => upsertQ = <<>> /\ Sending = {} /\ staged = index

\* Search never returns a page that the operational store has forgotten, but
\* for the cases recorded in orphan: whatever is in the index has its row, or
\* a removal that names it is queued behind the running handler.
DocHasRow ==
    \A u \in Url :
        index[u].coll # None
            => \/ HasRow(index[u].coll, u)
               \/ u \in QueuedDeletes \/ u \in orphan

\* What can still take a document of c for u out of the index: the row a later
\* removal lists, a removal under way, or nothing any more (orphan).
Accounted(c, u) == HasRow(c, u) \/ u \in QueuedDeletes \/ u \in orphan

\* A queued job is ahead of its page's row only while the task that sent it
\* still has the row to write.
RowComing(j) ==
    \E t \in Target : /\ task[t].pc = "row" /\ task[t].url = j.url
                      /\ TargetColl[t] = j.coll /\ index_url(t, j.url) = j.url

\* Why DocHasRow is inductive.  It holds of the document in the index because
\* it holds of the one staged for the next commit, and of that one because it
\* holds of every queued job, or will once the sender has written its row; a
\* removal queues every row it cascades away because a row's owner belongs to
\* the row's collection, and overwrites no list because a target is removed
\* only once.
DocInv ==
    /\ DocHasRow
    /\ \A u \in Url : staged[u].coll # None => Accounted(staged[u].coll, u)
    /\ \A i \in DOMAIN upsertQ :
         Accounted(upsertQ[i].coll, upsertQ[i].url) \/ RowComing(upsertQ[i])
    /\ \A c \in Coll, u \in Url : HasRow(c, u) => TargetColl[pages[c][u].target] = c
    /\ \A t \in Target : tstate[t] # "gone" => removing[t] = {}

\* What the journal is for: whatever the interleaving of flushes and crashes,
\* once the site stops changing, the index ends up with the content the site
\* serves, for good.
Convergence ==
    \A t \in Target : \A u \in InPrefix[t] :
        <>[](tstate[t] = "live" /\ IndexUrl[u] = u => index[u].content = site[u])

=============================================================================
