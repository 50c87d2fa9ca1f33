----------------------------- MODULE Discovery -----------------------------
(***************************************************************************)
(* How crawl tasks come by the URLs they fetch: robots.rs, sitemap.rs and  *)
(* the ends of driver.rs and page.rs that meet them.                       *)
(*                                                                         *)
(* Tasks run concurrently and share the robots cache.  A task that misses  *)
(* it fetches robots.txt and inserts what came of it, whatever others have *)
(* inserted meanwhile.  The order in which a task takes its pages, their   *)
(* politeness delays and rate limits are CrawlDriver's.                    *)
(***************************************************************************)
EXTENDS Urls

CONSTANTS
    Task,
    Added,         \* [Task -> [typed, answer]]: the prefix as the admin added it
    Robots,        \* origins -> [disallow, sitemaps]: the robots.txt there are
    Sitemap,       \* sitemap URLs -> [index, locs]: the documents there are
    Page,          \* page URLs -> page, see Urls
    MAX_SITEMAPS_PER_TARGET, MaxUrls

IsSeq(s) == s \in Seq(Range(s))

\* robots.txt files and sitemaps list their entries, in their order.
ASSUME DiscoveryAssumption ==
    /\ MAX_SITEMAPS_PER_TARGET \in Nat \ {0} /\ MaxUrls \in Nat \ {0}
    /\ \A o \in DOMAIN Robots : IsSeq(Robots[o].sitemaps)
    /\ \A u \in DOMAIN Sitemap : IsSeq(Sitemap[u].locs)

\* A target whose URL does not parse, or that http does not serve, is not
\* crawled; what a page or a sitemap refers to may be either.
ASSUME ReferencesAssumption ==
    LET Reference == ParsedUrl \cup {None}
    IN  /\ \A t \in Task :
             /\ Added[t].typed \in ParsedUrl /\ Http(Added[t].typed)
             /\ Added[t].answer # None =>
                  Added[t].answer.final \in ParsedUrl /\ Http(Added[t].answer.final)
        /\ \A u \in DOMAIN Page :
             /\ Page[u].final \in ParsedUrl
             /\ IsSeq(Page[u].tags) /\ \A i \in DOMAIN Page[u].tags : Page[u].tags[i].url \in Reference
             /\ \A h \in Range(Page[u].hrefs) : h.url \in Reference
        /\ \A u \in DOMAIN Sitemap : \A i \in DOMAIN Sitemap[u].locs : Sitemap[u].locs[i] \in Reference

VARIABLES
    cache,       \* RobotsChecker.cache: origins -> rules
    task,        \* [Task -> task]
    failed       \* history: origins some robots fetch failed for

taskVars == <<cache, task, failed>>

\* ctx.url_prefix, and the seed a crawl starts from
Prefix == [t \in Task |-> StoredPrefix(Added[t].typed, Added[t].answer)]
Seed == [t \in Task |-> normalize_url(Prefix[t])]

\* What a fresh page and the entries of a sitemap come to for a task.
Fresh == [t \in Task |-> [u \in DOMAIN Page |->
             [url |-> index_url(u, Page[u], Prefix[t]),
              links |-> in_prefix_links(u, Page[u], Prefix[t]),
              hosts |-> OutlinkHosts(Page[u], Prefix[t])]]]
Locs == [t \in Task |-> [u \in DOMAIN Sitemap |->
            [k \in DOMAIN Sitemap[u].locs |->
                LET n == normalize_url(Sitemap[u].locs[k])
                IN  [url |-> n, inside |-> is_in_prefix(n, Prefix[t])]]]]

AllowAll == [disallow |-> {}, sitemaps |-> <<>>]
\* Mutant: the www. of a host does not count.
OriginWithoutWww(u) == [scheme |-> u.scheme, host |-> StripWww(u.host), port |-> u.port]
OriginOf(u) == [scheme |-> u.scheme, host |-> u.host, port |-> u.port]
Allowed(rules, u) == \A d \in rules.disallow : ~IsPrefix(d, u.path)
Cached(u) == OriginOf(u) \in DOMAIN cache
is_allowed(u) == Allowed(cache[OriginOf(u)], u)

\* wait: the origin whose robots.txt is under way.  todo, next, visited, depth,
\* found: discover_urls.  locs: entries of the current document still to see.
\* frontier: the visited set of crawl_target.  crawled: its pages done with.
\* fetched: URLs requested.  filed: where contents were sent to.  suggested:
\* hosts recorded for the admin.
Start ==
    [pc |-> "delay", wait |-> None, todo |-> <<>>, next |-> <<>>, visited |-> {}, depth |-> 1,
     found |-> {}, locs |-> <<>>, frontier |-> {}, crawled |-> {}, fetched |-> {}, filed |-> {},
     suggested |-> {}]

TaskInit ==
    /\ cache = <<>> /\ task = [t \in Task |-> Start]
    /\ failed = {}

-----------------------------------------------------------------------------
(* robots.rs *)

\* The URLs whose robots.txt the task must know for its next step.
Needs(t) ==
    LET s == task[t]
    IN  CASE s.pc = "delay" -> {Seed[t]}
          [] s.pc = "sitemap" /\ s.todo # <<>> /\ Head(s.todo) \notin s.visited -> {Head(s.todo)}
          [] s.pc = "loc" /\ s.locs # <<>> /\ Head(s.locs).inside -> {Head(s.locs).url}
          [] s.pc = "pages" -> s.frontier \ s.crawled
          [] OTHER -> {}

TaskTypeOK ==
    /\ \A o \in DOMAIN cache : cache[o] = AllowAll \/ (o \in DOMAIN Robots /\ cache[o] = Robots[o])
    /\ \A t \in Task :
         /\ task[t].pc \in {"delay", "sitemap", "loc", "pages", "end"}
         /\ task[t].wait # None => \E u \in Needs(t) : task[t].wait = OriginOf(u)
         /\ task[t].depth \in {0, 1} /\ Cardinality(task[t].found) <= MaxUrls
         /\ task[t].crawled \subseteq task[t].frontier
    /\ failed \subseteq DOMAIN cache

\* ensure_cached misses
AskRobots(t, u) ==
    /\ task[t].wait = None /\ u \in Needs(t) /\ ~Cached(u)
    /\ task' = [task EXCEPT ![t].wait = OriginOf(u)]
    /\ UNCHANGED <<cache, failed>>

CacheInsert(o, rules) == [p \in DOMAIN cache \cup {o} |-> IF p = o THEN rules ELSE cache[p]]

\* The rest of ensure_cached: rules, or allow all after an error, a status that
\* is no success, or a body that does not parse.
RobotsDone(t, rules) ==
    /\ cache' = CacheInsert(task[t].wait, rules)
    /\ task' = [task EXCEPT ![t].wait = None]
    /\ failed' = IF rules = AllowAll THEN failed \cup {task[t].wait} ELSE failed

RobotsArrive(t) ==
    /\ task[t].wait # None /\ task[t].wait \in DOMAIN Robots
    /\ RobotsDone(t, Robots[task[t].wait])

\* Mutant: a request no answer comes to is never given up.
WaitsForever(t) == FALSE /\ RobotsDone(t, AllowAll)
RobotsFail(t) ==
    /\ task[t].wait # None
    /\ RobotsDone(t, AllowAll)

-----------------------------------------------------------------------------
(* sitemap.rs *)

\* Task t at pc, with all it needs at hand.
At(t, pc) == task[t].pc = pc /\ task[t].wait = None
Step(t, s) == task' = [task EXCEPT ![t] = s] /\ UNCHANGED <<cache, failed>>

DefaultSitemap(u) == [u EXCEPT !.path = <<"/", "sitemap.xml">>, !.query = <<>>]
Candidates(rules, u) ==
    IF DefaultSitemap(u) \in Range(rules.sitemaps) THEN rules.sitemaps
    ELSE Append(rules.sitemaps, DefaultSitemap(u))
Truncate(s) == SubSeq(s, 1, IF Len(s) < MAX_SITEMAPS_PER_TARGET THEN Len(s) ELSE MAX_SITEMAPS_PER_TARGET)

\* crawl_target reads the delay and discover_urls the sitemaps from the cache.
Begin(t) ==
    /\ At(t, "delay") /\ Cached(Seed[t])
    /\ Step(t, [task[t] EXCEPT !.pc = "sitemap", !.frontier = {Seed[t]},
                  !.todo = Truncate(Candidates(cache[OriginOf(Seed[t])], Seed[t]))])

\* Mutant: the documents already visited are not counted.
RoomInRound(visited, next) == Len(next) < MAX_SITEMAPS_PER_TARGET
Room(visited, next) == Len(next) + Cardinality(visited) < MAX_SITEMAPS_PER_TARGET
AddChild(visited, next, child) ==
    IF child \notin visited /\ Room(visited, next) THEN Append(next, child) ELSE next

\* The loop over the entries of an index; listed[n] is next after n of them.
AddChildren(visited, next, locs) ==
    LET listed[n \in 0..Len(locs)] ==
          IF n = 0 THEN next ELSE AddChild(visited, listed[n - 1], locs[n])
    IN  listed[Len(locs)]

\* What the document at u holds for the task.
Read(t, s, u) ==
    IF Sitemap[u].index
    THEN [s EXCEPT !.next = AddChildren(s.visited, @, Sitemap[u].locs)]
    ELSE [s EXCEPT !.pc = "loc", !.locs = Locs[t][u]]

\* One turn of the loop over to_visit.
VisitSitemap(t) ==
    LET u == Head(task[t].todo)
        s == [task[t] EXCEPT !.todo = Tail(@), !.visited = @ \cup {u}]
        f == [s EXCEPT !.fetched = @ \cup {u}]
    IN  /\ At(t, "sitemap") /\ task[t].todo # <<>>
        /\ \/ u \in task[t].visited /\ Step(t, s)
           \/ u \notin task[t].visited /\ Cached(u) /\ ~is_allowed(u) /\ Step(t, s)
           \/ u \notin task[t].visited /\ Cached(u) /\ is_allowed(u)
                /\ \/ Step(t, f)                                       \* no document
                   \/ u \in DOMAIN Sitemap /\ Step(t, Read(t, f, u))

Seeded(s) == [s EXCEPT !.pc = "pages", !.frontier = @ \cup s.found, !.todo = <<>>, !.next = <<>>, !.locs = <<>>]

Full(found) == Cardinality(found) >= MaxUrls

\* One turn of the loop over the entries of a document.
VisitLoc(t) ==
    LET l == Head(task[t].locs)
        s == [task[t] EXCEPT !.locs = Tail(@)]
        f == [s EXCEPT !.found = @ \cup {l.url}]
    IN  /\ At(t, "loc") /\ task[t].locs # <<>>
        /\ \/ ~l.inside /\ Step(t, s)
           \/ l.inside /\ Cached(l.url) /\ ~is_allowed(l.url) /\ Step(t, s)
           \/ l.inside /\ Cached(l.url) /\ is_allowed(l.url)
                /\ Step(t, IF Full(f.found) THEN Seeded(f) ELSE f)

EndDocument(t) ==
    /\ At(t, "loc") /\ task[t].locs = <<>>
    /\ Step(t, [task[t] EXCEPT !.pc = "sitemap"])

EndRound(t) ==
    /\ At(t, "sitemap") /\ task[t].todo = <<>>
    /\ Step(t, IF task[t].next = <<>> \/ task[t].depth = 0 THEN Seeded(task[t])
               ELSE [task[t] EXCEPT !.depth = @ - 1, !.todo = task[t].next, !.next = <<>>])

-----------------------------------------------------------------------------
(* The pages *)

\* crawl_page of a page of the frontier, and the driver's use of its links.
CrawlPage(t, u) ==
    LET s == [task[t] EXCEPT !.crawled = @ \cup {u}]
        f == [s EXCEPT !.fetched = @ \cup {u}]
    IN  /\ At(t, "pages") /\ u \in task[t].frontier \ task[t].crawled /\ Cached(u)
        /\ \/ ~is_allowed(u) /\ Step(t, s)
           \/ is_allowed(u)
                /\ \/ Step(t, f)                                       \* no fresh page
                   \/ u \in DOMAIN Page
                        /\ Step(t, [f EXCEPT
                             !.filed = @ \cup {Fresh[t][u].url},
                             !.frontier = @ \cup Fresh[t][u].links,
                             !.suggested = @ \cup Fresh[t][u].hosts])

EndCrawl(t) ==
    /\ At(t, "pages") /\ task[t].frontier = task[t].crawled
    /\ Step(t, [task[t] EXCEPT !.pc = "end"])

TaskStep(t) ==
    \/ \E u \in Needs(t) : AskRobots(t, u)
    \/ Begin(t) \/ VisitSitemap(t) \/ VisitLoc(t) \/ EndDocument(t) \/ EndRound(t)
    \/ \E u \in task[t].frontier : CrawlPage(t, u)
    \/ EndCrawl(t)

TaskNext == \E t \in Task : TaskStep(t) \/ RobotsArrive(t) \/ RobotsFail(t)

TaskSpec == TaskInit /\ [][TaskNext]_taskVars

\* A task is polled while it can go on, and the client's timeout ends a request
\* no answer comes to.
FairTaskSpec == TaskSpec /\ \A t \in Task : WF_taskVars(TaskStep(t)) /\ WF_taskVars(RobotsFail(t))

Done == \A t \in Task : task[t].pc = "end"

-----------------------------------------------------------------------------
(* Properties *)

\* What a task crawls is in normal form and on the site of its target, however
\* sitemaps, redirects, canonical links and hrefs spell it (is_in_prefix,
\* discover_urls, crawl_page).  Contents are filed under a URL the task crawls
\* itself, so never outside the prefix (page.rs: "a site can't trick us into
\* indexing content we weren't authorized to crawl"), and of the hosts links
\* leave the site for, none suggested to the admin is on the blacklist or under
\* a host that is (is_blacklisted_outlink_host, host_of).
FrontierOnSite ==
    \A t \in Task :
        /\ \A u \in task[t].frontier :
             normalize_url(u) = u /\ SameSite(u, Prefix[t]) /\ is_in_prefix(u, Prefix[t])
        /\ task[t].filed \subseteq task[t].frontier
        /\ \A host \in task[t].suggested : \A b \in BLACKLISTED_OUTLINK_HOSTS : ~IsSuffix(b, host)

\* No page is crawled under two spellings in one run (normalize_url: "order-only
\* variants dedupe to the same URL").
NoPageTwice ==
    \A t \in Task : \A u, v \in task[t].frontier : u # v => ~SamePage(u, v)

\* What an origin's robots.txt disallows is requested only if some fetch of
\* that robots.txt failed (is_allowed, ensure_cached).
RobotsObeyed ==
    \A t \in Task : \A u \in task[t].fetched :
        Allowed(Robots[[scheme |-> u.scheme, host |-> u.host, port |-> u.port]], u)
          \/ [scheme |-> u.scheme, host |-> u.host, port |-> u.port] \in failed

\* The sitemap documents of a target are bounded although an index lists more:
\* by twice the cap less one, since a child is counted when it is listed and the
\* candidates after it are not; so are the URLs they seed the crawl with
\* (discover_urls).
DocumentsBounded ==
    /\ TaskTypeOK
    /\ \A t \in Task : Cardinality(task[t].visited) <= 2 * MAX_SITEMAPS_PER_TARGET - 1

\* Every run ends, though sitemaps refer to each other and origins stay silent.
Terminates == <>Done

=============================================================================
