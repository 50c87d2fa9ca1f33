----------------------------- MODULE CrawlDriver -----------------------------
(***************************************************************************)
(* One crawl run: crawl_target's breadth-first walk over the pages of a    *)
(* prefix (crawler/driver.rs).  What a page's fetch does to the database   *)
(* and the index is IndexPipeline's business; here crawl_page is reduced   *)
(* to its four outcomes, chosen by the site at every fetch.  The order of  *)
(* the links on a page and of a sitemap's entries is left open.            *)
(***************************************************************************)
EXTENDS Integers, Sequences, FiniteSets, Functions

CONSTANTS
    Url,          \* the pages of the prefix, normalised
    Seed,
    Links,        \* [Url -> SUBSET Url]: in-prefix links, redirect and canonical
    Sitemap,      \* SUBSET Url: what sitemap discovery finds when it works
    MAX_PAGES,    \* max_pages_per_run
    MAX_429,      \* the run is given up at this many 429s
    politeness_delay,   \* seconds between fetches, as configured
    CrawlDelays,  \* what robots.txt may ask for: seconds, or None
    RetryAfters,  \* what a 429 may ask for: seconds, or None
    MAX_BACKOFF,  \* 120 s: the longest sleep after a 429
    None

ASSUME GraphAssumption ==
    /\ IsFiniteSet(Url) /\ Seed \in Url
    /\ Links \in [Url -> SUBSET Url] /\ Sitemap \subseteq Url
ASSUME LimitAssumption == MAX_PAGES \in Nat /\ MAX_429 \in Nat \ {0}
ASSUME DelayAssumption ==
    /\ politeness_delay \in Nat /\ MAX_BACKOFF \in Nat \ {0} /\ None \notin Nat
    /\ CrawlDelays \subseteq Nat \cup {None} /\ RetryAfters \subseteq Nat \cup {None}

VARIABLES
    pc,            \* where crawl_target stands
    queue, visited,
    url,           \* the popped page, while pc is "fetch" or "backoff"
    fetched, errored, consecutive_429s,
    robots_delay,  \* the seed's Crawl-Delay, or None
    nap,           \* the sleep under way, or the last one
    outcome,       \* history: how each page's last fetch ended
    slept, owed    \* history: seconds slept since the last fetch, and those due

napVars == <<robots_delay, nap, slept, owed>>
vars == <<pc, queue, visited, url, fetched, errored, consecutive_429s, outcome, napVars>>

Outcomes == {"none", "fresh", "notmod", "other", "error"}
Settled == {u \in Url : outcome[u] # "none"}
Waiting == {queue[i] : i \in DOMAIN queue}
InHand == IF pc \in {"fetch", "backoff", "aborted"} THEN {url} ELSE {}

\* Every way to put the elements of S into a sequence without repetition.
Orders(S) == Bijection(1..Cardinality(S), S)

WalkTypes ==
    /\ pc \in {"start", "loop", "fetch", "sleep", "backoff", "done", "aborted", "failed"}
    /\ queue \in Seq(Url) /\ visited \subseteq Url /\ url \in Url
    /\ fetched \in 0..MAX_PAGES /\ errored \in Nat
    /\ outcome \in [Url -> Outcomes]

\* nap, slept and owed are compared by Polite.
TypeOK ==
    /\ WalkTypes
    /\ consecutive_429s \in 0..MAX_429 /\ robots_delay \in CrawlDelays \cup {None}

Larger(a, b) == IF a > b THEN a ELSE b
Smaller(a, b) == IF a < b THEN a ELSE b

Init ==
    /\ pc = "start"
    /\ queue = <<>> /\ visited = {} /\ url = Seed
    /\ fetched = 0 /\ errored = 0 /\ consecutive_429s = 0
    /\ outcome = [u \in Url |-> "none"]
    /\ robots_delay = None /\ nap = 0 /\ slept = 0 /\ owed = 0

\* The Crawl-Delay of the seed, then seed and sitemap; both are best effort, any
\* failure leaves them empty.
Start ==
    /\ pc = "start"
    /\ \E sm \in {{}, Sitemap} : \E s \in Orders(sm \ {Seed}) :
         /\ queue' = <<Seed>> \o s
         /\ visited' = sm \cup {Seed}
    /\ robots_delay' \in CrawlDelays \cup {None}
    /\ pc' = "loop"
    /\ UNCHANGED <<url, fetched, errored, consecutive_429s, outcome, nap, slept, owed>>

\* The seed does not parse: crawl_target returns an error before it starts.
StartFails ==
    /\ pc = "start" /\ pc' = "failed"
    /\ UNCHANGED <<queue, visited, url, fetched, errored, consecutive_429s, outcome, napVars>>

MoreToDo(q, n) == q # <<>> /\ n < MAX_PAGES

Pop ==
    /\ pc = "loop" /\ MoreToDo(queue, fetched)
    /\ url' = Head(queue) /\ queue' = Tail(queue)
    /\ pc' = "fetch"
    /\ UNCHANGED <<visited, fetched, errored, consecutive_429s, outcome, napVars>>

Finish ==
    /\ pc = "loop" /\ ~MoreToDo(queue, fetched)
    /\ pc' = "done"
    /\ UNCHANGED <<queue, visited, url, fetched, errored, consecutive_429s, outcome, napVars>>

\* Mutant: the links are queued without being marked visited.
EnqueueUnmarked(links) ==
    /\ \E s \in Orders(links \ visited) : queue' = queue \o s
    /\ UNCHANGED visited

\* Push the links not yet visited, marking them as they are pushed.
Enqueue(links) ==
    /\ \E s \in Orders(links \ visited) : queue' = queue \o s
    /\ visited' = visited \cup links

NextFetched(kind) == fetched + 1

\* Mutant: a Crawl-Delay replaces the configured delay.
delayOfRobots(configured, crawl) == IF crawl = None THEN configured ELSE crawl
effective_delay_for_run(configured, crawl) ==
    IF crawl = None THEN configured ELSE Larger(configured, crawl)

effective_delay == effective_delay_for_run(politeness_delay, robots_delay)

\* A fetch has ended: secs of sleep follow, due is what was asked of us.
CrawlDelay == IF robots_delay = None THEN 0 ELSE robots_delay
Nap(secs, due) ==
    nap' = secs /\ slept' = 0 /\ owed' = due /\ UNCHANGED robots_delay

\* crawl_page returned Ok.  Only a fresh body yields links.
Answered(kind) ==
    /\ pc = "fetch"
    /\ consecutive_429s' = 0
    /\ fetched' = NextFetched(kind)
    /\ outcome' = [outcome EXCEPT ![url] = kind]
    /\ IF kind = "fresh" THEN Enqueue(Links[url]) ELSE UNCHANGED <<queue, visited>>
    /\ pc' = IF MoreToDo(queue', fetched') THEN "sleep" ELSE "loop"
    /\ Nap(effective_delay, Larger(politeness_delay, CrawlDelay))
    /\ UNCHANGED <<url, errored>>

\* Any other error: robots, transport, a body that is not HTML, the database.
\* The 429 counter is not touched.
Errored ==
    /\ pc = "fetch"
    /\ errored' = errored + 1
    /\ outcome' = [outcome EXCEPT ![url] = "error"]
    /\ pc' = IF MoreToDo(queue, fetched) THEN "sleep" ELSE "loop"
    /\ Nap(effective_delay, Larger(politeness_delay, CrawlDelay))
    /\ UNCHANGED <<queue, visited, url, fetched, consecutive_429s>>

\* The politeness delay.
Wake ==
    /\ pc = "sleep" /\ pc' = "loop" /\ slept' = slept + nap
    /\ UNCHANGED <<queue, visited, url, fetched, errored, consecutive_429s, outcome,
                   robots_delay, nap, owed>>

\* Mutant: the run never gives up on a site that keeps answering 429.
NeverGiveUp(n) == FALSE
GiveUp(n) == n >= MAX_429

\* 1 << (n - 1) seconds
rate_limit_backoff(n) == IF n >= 5 THEN None ELSE <<1, 2, 4, 8>>[n]

sleep_dur(n, retry_after) ==
    LET backoff == rate_limit_backoff(n)
    IN  Smaller(IF retry_after # None THEN retry_after
                ELSE IF backoff = None THEN 32 ELSE backoff, MAX_BACKOFF)

RateLimited(retry_after) ==
    /\ pc = "fetch"
    /\ consecutive_429s' = IF consecutive_429s < MAX_429 THEN consecutive_429s + 1
                           ELSE consecutive_429s
    /\ \/ /\ GiveUp(consecutive_429s + 1)
          /\ pc' = "aborted" /\ UNCHANGED napVars
       \/ /\ ~GiveUp(consecutive_429s + 1)
          /\ pc' = "backoff"
          /\ Nap(sleep_dur(consecutive_429s + 1, retry_after),
                 IF retry_after = None THEN 1 ELSE Smaller(retry_after, MAX_BACKOFF))
    /\ UNCHANGED <<queue, visited, url, fetched, errored, outcome>>

\* Mutant: the page is not put back after the back-off.
RequeueDropped == queue
Requeue == <<url>> \o queue

\* The back-off sleep ends: the page goes back to the front.
Retry ==
    /\ pc = "backoff"
    /\ queue' = Requeue
    /\ pc' = "loop" /\ slept' = slept + nap
    /\ UNCHANGED <<visited, url, fetched, errored, consecutive_429s, outcome,
                   robots_delay, nap, owed>>

Ended == pc \in {"done", "aborted", "failed"} /\ UNCHANGED vars

Step ==
    \/ Start \/ StartFails \/ Pop \/ Finish
    \/ \E kind \in {"fresh", "notmod", "other"} : Answered(kind)
    \/ Errored \/ Wake \/ Retry
    \/ \E retry_after \in RetryAfters : RateLimited(retry_after)

Next == Step \/ Ended

\* The run is one future that the runtime polls until it returns.
Spec == Init /\ [][Next]_vars /\ WF_vars(Step)

-----------------------------------------------------------------------------
(* Properties *)

\* Nothing that was discovered is dropped or crawled twice: visited is split
\* exactly into the queue (without repetition), the page in hand and the pages
\* whose fetch has ended, through back-offs, re-queues and errors.
NothingLostNothingTwice ==
    /\ visited = Waiting \cup InHand \cup Settled
    /\ Waiting \cap Settled = {} /\ InHand \cap Settled = {}
    /\ Waiting \cap InHand = {}
    /\ \A i, j \in DOMAIN queue : queue[i] = queue[j] => i = j

\* The counters tell the truth about the walk: every settled page is counted
\* once, and the run never exceeds max_pages_per_run.
CountsExact ==
    /\ fetched + errored = Cardinality(Settled)
    /\ errored = Cardinality({u \in Url : outcome[u] = "error"})
    /\ fetched <= MAX_PAGES

\* A run that ends with an empty queue has followed every link of every page
\* it got a body for.
FrontierExhausted ==
    pc = "done" /\ queue = <<>>
        => \A u \in Url : outcome[u] = "fresh" => Links[u] \subseteq Settled

\* "always respect whichever constraint is more conservative"
\* (effective_delay_for_run): between two requests the walk has slept at least
\* the configured delay and the site's Crawl-Delay, also when the page before was
\* an error or brought the links that fill the queue again; after a 429 it has
\* slept what the site asked for (up to MAX_BACKOFF), or at least a second.
Polite == [][pc = "loop" /\ pc' = "fetch" => slept >= owed]_vars

\* Every run ends, however the site mixes answers, errors and 429s.
EveryRunEnds == <>(pc \in {"done", "aborted", "failed"})

=============================================================================
