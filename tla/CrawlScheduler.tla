--------------------------- MODULE CrawlScheduler ---------------------------
(***************************************************************************)
(* Which crawl targets are crawled when (crawler/scheduler.rs), against    *)
(* admin handlers that add, remove, re-time and pause on other threads and *)
(* against restarts.  A run is opaque here: CrawlDriver shows that it ends *)
(* and IndexPipeline what it does.                                         *)
(*                                                                         *)
(* Time is kept as ages that saturate at MaxAge: the age of a timestamp is *)
(* how long ago it was.  MaxAge is at least every recrawl interval, so a   *)
(* saturated age is "due" under each of them, and so is                    *)
(* last_crawled_at IS NULL, which is represented by MaxAge.                *)
(***************************************************************************)
EXTENDS Integers, Sequences, SequencesExt

CONSTANTS
    Target,
    Interval,       \* recrawl intervals the admin may choose
    InitialTargets,
    MaxAge, MaxInflight, MaxRestarts     \* bounds

ASSUME IntervalAssumption ==
    /\ MaxAge \in Nat /\ Interval # {} /\ Interval \subseteq 0..MaxAge
    /\ InitialTargets \subseteq Target
ASSUME SchedulerBounds == MaxInflight \in Nat /\ MaxRestarts \in Nat

VARIABLES
    tstate, interval, age,   \* crawl_targets: existence, recrawl_interval_s,
                             \* age of last_crawled_at
    paused,                  \* AppState::crawl_paused
    full,                    \* is the index at max_index_bytes?
    tick,                    \* "idle", or "list" between the checks and the query
    running,                 \* the HashSet of target ids with a task
    runs,                    \* [Target -> Seq(age)]: the tasks, by age of their now_unix
    inflight,                \* indexing_inflight
    restarts

rowVars == <<tstate, interval, age>>
vars == <<rowVars, paused, full, tick, running, runs, inflight, restarts>>

Ages == 0..MaxAge
Older(a) == IF a < MaxAge THEN a + 1 ELSE a

TypeOK ==
    /\ tstate \in [Target -> {"unborn", "live", "gone"}]
    /\ interval \in [Target -> Interval] /\ age \in [Target -> Ages]
    /\ paused \in BOOLEAN /\ full \in BOOLEAN
    /\ tick \in {"idle", "list"}
    /\ running \subseteq Target /\ runs \in [Target -> Seq(Ages)]
    /\ inflight \in Nat /\ restarts \in Nat

Init ==
    /\ tstate = [t \in Target |-> IF t \in InitialTargets THEN "live" ELSE "unborn"]
    /\ interval \in [Target -> Interval] /\ age = [t \in Target |-> MaxAge]
    /\ paused = FALSE /\ full \in BOOLEAN
    /\ tick = "idle" /\ running = {} /\ runs = [t \in Target |-> <<>>]
    /\ inflight = 0 /\ restarts = 0

-----------------------------------------------------------------------------
(* The ticker *)

\* Mutant: the tick does not look at the pause flag.
CrawlAllowedUnpaused(used) == ~used
CrawlAllowed(used) == ~paused /\ ~used

\* tick_once up to the query.  A size scan that fails (a segment file merged
\* away under the directory walk) counts as an empty index.
CheckTick ==
    /\ tick = "idle"
    /\ \E used \in {full, FALSE} : CrawlAllowed(used)
    /\ tick' = "list"
    /\ UNCHANGED <<rowVars, paused, full, running, runs, inflight, restarts>>

list_due_targets == {t \in Target : tstate[t] = "live" /\ age[t] >= interval[t]}

\* Mutant: the running set is not consulted.
ToSpawnAlways == list_due_targets
ToSpawn == list_due_targets \ running

\* The query and the spawn loop.
Dispatch ==
    /\ tick = "list" /\ tick' = "idle"
    /\ running' = running \cup ToSpawn
    /\ runs' = [t \in Target |-> IF t \in ToSpawn THEN Append(runs[t], 0) ELSE runs[t]]
    /\ UNCHANGED <<rowVars, paused, full, inflight, restarts>>

\* The query fails, or the tick panics: logged, and the loop goes on.
TickFails ==
    /\ tick = "list" /\ tick' = "idle"
    /\ UNCHANGED <<rowVars, paused, full, running, runs, inflight, restarts>>

-----------------------------------------------------------------------------
(* Per-target tasks *)

\* A page of the run is sent to the indexer.
Index(t) ==
    /\ runs[t] # <<>> /\ inflight < MaxInflight
    /\ inflight' = inflight + 1
    /\ UNCHANGED <<rowVars, paused, full, tick, running, runs, restarts>>

\* Mutant: the id stays in the running set.
ReleasedNever(t) == running
Released(t) == running \ {t}

EndRun(t, i) ==
    /\ runs' = [runs EXCEPT ![t] = RemoveAt(@, i)]
    /\ running' = Released(t)
    /\ UNCHANGED <<tstate, interval, paused, full, tick, inflight, restarts>>

\* crawl_target returned Ok, given up on 429s included: last_crawled_at becomes
\* the time of the dispatch, unless the row is gone.
RunSucceeds(t) ==
    \E i \in DOMAIN runs[t] :
        /\ age' = IF tstate[t] = "live" THEN [age EXCEPT ![t] = runs[t][i]] ELSE age
        /\ EndRun(t, i)

\* An error or a panic: last_crawled_at is not touched.
RunFails(t) ==
    \E i \in DOMAIN runs[t] : UNCHANGED age /\ EndRun(t, i)

Undrained == 0..(inflight - 1)

\* The indexer commits some of what it holds.
Commit ==
    /\ inflight > 0
    /\ \E n \in Undrained : inflight' = n
    /\ UNCHANGED <<rowVars, paused, full, tick, running, runs, restarts>>

-----------------------------------------------------------------------------
(* Admin handlers *)

AddTarget(t, iv) ==
    /\ tstate[t] = "unborn"
    /\ tstate' = [tstate EXCEPT ![t] = "live"]
    /\ interval' = [interval EXCEPT ![t] = iv]
    /\ age' = [age EXCEPT ![t] = MaxAge]
    /\ UNCHANGED <<paused, full, tick, running, runs, inflight, restarts>>

RemoveTarget(t) ==
    /\ tstate[t] = "live"
    /\ tstate' = [tstate EXCEPT ![t] = "gone"]
    /\ UNCHANGED <<interval, age, paused, full, tick, running, runs, inflight, restarts>>

SetInterval(t, iv) ==
    /\ tstate[t] = "live"
    /\ interval' = [interval EXCEPT ![t] = iv]
    /\ UNCHANGED <<tstate, age, paused, full, tick, running, runs, inflight, restarts>>

SetPaused(b) ==
    /\ paused' = b
    /\ UNCHANGED <<rowVars, full, tick, running, runs, inflight, restarts>>

-----------------------------------------------------------------------------
(* Environment *)

\* A tick is instantaneous next to the clock.
Time ==
    /\ tick = "idle"
    /\ age' = [t \in Target |-> Older(age[t])]
    /\ runs' = [t \in Target |-> [i \in DOMAIN runs[t] |-> Older(runs[t][i])]]
    /\ UNCHANGED <<tstate, interval, paused, full, tick, running, inflight, restarts>>

IndexSize ==
    /\ full' = ~full
    /\ UNCHANGED <<rowVars, paused, tick, running, runs, inflight, restarts>>

\* The process restarts; the pause flag is not persisted.
Restart ==
    /\ restarts < MaxRestarts
    /\ restarts' = restarts + 1
    /\ paused' = FALSE /\ tick' = "idle"
    /\ running' = {} /\ runs' = [t \in Target |-> <<>>] /\ inflight' = 0
    /\ UNCHANGED <<rowVars, full>>

-----------------------------------------------------------------------------

Next ==
    \/ CheckTick \/ Dispatch \/ TickFails
    \/ \E t \in Target : Index(t) \/ RunSucceeds(t) \/ RunFails(t)
    \/ Commit
    \/ \E t \in Target, iv \in Interval : AddTarget(t, iv) \/ SetInterval(t, iv)
    \/ \E t \in Target : RemoveTarget(t)
    \/ \E b \in BOOLEAN : SetPaused(b)
    \/ Time \/ IndexSize \/ Restart

Spec == Init /\ [][Next]_vars

\* The ticker fires for ever, the clock runs, a query that is tried for ever
\* succeeds now and then (strong fairness), and every run ends (CrawlDriver).
Fairness ==
    /\ WF_vars(CheckTick) /\ SF_vars(Dispatch) /\ SF_vars(Time)
    /\ \A t \in Target : WF_vars(RunSucceeds(t) \/ RunFails(t))

FairSpec == Spec /\ Fairness

-----------------------------------------------------------------------------
(* Properties *)

\* A target never has two crawls at once, and the running set, which is kept
\* apart from the tasks and released by hand after a result, an error or a
\* panic, names exactly the targets that have one.
OneRunPerTarget ==
    \A t \in Target :
        /\ Len(runs[t]) <= 1
        /\ t \in running <=> runs[t] # <<>>

\* last_crawled_at never moves back: whatever run is still to write it started
\* no earlier than the run that wrote it last, through removals and re-timings.
LastCrawledAdvances ==
    \A t \in Target : \A i \in DOMAIN runs[t] :
        tstate[t] = "live" => runs[t][i] <= age[t]

Quiet == \A t \in Target : runs[t] = <<>>

\* A pause that lasts takes effect: the runs it found, and those of a tick that
\* had read the flag just before, end, and no other starts.
PauseDrains == <>[]paused => <>[]Quiet

\* No target is forgotten: while crawling is allowed, a live target is crawled
\* again and again, whatever its earlier runs ended with and however often its
\* interval was changed.
Recrawled ==
    \A t \in Target :
        <>[](~paused /\ ~full /\ tstate[t] = "live")
            => []<>(runs[t] # <<>>) /\ []<>(runs[t] = <<>>)

=============================================================================
