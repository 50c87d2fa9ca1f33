------------------------ MODULE CrawlSchedulerProofs ------------------------
(***************************************************************************)
(* For any set of targets and intervals: a target has at most one crawl,   *)
(* the running set agrees with the tasks, and last_crawled_at never moves  *)
(* back.  The conjunction is inductive as it stands.  For any robots.txt   *)
(* files, sitemaps and pages: what the crawls request, and that they keep  *)
(* to their site, a page in one spelling (Discovery, Urls).                *)
(***************************************************************************)
EXTENDS CrawlScheduler, Discovery, FiniteSetTheorems, SequenceTheorems, WellFoundedInduction, TLAPS

Inv == TypeOK /\ OneRunPerTarget /\ LastCrawledAdvances

USE IntervalAssumption, SchedulerBounds

\* Time moves ages up and keeps their order.
LEMMA OlderMonotone ==
    ASSUME NEW a \in Ages, NEW b \in Ages
    PROVE  Older(a) \in Ages /\ (a <= b => Older(a) <= Older(b))
BY DEF Older, Ages

\* The only run of a target is its first; removing it leaves none.
LEMMA OnlyRun ==
    ASSUME TypeOK, OneRunPerTarget, NEW t \in Target, NEW i \in DOMAIN runs[t]
    PROVE  Len(runs[t]) = 1 /\ i = 1 /\ RemoveAt(runs[t], i) = <<>> /\ runs[t][i] \in Ages
<1>1. runs[t] \in Seq(Ages) BY DEF TypeOK
<1>2. Len(runs[t]) \in Nat /\ DOMAIN runs[t] = 1..Len(runs[t]) BY <1>1
<1>3. Len(runs[t]) = 1 /\ i = 1
  <2>1. Len(runs[t]) <= 1 BY DEF OneRunPerTarget
  <2>2. i \in 1..Len(runs[t]) BY <1>2
  <2>3. ASSUME NEW n \in Nat, NEW j \in 1..n, n <= 1 PROVE n = 1 /\ j = 1
    BY <2>3
  <2> QED BY <1>2, <2>1, <2>2, <2>3
<1>4. SubSeq(runs[t], 1, 0) = <<>> /\ SubSeq(runs[t], 2, 1) = <<>> BY <1>1
<1>5. RemoveAt(runs[t], i) = <<>> \o <<>> BY <1>3, <1>4 DEF RemoveAt
<1> QED BY <1>1, <1>3, <1>5

LEMMA InitInv == Init => Inv
<1> SUFFICES ASSUME Init PROVE Inv
  OBVIOUS
<1>1. TypeOK
  <2>1. <<>> \in Seq(Ages) /\ MaxAge \in Ages BY DEF Ages
  <2>2. runs \in [Target -> Seq(Ages)] BY <2>1 DEF Init
  <2>3. age \in [Target -> Ages] BY <2>1 DEF Init
  <2>4. tstate \in [Target -> {"unborn", "live", "gone"}] BY DEF Init
  <2> QED BY <2>2, <2>3, <2>4 DEF Init, TypeOK
<1>2. OneRunPerTarget BY DEF Init, OneRunPerTarget
<1>3. LastCrawledAdvances BY DEF Init, LastCrawledAdvances
<1> QED BY <1>1, <1>2, <1>3 DEF Inv

\* The spawn loop: only targets without a run get one, of age 0.
LEMMA DispatchInv == Inv /\ Dispatch => Inv'
<1> SUFFICES ASSUME Inv, Dispatch PROVE Inv'
  OBVIOUS
<1> USE DEF Inv
<1>1. ToSpawn \subseteq Target BY DEF ToSpawn, list_due_targets
<1>2. \A t \in ToSpawn : runs[t] = <<>>
  BY DEF ToSpawn, list_due_targets, OneRunPerTarget
<1>a. Append(<<>>, 0) = <<0>> OBVIOUS
<1>3. \A t \in Target : runs'[t] = IF t \in ToSpawn THEN <<0>> ELSE runs[t]
  BY <1>2, <1>a DEF Dispatch
<1>4. <<0>> \in Seq(Ages) /\ Len(<<0>>) = 1 /\ <<0>> # <<>> /\ <<0>>[1] = 0
      /\ DOMAIN <<0>> = {1}
  BY DEF Ages
<1>5. TypeOK'
  <2>1. runs' \in [Target -> Seq(Ages)] BY <1>3, <1>4 DEF Dispatch, TypeOK
  <2> QED BY <1>1, <2>1 DEF Dispatch, TypeOK, rowVars
<1>6. OneRunPerTarget'
  <2> SUFFICES ASSUME NEW t \in Target
               PROVE  Len(runs'[t]) <= 1 /\ (t \in running' <=> runs'[t] # <<>>)
    BY DEF OneRunPerTarget
  <2>1. running' = running \cup ToSpawn BY DEF Dispatch
  <2>2. CASE t \in ToSpawn
    <3>1. runs'[t] = <<0>> BY <1>3, <2>2
    <3>2. Len(runs'[t]) <= 1 BY <3>1, <1>4
    <3>3. runs'[t] # <<>> BY <3>1, <1>4
    <3>4. t \in running' BY <2>1, <2>2
    <3> QED BY <3>2, <3>3, <3>4
  <2>3. CASE t \notin ToSpawn
    <3>1. runs'[t] = runs[t] BY <1>3, <2>3
    <3>2. t \in running' <=> t \in running BY <2>1, <2>3
    <3> QED BY <3>1, <3>2 DEF OneRunPerTarget
  <2> QED BY <2>2, <2>3
<1>7. LastCrawledAdvances'
  <2> SUFFICES ASSUME NEW t \in Target, NEW i \in DOMAIN runs'[t], tstate'[t] = "live"
               PROVE  runs'[t][i] <= age'[t]
    BY DEF LastCrawledAdvances
  <2>1. age' = age /\ tstate' = tstate /\ age[t] \in Ages
    BY DEF Dispatch, rowVars, TypeOK
  <2>2. CASE t \in ToSpawn BY <1>3, <1>4, <2>1, <2>2 DEF Ages
  <2>3. CASE t \notin ToSpawn BY <1>3, <2>1, <2>3 DEF LastCrawledAdvances
  <2> QED BY <2>2, <2>3
<1> QED BY <1>5, <1>6, <1>7

\* A run ends, whatever way: its id is released and nothing else changes but,
\* on success, the age of last_crawled_at.
LEMMA EndInv ==
    ASSUME Inv, NEW t \in Target, RunSucceeds(t) \/ RunFails(t)
    PROVE  Inv'
<1> USE DEF Inv
<1>1. PICK i \in DOMAIN runs[t] :
        /\ EndRun(t, i)
        /\ age' = age \/ age' = [age EXCEPT ![t] = runs[t][i]]
  BY DEF RunSucceeds, RunFails
<1>2. RemoveAt(runs[t], i) = <<>> /\ runs[t][i] \in Ages BY OnlyRun
<1>3. \A u \in Target : runs'[u] = IF u = t THEN <<>> ELSE runs[u]
  BY <1>1, <1>2 DEF EndRun, TypeOK
<1>4. TypeOK'
  <2>1. runs' \in [Target -> Seq(Ages)]
    BY <1>1, <1>2 DEF EndRun, TypeOK
  <2>2. age' \in [Target -> Ages] BY <1>1, <1>2 DEF TypeOK
  <2> QED BY <1>1, <2>1, <2>2 DEF EndRun, Released, TypeOK
<1>5. OneRunPerTarget' BY <1>1, <1>3 DEF EndRun, Released, OneRunPerTarget
<1>6. \A u \in Target : u # t => age'[u] = age[u] BY <1>1 DEF TypeOK
<1>7. LastCrawledAdvances'
  BY <1>1, <1>3, <1>6 DEF EndRun, LastCrawledAdvances
<1> QED BY <1>4, <1>5, <1>7

LEMMA TimeInv == Inv /\ Time => Inv'
<1> SUFFICES ASSUME Inv, Time PROVE Inv'
  OBVIOUS
<1> USE DEF Inv
<1>1. \A t \in Target : /\ runs[t] \in Seq(Ages) /\ age[t] \in Ages
                        /\ runs'[t] = [i \in DOMAIN runs[t] |-> Older(runs[t][i])]
                        /\ age'[t] = Older(age[t])
  BY DEF Time, TypeOK
<1>2. \A t \in Target : \A i \in DOMAIN runs[t] : runs[t][i] \in Ages BY OnlyRun
<1>3. \A t \in Target : /\ runs'[t] \in Seq(Ages) /\ Len(runs'[t]) = Len(runs[t])
                        /\ DOMAIN runs'[t] = DOMAIN runs[t]
  <2> SUFFICES ASSUME NEW t \in Target
               PROVE  /\ runs'[t] \in Seq(Ages) /\ Len(runs'[t]) = Len(runs[t])
                      /\ DOMAIN runs'[t] = DOMAIN runs[t]
    OBVIOUS
  <2>1. Len(runs[t]) \in Nat /\ DOMAIN runs[t] = 1..Len(runs[t]) BY <1>1
  <2>2. runs'[t] \in [1..Len(runs[t]) -> Ages] BY <1>1, <1>2, <2>1, OlderMonotone
  <2> QED BY <2>1, <2>2
<1>4. TypeOK'
  <2>1. age' \in [Target -> Ages] BY <1>1, OlderMonotone DEF Time
  <2>2. runs' \in [Target -> Seq(Ages)] BY <1>3 DEF Time
  <2> QED BY <2>1, <2>2 DEF Time, TypeOK
<1>5. OneRunPerTarget'
  <2>1. \A t \in Target : runs'[t] # <<>> <=> runs[t] # <<>>
    BY <1>1, <1>3, EmptySeq
  <2> QED BY <1>3, <2>1 DEF Time, OneRunPerTarget
<1>6. LastCrawledAdvances'
  BY <1>1, <1>2, <1>3, OlderMonotone DEF Time, LastCrawledAdvances
<1> QED BY <1>4, <1>5, <1>6

LEMMA StepInv == Inv /\ [Next]_vars => Inv'
<1> SUFFICES ASSUME Inv, [Next]_vars PROVE Inv'
  OBVIOUS
<1>1. CASE Dispatch BY <1>1, DispatchInv
<1>2. ASSUME NEW t \in Target, RunSucceeds(t) \/ RunFails(t) PROVE Inv'
  BY <1>2, EndInv
<1>3. CASE Time BY <1>3, TimeInv
<1>4. CASE Restart
  <2>1. \A t \in Target : runs'[t] = <<>> BY <1>4 DEF Restart
  <2>2. runs' \in [Target -> Seq(Ages)] BY <1>4 DEF Restart
  <2>6. /\ tstate' = tstate /\ interval' = interval /\ age' = age /\ full' = full
        /\ paused' \in BOOLEAN /\ tick' \in {"idle", "list"} /\ running' \subseteq Target
    BY <1>4 DEF Restart, rowVars
  <2>7. inflight' \in Nat /\ restarts' \in Nat BY <1>4 DEF Restart, Inv, TypeOK
  <2>3. TypeOK' BY <2>2, <2>6, <2>7 DEF Inv, TypeOK
  <2>4. OneRunPerTarget' BY <1>4, <2>1 DEF Restart, OneRunPerTarget
  <2>5. LastCrawledAdvances' BY <2>1 DEF LastCrawledAdvances
  <2> QED BY <2>3, <2>4, <2>5 DEF Inv
<1>5. ASSUME NEW t \in Target, NEW iv \in Interval, AddTarget(t, iv) PROVE Inv'
  <2>1. TypeOK' BY <1>5 DEF Inv, AddTarget, TypeOK, Ages
  <2>2. OneRunPerTarget' BY <1>5 DEF Inv, AddTarget, OneRunPerTarget
  <2>3. LastCrawledAdvances'
    <3> SUFFICES ASSUME NEW u \in Target, NEW i \in DOMAIN runs[u], tstate'[u] = "live"
                 PROVE  runs[u][i] <= age'[u]
      BY <1>5 DEF AddTarget, LastCrawledAdvances
    <3>1. CASE u = t
      <4>1. age'[u] = MaxAge BY <1>5, <3>1 DEF AddTarget, Inv, TypeOK
      <4>2. runs[u][i] \in Ages BY OnlyRun DEF Inv
      <4> QED BY <4>1, <4>2 DEF Ages
    <3>2. CASE u # t
      BY <1>5, <3>2 DEF AddTarget, Inv, TypeOK, LastCrawledAdvances
    <3> QED BY <3>1, <3>2
  <2> QED BY <2>1, <2>2, <2>3 DEF Inv
<1>6. ASSUME NEW t \in Target, RemoveTarget(t) PROVE Inv'
  BY <1>6 DEF RemoveTarget, Inv, TypeOK, OneRunPerTarget, LastCrawledAdvances
<1>7. ASSUME NEW t \in Target, NEW iv \in Interval, SetInterval(t, iv) PROVE Inv'
  BY <1>7 DEF SetInterval, Inv, TypeOK, OneRunPerTarget, LastCrawledAdvances
<1>8. CASE CheckTick \/ TickFails \/ IndexSize \/ \E b \in BOOLEAN : SetPaused(b)
  BY <1>8 DEF CheckTick, TickFails, IndexSize, SetPaused, Inv, TypeOK, OneRunPerTarget,
              LastCrawledAdvances, rowVars
<1>9. CASE Commit \/ \E t \in Target : Index(t)
  BY <1>9 DEF Commit, Undrained, Index, Inv, TypeOK, OneRunPerTarget, LastCrawledAdvances, rowVars
<1>10. CASE UNCHANGED vars
  BY <1>10 DEF vars, rowVars, Inv, TypeOK, OneRunPerTarget, LastCrawledAdvances
<1> QED
  BY <1>1, <1>2, <1>3, <1>4, <1>5, <1>6, <1>7, <1>8, <1>9, <1>10 DEF Next

\* The scheduler's state keeps its shape: ages stay within MaxAge, and only
\* targets have runs, for any set of targets and intervals.
THEOREM SchedulerTypeCorrect == Spec => []TypeOK
<1>1. Inv => TypeOK BY DEF Inv
<1> QED BY InitInv, StepInv, <1>1, PTL DEF Spec

\* However ticks, results, panics, admin changes and restarts interleave, a
\* target is never crawled twice at the same time, and its id is in the running
\* set exactly as long as its task exists.
THEOREM NeverTwice == Spec => []OneRunPerTarget
<1>1. Inv => OneRunPerTarget BY DEF Inv
<1> QED BY InitInv, StepInv, <1>1, PTL DEF Spec

\* Whatever run writes last_crawled_at next, it does not move it back.
THEOREM NeverBack == Spec => []LastCrawledAdvances
<1>1. Inv => LastCrawledAdvances BY DEF Inv
<1> QED BY InitInv, StepInv, <1>1, PTL DEF Spec

-----------------------------------------------------------------------------
(* What the crawls request: Discovery, for any tasks, robots.txt files,       *)
(* sitemaps and pages.                                                        *)

\* Induction over the naturals, as the absence of a least counterexample.
LEMMA NatInd ==
    ASSUME NEW S, 0 \in S, \A n \in Nat : n \in S => n + 1 \in S
    PROVE  Nat \subseteq S
<1> SUFFICES ASSUME Nat \ S # {} PROVE FALSE
  OBVIOUS
<1> DEFINE R == OpToRel(<, Nat)
<1>1. IsWellFoundedOn(R, Nat)
  BY NatLessThanWellFounded
<1> HIDE DEF R
<1>2. PICK x \in Nat \ S : \A y \in Nat \ S : <<y, x>> \notin R
  <2>1. Nat \ S \subseteq Nat
    OBVIOUS
  <2> QED BY <1>1, <2>1, WFMin, Zenon
<1>3. x - 1 \in Nat /\ x - 1 < x
  BY <1>2
<1>4. <<x - 1, x>> \in R
  BY <1>3 DEF R, OpToRel
<1>5. x - 1 \in S
  BY <1>2, <1>3, <1>4
<1> QED BY <1>2, <1>3, <1>5

LEMMA SeqIsSeq ==
    ASSUME NEW S, NEW s \in Seq(S)
    PROVE  IsSeq(s)
<1>1. Len(s) \in Nat /\ DOMAIN s = 1..Len(s) /\ s \in [1..Len(s) -> S]
  OBVIOUS
<1>2. s \in [1..Len(s) -> Range(s)]
  BY <1>1 DEF Range
<1>3. s \in Seq(Range(s))
  BY <1>1, <1>2
<1> QED BY <1>3 DEF IsSeq, Range

\* Tail, Append and the cut at the front make sequences of sequences.
LEMMA SeqSteps ==
    ASSUME NEW s, IsSeq(s)
    PROVE  /\ Len(s) \in Nat
           /\ s # <<>> => IsSeq(Tail(s)) /\ Len(Tail(s)) = Len(s) - 1
           /\ \A x : IsSeq(Append(s, x)) /\ Len(Append(s, x)) = Len(s) + 1
           /\ \A n \in Nat : n <= Len(s) => IsSeq(SubSeq(s, 1, n)) /\ Len(SubSeq(s, 1, n)) = n
<1> DEFINE R == Range(s)
<1>1. s \in Seq(R)
  BY DEF IsSeq, Range
<1> HIDE DEF R
<1>2. Len(s) \in Nat
  BY <1>1
<1>3. s # <<>> => Tail(s) \in Seq(R) /\ Len(Tail(s)) = Len(s) - 1
  BY <1>1
<1>4. ASSUME NEW x PROVE IsSeq(Append(s, x)) /\ Len(Append(s, x)) = Len(s) + 1
  <2> DEFINE T == R \cup {x}
  <2>1. Len(s) \in Nat /\ s \in [1..Len(s) -> T]
    BY <1>1
  <2>2. s \in Seq(T) /\ x \in T
    BY <2>1
  <2> HIDE DEF T
  <2>3. Append(s, x) \in Seq(T) /\ Len(Append(s, x)) = Len(s) + 1
    BY <2>2
  <2> QED BY <2>3, SeqIsSeq
<1>5. ASSUME NEW n \in Nat, n <= Len(s)
      PROVE  IsSeq(SubSeq(s, 1, n)) /\ Len(SubSeq(s, 1, n)) = n
  <2>1. SubSeq(s, 1, n) \in Seq(R) /\ Len(SubSeq(s, 1, n)) = n
    BY <1>1, <1>2, <1>5
  <2> QED BY <2>1, SeqIsSeq
<1> QED BY <1>2, <1>3, <1>4, <1>5, SeqIsSeq

\* The entries of an index leave less than the cap for the next round, since the
\* index itself is already visited.
LEMMA ChildrenBounded ==
    ASSUME NEW visited, IsFiniteSet(visited), visited # {},
           NEW next, IsSeq(next), Len(next) <= MAX_SITEMAPS_PER_TARGET - 1,
           NEW locs, IsSeq(locs)
    PROVE  LET all == AddChildren(visited, next, locs)
           IN  IsSeq(all) /\ Len(all) <= MAX_SITEMAPS_PER_TARGET - 1
<1> DEFINE M == MAX_SITEMAPS_PER_TARGET
           Short(q) == IsSeq(q) /\ Len(q) <= M - 1
           Def(f, m) == f = [n \in 0..m |-> IF n = 0 THEN next
                                            ELSE AddChild(visited, f[n - 1], locs[n])]
           S == {m \in Nat : \E f : Def(f, m)}
<1>0. M \in Nat \ {0} /\ Len(locs) \in Nat
  BY SeqSteps, DiscoveryAssumption
<1>1. ASSUME NEW q, NEW c, Short(q) PROVE Short(AddChild(visited, q, c))
  <2>1. Cardinality(visited) \in Nat \ {0}
    <3>1. Cardinality(visited) \in Nat
      BY FS_CardinalityType
    <3>2. Cardinality(visited) # 0
      BY FS_EmptySet
    <3> QED BY <3>1, <3>2
  <2>2. Len(q) \in Nat /\ IsSeq(Append(q, c)) /\ Len(Append(q, c)) = Len(q) + 1
    BY <1>1, SeqSteps
  <2>3. CASE c \notin visited /\ Room(visited, q)
    <3>1. Len(q) + Cardinality(visited) < M
      BY <2>3 DEF Room
    <3>2. Len(q) + 1 <= M - 1
      BY <1>0, <2>1, <2>2, <3>1
    <3> QED BY <2>2, <2>3, <3>2 DEF AddChild
  <2>4. CASE ~(c \notin visited /\ Room(visited, q))
    BY <1>1, <2>4 DEF AddChild
  <2> QED BY <2>3, <2>4
<1> HIDE DEF Short
<1>2. 0 \in S
  <2>1. Def([n \in 0..0 |-> next], 0)
    OBVIOUS
  <2> QED BY <2>1
<1>3. ASSUME NEW m \in Nat, m \in S PROVE m + 1 \in S
  <2>1. PICK f : Def(f, m)
    BY <1>3
  <2> DEFINE g == [n \in 0..(m + 1) |-> IF n <= m THEN f[n]
                                        ELSE AddChild(visited, f[m], locs[m + 1])]
  <2>2. ASSUME NEW n \in 0..(m + 1)
        PROVE  g[n] = IF n = 0 THEN next ELSE AddChild(visited, g[n - 1], locs[n])
    <3>1. CASE n = 0
      BY <2>1, <3>1
    <3>2. CASE n # 0 /\ n <= m
      <4>1. g[n] = f[n] /\ g[n - 1] = f[n - 1]
        BY <3>2
      <4>2. f[n] = AddChild(visited, f[n - 1], locs[n])
        BY <2>1, <3>2
      <4> HIDE DEF g
      <4> QED BY <3>2, <4>1, <4>2
    <3>3. CASE n = m + 1
      <4>1. g[n] = AddChild(visited, f[m], locs[n]) /\ g[n - 1] = f[m]
        BY <3>3
      <4> HIDE DEF g
      <4> QED BY <3>3, <4>1
    <3> QED BY <3>1, <3>2, <3>3
  <2>3. Def(g, m + 1)
    BY <2>2
  <2>4. \E h : Def(h, m + 1)
    <3> HIDE DEF g, Def
    <3> QED BY <2>3
  <2> HIDE DEF Def
  <2> QED BY <2>4
<1> HIDE DEF S
<1>4. Nat \subseteq S
  BY <1>2, <1>3, NatInd
<1>5. PICK f : Def(f, Len(locs)) /\ AddChildren(visited, next, locs) = f[Len(locs)]
  <2>1. \E f : Def(f, Len(locs))
    <3> HIDE DEF Def
    <3> QED BY <1>0, <1>4 DEF S
  <2> QED BY <2>1 DEF AddChildren
<1> DEFINE T == {m \in Nat : m <= Len(locs) => Short(f[m])}
<1>6. 0 \in T
  <2>1. f[0] = next
    BY <1>0, <1>5
  <2> QED BY <2>1 DEF Short
<1>7. ASSUME NEW m \in Nat, m \in T PROVE m + 1 \in T
  <2> SUFFICES ASSUME m + 1 <= Len(locs) PROVE Short(f[m + 1])
    OBVIOUS
  <2>1. m + 1 \in 0..Len(locs) /\ m + 1 # 0 /\ (m + 1) - 1 = m /\ m <= Len(locs)
    BY <1>0
  <2>2. f[m + 1] = AddChild(visited, f[(m + 1) - 1], locs[m + 1])
    BY <1>5, <2>1
  <2>3. Short(f[m])
    BY <1>7, <2>1
  <2> QED BY <1>1, <2>1, <2>2, <2>3
<1> HIDE DEF T
<1>8. Nat \subseteq T
  BY <1>6, <1>7, NatInd
<1>9. Len(locs) \in T /\ Len(locs) <= Len(locs)
  BY <1>0, <1>8
<1> QED BY <1>5, <1>9 DEF T, Short

\* The rules an origin has in the cache are its own or, after a failure, none; a
\* document is requested only when its robots.txt allows it or has failed.
Rules(o) == \/ cache[o] = AllowAll /\ o \in failed
            \/ o \in DOMAIN Robots /\ cache[o] = Robots[o]
Obeyed(u) == Allowed(Robots[OriginOf(u)], u) \/ OriginOf(u) \in failed

Fields == {"pc", "wait", "todo", "next", "visited", "depth", "found", "locs", "frontier", "crawled",
           "fetched", "filed", "suggested"}

\* The documents of a target: those visited and those of this round are at most
\* the cap in the first round, and the children of the first round are fewer.
SitemapBudget(s) ==
    LET M == MAX_SITEMAPS_PER_TARGET
    IN  /\ Cardinality(s.visited) + Len(s.todo) <= (IF s.depth = 1 THEN M ELSE 2 * M - 1)
        /\ Len(s.next) <= M - 1
        /\ Cardinality(s.found) < MaxUrls

TaskInv(s) ==
    /\ DOMAIN s = Fields
    /\ s.pc \in {"delay", "sitemap", "loc", "pages", "end"} /\ s.depth \in {0, 1}
    /\ IsFiniteSet(s.visited) /\ IsFiniteSet(s.found)
    /\ Cardinality(s.visited) <= 2 * MAX_SITEMAPS_PER_TARGET - 1 /\ Cardinality(s.found) <= MaxUrls
    /\ s.crawled \subseteq s.frontier
    /\ IsSeq(s.todo) /\ IsSeq(s.next)
    /\ s.pc = "delay" => /\ s.visited = {} /\ s.next = <<>> /\ s.depth = 1 /\ s.found = {}
                         /\ s.frontier = {}
    /\ s.pc \in {"sitemap", "loc"} => SitemapBudget(s)

DiscoveryInv ==
    /\ DOMAIN task = Task
    /\ \A o \in DOMAIN cache : Rules(o)
    /\ failed \subseteq DOMAIN cache
    /\ \A t \in Task : /\ TaskInv(task[t])
                       /\ \A u \in task[t].fetched : Obeyed(u)
                       /\ task[t].wait # None => \E u \in Needs(t) : task[t].wait = OriginOf(u)

\* A step of one task leaves the others, the cache and its failures alone.
LEMMA TaskSteps ==
    ASSUME DiscoveryInv, NEW t \in Task, NEW s, Step(t, s), task[t].wait = None,
           TaskInv(s), s.wait = None, \A u \in s.fetched : u \in task[t].fetched \/ Obeyed(u)
    PROVE  DiscoveryInv'
<1>1. task' = [task EXCEPT ![t] = s] /\ cache' = cache /\ failed' = failed
  BY DEF Step
<1>2. task'[t] = s /\ \A v \in Task : v # t => task'[v] = task[v]
  BY <1>1 DEF DiscoveryInv
<1>3. DOMAIN task' = Task
  BY <1>1 DEF DiscoveryInv
<1>4. (\A o \in DOMAIN cache : Rules(o))' /\ (failed \subseteq DOMAIN cache)'
  BY <1>1 DEF DiscoveryInv, Rules
<1>5. ASSUME NEW v \in Task PROVE TaskInv(task'[v])
  BY <1>2 DEF DiscoveryInv
<1>6. ASSUME NEW u PROVE Obeyed(u) <=> Obeyed(u)'
  BY <1>1 DEF Obeyed
<1>7. ASSUME NEW v \in Task, NEW u \in task'[v].fetched PROVE Obeyed(u)'
  <2>1. u \in task[v].fetched \/ Obeyed(u)
    BY <1>2, <1>7
  <2> QED BY <1>6, <2>1 DEF DiscoveryInv
<1>8. ASSUME NEW v \in Task, task'[v].wait # None
      PROVE  \E u \in Needs(v)' : task'[v].wait = OriginOf(u)
  <2>1. v # t /\ task'[v] = task[v]
    BY <1>2, <1>8
  <2>2. Needs(v)' = Needs(v)
    BY <2>1 DEF Needs
  <2> QED BY <1>8, <2>1, <2>2 DEF DiscoveryInv
<1>9. \A v \in Task : TaskInv(task[v])'
  BY <1>5 DEF TaskInv, SitemapBudget
<1>10. (\A v \in Task : \A u \in task[v].fetched : Obeyed(u))'
  BY <1>7
<1>11. (\A v \in Task : task[v].wait # None => \E u \in Needs(v) : task[v].wait = OriginOf(u))'
  BY <1>8
<1> QED BY <1>3, <1>4, <1>9, <1>10, <1>11 DEF DiscoveryInv

\* What the cache allows is obeyed.
LEMMA CacheObeyed ==
    ASSUME DiscoveryInv, NEW u, Cached(u), is_allowed(u)
    PROVE  Obeyed(u)
<1>1. Rules(OriginOf(u))
  BY DEF DiscoveryInv, Cached
<1> QED BY <1>1 DEF Rules, Obeyed, is_allowed

LEMMA AskSteps ==
    ASSUME DiscoveryInv, NEW t \in Task, NEW u, AskRobots(t, u)
    PROVE  DiscoveryInv'
<1> DEFINE o == OriginOf(u)
           s == [task[t] EXCEPT !.wait = o]
<1>1. task' = [task EXCEPT ![t] = s] /\ cache' = cache /\ failed' = failed /\ u \in Needs(t)
  BY DEF AskRobots, DiscoveryInv
<1>2. TaskInv(task[t]) /\ DOMAIN task[t] = Fields
  BY DEF DiscoveryInv, TaskInv
<1>3. /\ s.wait = o /\ DOMAIN s = Fields /\ s.pc = task[t].pc /\ s.todo = task[t].todo
      /\ s.next = task[t].next /\ s.visited = task[t].visited /\ s.depth = task[t].depth
      /\ s.found = task[t].found /\ s.locs = task[t].locs /\ s.frontier = task[t].frontier
      /\ s.crawled = task[t].crawled /\ s.fetched = task[t].fetched
  BY <1>2 DEF Fields
<1> HIDE DEF s, o
<1>4. task'[t] = s /\ DOMAIN task' = Task /\ \A v \in Task : v # t => task'[v] = task[v]
  BY <1>1 DEF DiscoveryInv
<1>5. \A v \in Task : TaskInv(task[v])'
  <2>1. TaskInv(s)
    BY <1>2, <1>3 DEF TaskInv, SitemapBudget
  <2>2. \A v \in Task : TaskInv(task'[v])
    BY <1>4, <2>1 DEF DiscoveryInv
  <2> QED BY <2>2 DEF TaskInv, SitemapBudget
<1>6. (\A p \in DOMAIN cache : Rules(p))' /\ (failed \subseteq DOMAIN cache)'
  BY <1>1 DEF DiscoveryInv, Rules
<1>7. (\A v \in Task : \A w \in task[v].fetched : Obeyed(w))'
  BY <1>1, <1>3, <1>4 DEF DiscoveryInv, Obeyed
<1>8. ASSUME NEW v \in Task PROVE Needs(v)' = Needs(v)
  BY <1>3, <1>4 DEF Needs
<1>9. (\A v \in Task : task[v].wait # None => \E w \in Needs(v) : task[v].wait = OriginOf(w))'
  <2> SUFFICES ASSUME NEW v \in Task, task'[v].wait # None
               PROVE  \E w \in Needs(v)' : task'[v].wait = OriginOf(w)
    OBVIOUS
  <2>1. CASE v = t
    BY <1>1, <1>3, <1>4, <1>8, <2>1 DEF o
  <2>2. CASE v # t
    BY <1>4, <1>8, <2>2 DEF DiscoveryInv
  <2> QED BY <2>1, <2>2
<1> QED BY <1>4, <1>5, <1>6, <1>7, <1>9 DEF DiscoveryInv

\* An answer, or none.
LEMMA RobotsSteps ==
    ASSUME DiscoveryInv, NEW t \in Task, RobotsArrive(t) \/ RobotsFail(t)
    PROVE  DiscoveryInv'
<1>1. PICK rules : /\ RobotsDone(t, rules)
                   /\ rules = AllowAll \/ (task[t].wait \in DOMAIN Robots /\ rules = Robots[task[t].wait])
  BY DEF RobotsArrive, RobotsFail
<1> DEFINE o == task[t].wait
           s == [task[t] EXCEPT !.wait = None]
<1>2. /\ cache' = [p \in DOMAIN cache \cup {o} |-> IF p = o THEN rules ELSE cache[p]]
      /\ task' = [task EXCEPT ![t] = s]
      /\ failed' = IF rules = AllowAll THEN failed \cup {o} ELSE failed
  BY <1>1 DEF RobotsDone, CacheInsert, DiscoveryInv
<1>3. TaskInv(task[t]) /\ DOMAIN task[t] = Fields
  BY DEF DiscoveryInv, TaskInv
<1>4. /\ s.wait = None /\ DOMAIN s = Fields /\ s.pc = task[t].pc /\ s.todo = task[t].todo
      /\ s.next = task[t].next /\ s.visited = task[t].visited /\ s.depth = task[t].depth
      /\ s.found = task[t].found /\ s.frontier = task[t].frontier
      /\ s.crawled = task[t].crawled /\ s.fetched = task[t].fetched
  BY <1>3 DEF Fields
<1> HIDE DEF s
<1>5. task'[t] = s /\ DOMAIN task' = Task /\ \A v \in Task : v # t => task'[v] = task[v]
  BY <1>2 DEF DiscoveryInv
<1>6. \A v \in Task : TaskInv(task[v])'
  <2>1. TaskInv(s)
    BY <1>3, <1>4 DEF TaskInv, SitemapBudget
  <2>2. \A v \in Task : TaskInv(task'[v])
    BY <1>5, <2>1 DEF DiscoveryInv
  <2> QED BY <2>2 DEF TaskInv, SitemapBudget
<1> HIDE DEF o
<1>7. (\A p \in DOMAIN cache : Rules(p))'
  <2> SUFFICES ASSUME NEW p \in DOMAIN cache' PROVE Rules(p)'
    OBVIOUS
  <2>1. DOMAIN cache' = DOMAIN cache \cup {o} /\ cache'[p] = IF p = o THEN rules ELSE cache[p]
    BY <1>2
  <2>2. CASE p = o
    BY <1>1, <1>2, <2>1, <2>2 DEF Rules, o
  <2>3. CASE p # o
    BY <1>2, <2>1, <2>3 DEF DiscoveryInv, Rules
  <2> QED BY <2>2, <2>3
<1>8. (failed \subseteq DOMAIN cache)'
  BY <1>2 DEF DiscoveryInv
<1>9. (\A v \in Task : \A u \in task[v].fetched : Obeyed(u))'
  <2> SUFFICES ASSUME NEW v \in Task, NEW u \in task'[v].fetched PROVE Obeyed(u)'
    OBVIOUS
  <2>1. u \in task[v].fetched
    BY <1>4, <1>5
  <2>2. Obeyed(u)
    BY <2>1 DEF DiscoveryInv
  <2> QED BY <1>2, <2>2 DEF Obeyed
<1>10. (\A v \in Task : task[v].wait # None => \E w \in Needs(v) : task[v].wait = OriginOf(w))'
  <2> SUFFICES ASSUME NEW v \in Task, task'[v].wait # None
               PROVE  \E w \in Needs(v)' : task'[v].wait = OriginOf(w)
    OBVIOUS
  <2>1. v # t /\ task'[v] = task[v]
    BY <1>4, <1>5
  <2>2. Needs(v)' = Needs(v)
    BY <2>1 DEF Needs
  <2> QED BY <2>1, <2>2 DEF DiscoveryInv
<1> QED BY <1>5, <1>6, <1>7, <1>8, <1>9, <1>10 DEF DiscoveryInv

\* Facts about a task that is about to take a step.
LEMMA TaskFacts ==
    ASSUME DiscoveryInv, NEW t \in Task
    PROVE  /\ TaskInv(task[t]) /\ DOMAIN task[t] = Fields
           /\ MAX_SITEMAPS_PER_TARGET \in Nat \ {0} /\ MaxUrls \in Nat \ {0}
           /\ Len(task[t].todo) \in Nat /\ Len(task[t].next) \in Nat
           /\ Cardinality(task[t].visited) \in Nat /\ Cardinality(task[t].found) \in Nat
<1>1. TaskInv(task[t])
  BY DEF DiscoveryInv
<1>2. /\ IsSeq(task[t].todo) /\ IsSeq(task[t].next)
      /\ IsFiniteSet(task[t].visited) /\ IsFiniteSet(task[t].found) /\ DOMAIN task[t] = Fields
  BY <1>1 DEF TaskInv
<1>3. Len(task[t].todo) \in Nat /\ Len(task[t].next) \in Nat
  BY <1>2, SeqSteps
<1>4. Cardinality(task[t].visited) \in Nat /\ Cardinality(task[t].found) \in Nat
  BY <1>2, FS_CardinalityType
<1> QED BY <1>1, <1>2, <1>3, <1>4, DiscoveryAssumption

LEMMA BeginSteps ==
    ASSUME DiscoveryInv, NEW t \in Task, Begin(t)
    PROVE  DiscoveryInv'
<1> DEFINE a == task[t]
           M == MAX_SITEMAPS_PER_TARGET
           seed == Seed[t]
           rules == cache[OriginOf(seed)]
           all == Candidates(rules, seed)
           docs == Truncate(all)
           s == [a EXCEPT !.pc = "sitemap", !.frontier = {seed}, !.todo = docs]
<1>1. a.wait = None /\ a.pc = "delay" /\ Cached(seed) /\ Step(t, s)
  BY DEF Begin, At
<1>2. /\ TaskInv(a) /\ DOMAIN a = Fields /\ M \in Nat \ {0} /\ MaxUrls \in Nat \ {0}
  BY TaskFacts
<1>3. /\ DOMAIN s = Fields /\ s.pc = "sitemap" /\ s.frontier = {seed} /\ s.todo = docs
      /\ s.wait = a.wait /\ s.next = a.next /\ s.visited = a.visited /\ s.depth = a.depth
      /\ s.found = a.found /\ s.crawled = a.crawled /\ s.fetched = a.fetched
  BY <1>2 DEF Fields
<1>4. IsSeq(rules.sitemaps)
  <2>1. Rules(OriginOf(seed))
    BY <1>1 DEF DiscoveryInv, Cached
  <2>2. CASE rules = AllowAll
    <3>1. rules.sitemaps = <<>> /\ <<>> \in Seq({})
      BY <2>2 DEF AllowAll
    <3> QED BY <3>1, SeqIsSeq
  <2>3. CASE OriginOf(seed) \in DOMAIN Robots /\ rules = Robots[OriginOf(seed)]
    BY <2>3, DiscoveryAssumption
  <2> QED BY <2>1, <2>2, <2>3 DEF Rules
<1>5. IsSeq(all)
  BY <1>4, SeqSteps DEF Candidates
<1>6. IsSeq(docs) /\ Len(docs) \in Nat /\ Len(docs) <= M
  <2> DEFINE n == IF Len(all) < M THEN Len(all) ELSE M
  <2>1. Len(all) \in Nat
    BY <1>5, SeqSteps
  <2>2. n \in Nat /\ n <= Len(all) /\ n <= M
    BY <1>2, <2>1
  <2>3. docs = SubSeq(all, 1, n)
    BY DEF Truncate
  <2> HIDE DEF n, all, docs
  <2> QED BY <1>5, <2>2, <2>3, SeqSteps
<1>7. /\ a.visited = {} /\ a.next = <<>> /\ a.depth = 1 /\ a.found = {}
      /\ IsSeq(a.next) /\ IsFiniteSet(a.visited) /\ IsFiniteSet(a.found)
  BY <1>1, <1>2 DEF TaskInv
<1> HIDE DEF s, docs, all, rules, seed
<1>8. SitemapBudget(s)
  <2>1. Cardinality({}) = 0 /\ Len(<<>>) = 0
    BY FS_EmptySet
  <2> QED BY <1>2, <1>3, <1>6, <1>7, <2>1 DEF SitemapBudget
<1>9. a.crawled = {}
  BY <1>1, <1>2 DEF TaskInv
<1>10. TaskInv(s)
  BY <1>2, <1>3, <1>6, <1>7, <1>8, <1>9 DEF TaskInv
<1> QED BY <1>1, <1>3, <1>10, TaskSteps

\* One document, if it may be had: read for its entries when it is there.
LEMMA SitemapSteps ==
    ASSUME DiscoveryInv, NEW t \in Task, VisitSitemap(t)
    PROVE  DiscoveryInv'
<1> DEFINE a == task[t]
           M == MAX_SITEMAPS_PER_TARGET
           u == Head(a.todo)
           s == [a EXCEPT !.todo = Tail(@), !.visited = @ \cup {u}]
           f == [s EXCEPT !.fetched = @ \cup {u}]
<1>1. /\ a.wait = None /\ a.pc = "sitemap" /\ a.todo # <<>>
      /\ \/ Step(t, s)
         \/ Cached(u) /\ is_allowed(u) /\ Step(t, f)
         \/ /\ Cached(u) /\ is_allowed(u) /\ u \in DOMAIN Sitemap
            /\ Step(t, Read(t, f, u))
  BY DEF VisitSitemap, At
<1>2. /\ TaskInv(a) /\ DOMAIN a = Fields /\ M \in Nat \ {0} /\ MaxUrls \in Nat \ {0}
      /\ Len(a.todo) \in Nat /\ Cardinality(a.visited) \in Nat
  BY TaskFacts
<1>3. /\ DOMAIN s = Fields /\ s.pc = "sitemap" /\ s.todo = Tail(a.todo)
      /\ s.visited = a.visited \cup {u} /\ s.wait = None /\ s.next = a.next /\ s.depth = a.depth
      /\ s.found = a.found /\ s.frontier = a.frontier /\ s.crawled = a.crawled
      /\ s.fetched = a.fetched
  BY <1>1, <1>2 DEF Fields
<1> HIDE DEF s
<1>4. /\ DOMAIN f = Fields /\ f.pc = s.pc /\ f.todo = s.todo /\ f.visited = s.visited
      /\ f.wait = None /\ f.next = s.next /\ f.depth = s.depth /\ f.found = s.found
      /\ f.frontier = s.frontier /\ f.crawled = s.crawled /\ f.fetched = a.fetched \cup {u}
  BY <1>3 DEF Fields
<1> HIDE DEF f
<1>5. /\ IsSeq(a.todo) /\ IsSeq(a.next) /\ IsFiniteSet(a.visited) /\ IsFiniteSet(a.found)
      /\ SitemapBudget(a) /\ a.crawled \subseteq a.frontier /\ a.depth \in {0, 1}
  BY <1>1, <1>2 DEF TaskInv
<1>6. IsSeq(s.todo) /\ Len(s.todo) = Len(a.todo) - 1
  BY <1>1, <1>3, <1>5, SeqSteps
<1>7. /\ IsFiniteSet(s.visited) /\ Cardinality(s.visited) \in Nat
      /\ Cardinality(s.visited) <= Cardinality(a.visited) + 1
  <2>1. /\ IsFiniteSet(a.visited \cup {u})
        /\ Cardinality(a.visited \cup {u}) =
             IF u \in a.visited THEN Cardinality(a.visited) ELSE Cardinality(a.visited) + 1
    BY <1>5, FS_AddElement, Zenon
  <2> HIDE DEF u
  <2> QED BY <1>2, <1>3, <2>1
<1> HIDE DEF u
<1>8. Len(a.todo) >= 1
  BY <1>1, <1>2, <1>5 DEF IsSeq
<1>9. SitemapBudget(s)
  BY <1>2, <1>3, <1>5, <1>6, <1>7, <1>8 DEF SitemapBudget
<1>10. Cardinality(s.visited) <= 2 * M - 1
  BY <1>2, <1>3, <1>5, <1>6, <1>7, <1>8 DEF SitemapBudget
<1>11. TaskInv(s)
  BY <1>2, <1>3, <1>5, <1>6, <1>7, <1>9, <1>10 DEF TaskInv
<1>12. TaskInv(f)
  BY <1>3, <1>4, <1>11 DEF TaskInv, SitemapBudget
<1>13. CASE Step(t, s)
  BY <1>1, <1>3, <1>11, <1>13, TaskSteps
<1>14. CASE Cached(u) /\ is_allowed(u) /\ Step(t, f)
  <2>1. \A w \in f.fetched : w \in a.fetched \/ Obeyed(w)
    BY <1>4, <1>14, CacheObeyed
  <2> QED BY <1>1, <1>4, <1>12, <1>14, <2>1, TaskSteps
<1>15. CASE /\ Cached(u) /\ is_allowed(u) /\ u \in DOMAIN Sitemap
            /\ Step(t, Read(t, f, u))
  <2> DEFINE g == Read(t, f, u)
             more == AddChildren(f.visited, f.next, Sitemap[u].locs)
  <2>1. \A w \in f.fetched : w \in a.fetched \/ Obeyed(w)
    BY <1>4, <1>15, CacheObeyed
  <2>2. IsSeq(more) /\ Len(more) <= M - 1
    <3>1. IsSeq(Sitemap[u].locs)
      BY <1>15, DiscoveryAssumption
    <3>2. f.visited # {} /\ IsFiniteSet(f.visited) /\ IsSeq(f.next) /\ Len(f.next) <= M - 1
      BY <1>3, <1>4, <1>5, <1>7 DEF SitemapBudget
    <3> QED BY <3>1, <3>2, ChildrenBounded
  <2> HIDE DEF more
  <2>3. CASE Sitemap[u].index
    <3>1. g = [f EXCEPT !.next = more]
      BY <2>3 DEF Read, more
    <3> HIDE DEF g
    <3>2. /\ DOMAIN g = Fields /\ g.pc = f.pc /\ g.todo = f.todo /\ g.visited = f.visited
          /\ g.wait = None /\ g.next = more /\ g.depth = f.depth /\ g.found = f.found
          /\ g.frontier = f.frontier /\ g.crawled = f.crawled /\ g.fetched = f.fetched
      BY <1>4, <3>1 DEF Fields
    <3>3. TaskInv(g)
      BY <1>3, <1>4, <1>12, <2>2, <3>2 DEF TaskInv, SitemapBudget
    <3>4. Step(t, g)
      BY <1>15 DEF g
    <3> QED BY <1>1, <2>1, <3>2, <3>3, <3>4, TaskSteps
  <2>4. CASE ~Sitemap[u].index
    <3>1. g = [f EXCEPT !.pc = "loc", !.locs = Locs[t][u]]
      BY <2>4 DEF Read
    <3> HIDE DEF g
    <3>2. /\ DOMAIN g = Fields /\ g.pc = "loc" /\ g.todo = f.todo /\ g.visited = f.visited
          /\ g.wait = None /\ g.next = f.next /\ g.depth = f.depth /\ g.found = f.found
          /\ g.frontier = f.frontier /\ g.crawled = f.crawled /\ g.fetched = f.fetched
      BY <1>4, <3>1 DEF Fields
    <3>3. TaskInv(g)
      BY <1>3, <1>4, <1>12, <3>2 DEF TaskInv, SitemapBudget
    <3>4. Step(t, g)
      BY <1>15 DEF g
    <3> QED BY <1>1, <2>1, <3>2, <3>3, <3>4, TaskSteps
  <2> QED BY <2>3, <2>4
<1> QED BY <1>1, <1>13, <1>14, <1>15

\* What the sitemaps found joins the frontier, and the documents are done with.
LEMMA SeededSteps ==
    ASSUME DiscoveryInv, NEW t \in Task, task[t].wait = None,
           NEW a, DOMAIN a = Fields, a.wait = None, a.fetched = task[t].fetched, a.depth \in {0, 1},
           IsFiniteSet(a.visited), IsFiniteSet(a.found), a.crawled \subseteq a.frontier,
           Cardinality(a.visited) <= 2 * MAX_SITEMAPS_PER_TARGET - 1,
           Cardinality(a.found) <= MaxUrls, Step(t, Seeded(a))
    PROVE  DiscoveryInv'
<1> DEFINE s == Seeded(a)
<1>1. /\ DOMAIN s = Fields /\ s.pc = "pages" /\ s.todo = <<>> /\ s.next = <<>>
      /\ s.visited = a.visited /\ s.wait = None /\ s.depth = a.depth /\ s.found = a.found
      /\ s.frontier = a.frontier \cup a.found /\ s.crawled = a.crawled /\ s.fetched = a.fetched
  BY DEF Fields, Seeded
<1> HIDE DEF s
<1>2. IsSeq(<<>>)
  <2>1. <<>> \in Seq({})
    OBVIOUS
  <2> QED BY <2>1, SeqIsSeq
<1>3. TaskInv(s)
  BY <1>1, <1>2 DEF TaskInv
<1>4. Step(t, s)
  BY DEF s
<1> QED BY <1>1, <1>3, <1>4, TaskSteps

\* One entry of a document: a URL more, and the end when there are enough.
LEMMA LocSteps ==
    ASSUME DiscoveryInv, NEW t \in Task, VisitLoc(t)
    PROVE  DiscoveryInv'
<1> DEFINE a == task[t]
           l == Head(a.locs)
           s == [a EXCEPT !.locs = Tail(@)]
           f == [s EXCEPT !.found = @ \cup {l.url}]
<1>1. /\ a.wait = None /\ a.pc = "loc"
      /\ \/ Step(t, s)
         \/ Step(t, IF Full(f.found) THEN Seeded(f) ELSE f)
  BY DEF VisitLoc, At
<1>2. /\ TaskInv(a) /\ DOMAIN a = Fields /\ MaxUrls \in Nat \ {0}
      /\ Cardinality(a.found) \in Nat
  BY TaskFacts
<1>3. /\ DOMAIN s = Fields /\ s.pc = "loc" /\ s.todo = a.todo
      /\ s.visited = a.visited /\ s.wait = None /\ s.next = a.next /\ s.depth = a.depth
      /\ s.found = a.found /\ s.frontier = a.frontier /\ s.crawled = a.crawled
      /\ s.fetched = a.fetched
  BY <1>1, <1>2 DEF Fields
<1> HIDE DEF s
<1>4. /\ DOMAIN f = Fields /\ f.pc = "loc" /\ f.todo = a.todo /\ f.visited = a.visited
      /\ f.wait = None /\ f.next = a.next /\ f.depth = a.depth /\ f.found = a.found \cup {l.url}
      /\ f.frontier = a.frontier /\ f.crawled = a.crawled /\ f.fetched = a.fetched
  BY <1>3 DEF Fields
<1> HIDE DEF f
<1>5. /\ IsSeq(a.todo) /\ IsSeq(a.next) /\ IsFiniteSet(a.visited) /\ IsFiniteSet(a.found)
      /\ SitemapBudget(a) /\ a.crawled \subseteq a.frontier /\ a.depth \in {0, 1}
      /\ Cardinality(a.visited) <= 2 * MAX_SITEMAPS_PER_TARGET - 1
      /\ Cardinality(a.found) < MaxUrls
  BY <1>1, <1>2 DEF TaskInv, SitemapBudget
<1>6. TaskInv(s)
  BY <1>1, <1>2, <1>3 DEF TaskInv, SitemapBudget
<1>7. /\ IsFiniteSet(f.found) /\ Cardinality(f.found) \in Nat
      /\ Cardinality(f.found) <= MaxUrls
  <2>1. /\ IsFiniteSet(a.found \cup {l.url})
        /\ Cardinality(a.found \cup {l.url}) =
             IF l.url \in a.found THEN Cardinality(a.found) ELSE Cardinality(a.found) + 1
    BY <1>5, FS_AddElement, Zenon
  <2> HIDE DEF l
  <2> QED BY <1>2, <1>4, <1>5, <2>1
<1> HIDE DEF l
<1>8. CASE Step(t, s)
  BY <1>1, <1>3, <1>6, <1>8, TaskSteps
<1>9. CASE Full(f.found) /\ Step(t, Seeded(f))
  BY <1>1, <1>4, <1>5, <1>7, <1>9, SeededSteps
<1>10. CASE ~Full(f.found) /\ Step(t, f)
  <2>1. Cardinality(f.found) < MaxUrls
    BY <1>2, <1>7, <1>10 DEF Full
  <2>2. SitemapBudget(f)
    BY <1>4, <1>5, <2>1 DEF SitemapBudget
  <2>3. TaskInv(f)
    BY <1>4, <1>5, <1>7, <2>2 DEF TaskInv
  <2> QED BY <1>1, <1>4, <1>10, <2>3, TaskSteps
<1> QED BY <1>1, <1>8, <1>9, <1>10

\* The end of a document, and of a round of them.
LEMMA EndSteps ==
    ASSUME DiscoveryInv, NEW t \in Task, EndDocument(t) \/ EndRound(t)
    PROVE  DiscoveryInv'
<1> DEFINE a == task[t]
           M == MAX_SITEMAPS_PER_TARGET
<1>1. /\ TaskInv(a) /\ DOMAIN a = Fields /\ M \in Nat \ {0} /\ MaxUrls \in Nat \ {0}
      /\ Len(a.todo) \in Nat /\ Len(a.next) \in Nat /\ Cardinality(a.visited) \in Nat
  BY TaskFacts
<1>2. CASE EndDocument(t)
  <2> DEFINE s == [a EXCEPT !.pc = "sitemap"]
  <2>1. a.wait = None /\ a.pc = "loc" /\ Step(t, s)
    BY <1>2 DEF EndDocument, At
  <2>2. /\ DOMAIN s = Fields /\ s.pc = "sitemap" /\ s.todo = a.todo
        /\ s.visited = a.visited /\ s.wait = None /\ s.next = a.next /\ s.depth = a.depth
        /\ s.found = a.found /\ s.frontier = a.frontier /\ s.crawled = a.crawled
        /\ s.fetched = a.fetched
    BY <1>1, <2>1 DEF Fields
  <2> HIDE DEF s
  <2>3. TaskInv(s)
    BY <1>1, <2>1, <2>2 DEF TaskInv, SitemapBudget
  <2> QED BY <2>1, <2>2, <2>3, TaskSteps
<1>3. CASE EndRound(t)
  <2> DEFINE s == [a EXCEPT !.depth = @ - 1, !.todo = a.next, !.next = <<>>]
  <2>1. /\ a.wait = None /\ a.pc = "sitemap" /\ a.todo = <<>>
        /\ \/ Step(t, Seeded(a))
           \/ a.depth # 0 /\ Step(t, s)
    BY <1>3 DEF EndRound, At
  <2>2. /\ IsSeq(a.todo) /\ IsSeq(a.next) /\ IsFiniteSet(a.visited) /\ IsFiniteSet(a.found)
        /\ SitemapBudget(a) /\ a.crawled \subseteq a.frontier /\ a.depth \in {0, 1}
        /\ Cardinality(a.visited) <= 2 * M - 1 /\ Cardinality(a.found) <= MaxUrls
    BY <1>1, <2>1 DEF TaskInv
  <2>3. CASE Step(t, Seeded(a))
    BY <1>1, <2>1, <2>2, <2>3, SeededSteps
  <2>4. CASE a.depth # 0 /\ Step(t, s)
    <3>1. /\ DOMAIN s = Fields /\ s.pc = "sitemap" /\ s.todo = a.next
          /\ s.visited = a.visited /\ s.wait = None /\ s.next = <<>> /\ s.depth = a.depth - 1
          /\ s.found = a.found /\ s.frontier = a.frontier /\ s.crawled = a.crawled
          /\ s.fetched = a.fetched
      BY <1>1, <2>1 DEF Fields
    <3> HIDE DEF s
    <3>2. a.depth = 1 /\ s.depth = 0
      BY <2>2, <2>4, <3>1
    <3>3. IsSeq(<<>>) /\ Len(<<>>) = 0
      BY <2>1, <2>2
    <3>4. Cardinality(a.visited) <= M /\ Len(a.next) <= M - 1 /\ Cardinality(a.found) < MaxUrls
      BY <1>1, <2>1, <2>2, <3>2, <3>3 DEF SitemapBudget
    <3>5. SitemapBudget(s)
      BY <1>1, <3>1, <3>2, <3>3, <3>4 DEF SitemapBudget
    <3>6. TaskInv(s)
      BY <2>2, <3>1, <3>2, <3>3, <3>5 DEF TaskInv
    <3> QED BY <2>1, <2>4, <3>1, <3>6, TaskSteps
  <2> QED BY <2>1, <2>3, <2>4
<1> QED BY <1>2, <1>3

\* A page of the frontier, and the end of the run.
LEMMA PageSteps ==
    ASSUME DiscoveryInv, NEW t \in Task, NEW u \in task[t].frontier, CrawlPage(t, u)
    PROVE  DiscoveryInv'
<1> DEFINE a == task[t]
           s == [a EXCEPT !.crawled = @ \cup {u}]
           f == [s EXCEPT !.fetched = @ \cup {u}]
           fresh == Fresh[t][u]
           g == [f EXCEPT !.filed = @ \cup {fresh.url}, !.frontier = @ \cup fresh.links,
                          !.suggested = @ \cup fresh.hosts]
<1>1. /\ a.wait = None /\ a.pc = "pages" /\ Cached(u)
      /\ \/ Step(t, s)
         \/ is_allowed(u) /\ Step(t, f)
         \/ is_allowed(u) /\ Step(t, g)
  BY DEF CrawlPage, At
<1>2. TaskInv(a) /\ DOMAIN a = Fields
  BY DEF DiscoveryInv, TaskInv
<1>3. /\ DOMAIN s = Fields /\ s.pc = "pages" /\ s.todo = a.todo
      /\ s.visited = a.visited /\ s.wait = None /\ s.next = a.next /\ s.depth = a.depth
      /\ s.found = a.found /\ s.frontier = a.frontier /\ s.crawled = a.crawled \cup {u}
      /\ s.fetched = a.fetched
  BY <1>1, <1>2 DEF Fields
<1> HIDE DEF s
<1>4. /\ DOMAIN f = Fields /\ f.pc = "pages" /\ f.todo = a.todo /\ f.visited = a.visited
      /\ f.wait = None /\ f.next = a.next /\ f.depth = a.depth /\ f.found = a.found
      /\ f.frontier = a.frontier /\ f.crawled = a.crawled \cup {u} /\ f.fetched = a.fetched \cup {u}
  BY <1>3 DEF Fields
<1> HIDE DEF f
<1>5. /\ DOMAIN g = Fields /\ g.pc = "pages" /\ g.todo = a.todo /\ g.visited = a.visited
      /\ g.wait = None /\ g.next = a.next /\ g.depth = a.depth /\ g.found = a.found
      /\ g.frontier = a.frontier \cup fresh.links /\ g.crawled = a.crawled \cup {u}
      /\ g.fetched = a.fetched \cup {u}
  BY <1>4 DEF Fields
<1> HIDE DEF g, fresh
<1>6. TaskInv(s)
  BY <1>1, <1>2, <1>3 DEF TaskInv
<1>7. TaskInv(f)
  BY <1>1, <1>2, <1>4 DEF TaskInv
<1>8. TaskInv(g)
  BY <1>1, <1>2, <1>5 DEF TaskInv
<1>9. CASE Step(t, s)
  BY <1>1, <1>3, <1>6, <1>9, TaskSteps
<1>10. CASE is_allowed(u) /\ (Step(t, f) \/ Step(t, g))
  <2>1. Obeyed(u)
    BY <1>1, <1>10, CacheObeyed
  <2>2. CASE Step(t, f)
    BY <1>1, <1>4, <1>7, <2>1, <2>2, TaskSteps
  <2>3. CASE Step(t, g)
    BY <1>1, <1>5, <1>8, <2>1, <2>3, TaskSteps
  <2> QED BY <1>10, <2>2, <2>3
<1> QED BY <1>1, <1>9, <1>10

LEMMA EndCrawlSteps ==
    ASSUME DiscoveryInv, NEW t \in Task, EndCrawl(t)
    PROVE  DiscoveryInv'
<1> DEFINE a == task[t]
           s == [a EXCEPT !.pc = "end"]
<1>1. a.wait = None /\ a.pc = "pages" /\ Step(t, s)
  BY DEF EndCrawl, At
<1>2. TaskInv(a) /\ DOMAIN a = Fields
  BY DEF DiscoveryInv, TaskInv
<1>3. /\ DOMAIN s = Fields /\ s.pc = "end" /\ s.todo = a.todo
      /\ s.visited = a.visited /\ s.wait = None /\ s.next = a.next /\ s.depth = a.depth
      /\ s.found = a.found /\ s.frontier = a.frontier /\ s.crawled = a.crawled
      /\ s.fetched = a.fetched
  BY <1>1, <1>2 DEF Fields
<1> HIDE DEF s
<1>4. TaskInv(s)
  BY <1>2, <1>3 DEF TaskInv
<1> QED BY <1>1, <1>3, <1>4, TaskSteps

LEMMA InitDiscoveryInv ==
    ASSUME TaskInit
    PROVE  DiscoveryInv
<1>1. cache = <<>> /\ task = [t \in Task |-> Start] /\ failed = {}
  BY DEF TaskInit
<1>2. DOMAIN cache = {}
  BY <1>1
<1> DEFINE s == Start
<1>3. /\ DOMAIN s = Fields /\ s.pc = "delay" /\ s.todo = <<>> /\ s.visited = {} /\ s.wait = None
      /\ s.next = <<>> /\ s.depth = 1 /\ s.found = {} /\ s.frontier = {} /\ s.crawled = {}
      /\ s.fetched = {}
  BY DEF Start, Fields
<1> HIDE DEF s
<1>4. MAX_SITEMAPS_PER_TARGET \in Nat \ {0} /\ MaxUrls \in Nat \ {0}
  BY DiscoveryAssumption
<1>5. IsFiniteSet({}) /\ Cardinality({}) = 0
  BY FS_EmptySet
<1>6. IsSeq(<<>>)
  <2>1. <<>> \in Seq({})
    OBVIOUS
  <2> QED BY <2>1, SeqIsSeq
<1>7. TaskInv(s)
  BY <1>3, <1>4, <1>5, <1>6 DEF TaskInv
<1>8. \A t \in Task : task[t] = s
  BY <1>1 DEF s
<1>9. DOMAIN task = Task
  BY <1>1
<1> QED BY <1>1, <1>2, <1>3, <1>7, <1>8, <1>9 DEF DiscoveryInv

LEMMA NextDiscoveryInv ==
    ASSUME DiscoveryInv, [TaskNext]_taskVars
    PROVE  DiscoveryInv'
<1>1. CASE UNCHANGED taskVars
  <2>1. cache' = cache /\ task' = task /\ failed' = failed
    BY <1>1 DEF taskVars
  <2>2. \A t \in Task : Needs(t)' = Needs(t)
    BY <2>1 DEF Needs
  <2>3. \A t \in Task : TaskInv(task[t]) <=> TaskInv(task[t])'
    BY <2>1 DEF TaskInv, SitemapBudget
  <2>4. \A u : Obeyed(u) <=> Obeyed(u)'
    BY <2>1 DEF Obeyed
  <2>5. (\A o \in DOMAIN cache : Rules(o))'
    BY <2>1 DEF DiscoveryInv, Rules
  <2> QED BY <2>1, <2>2, <2>3, <2>4, <2>5 DEF DiscoveryInv
<1>2. ASSUME NEW t \in Task, TaskStep(t) PROVE DiscoveryInv'
  <2>1. ASSUME NEW u \in Needs(t), AskRobots(t, u) PROVE DiscoveryInv'
    BY <2>1, AskSteps
  <2>2. CASE Begin(t)
    BY <2>2, BeginSteps
  <2>3. CASE VisitSitemap(t)
    BY <2>3, SitemapSteps
  <2>4. CASE VisitLoc(t)
    BY <2>4, LocSteps
  <2>5. CASE EndDocument(t) \/ EndRound(t)
    BY <2>5, EndSteps
  <2>6. ASSUME NEW u \in task[t].frontier, CrawlPage(t, u) PROVE DiscoveryInv'
    BY <2>6, PageSteps
  <2>7. CASE EndCrawl(t)
    BY <2>7, EndCrawlSteps
  <2> QED BY <1>2, <2>1, <2>2, <2>3, <2>4, <2>5, <2>6, <2>7 DEF TaskStep
<1>3. ASSUME NEW t \in Task, RobotsArrive(t) \/ RobotsFail(t) PROVE DiscoveryInv'
  BY <1>3, RobotsSteps
<1> QED BY <1>1, <1>2, <1>3 DEF TaskNext

\* Discovery keeps its inductive invariant, for any tasks, robots.txt files,
\* sitemaps and pages.
THEOREM DiscoveryInvariance == TaskSpec => []DiscoveryInv
<1>1. TaskInit => DiscoveryInv
  BY InitDiscoveryInv
<1>2. DiscoveryInv /\ [TaskNext]_taskVars => DiscoveryInv'
  BY NextDiscoveryInv
<1> QED BY <1>1, <1>2, PTL DEF TaskSpec

\* Whatever an origin's robots.txt disallows for the crawler is never requested,
\* be it a sitemap or a page, unless a fetch of that robots.txt has failed
\* (is_allowed, ensure_cached): for any robots.txt files and any number of tasks
\* sharing the cache.
THEOREM RobotsAreObeyed == TaskSpec => []RobotsObeyed
<1>1. DiscoveryInv => RobotsObeyed
  BY DEF DiscoveryInv, Obeyed, RobotsObeyed, OriginOf
<1> QED BY <1>1, DiscoveryInvariance, PTL

\* discover_urls visits fewer than twice MAX_SITEMAPS_PER_TARGET documents for a
\* target and seeds the crawl with at most its cap of URLs, whatever the sitemaps
\* list and however they refer to each other.
THEOREM DocumentsAreBounded == TaskSpec => []DocumentsBounded
<1>1. DiscoveryInv => TaskTypeOK
  BY DEF DiscoveryInv, TaskInv, Rules, TaskTypeOK
<1>2. DiscoveryInv => DocumentsBounded
  BY <1>1 DEF DiscoveryInv, TaskInv, DocumentsBounded
<1> QED BY <1>2, DiscoveryInvariance, PTL

-----------------------------------------------------------------------------
(* Queries in canonical order *)

\* Induction over sequences, for a set of them.
LEMMA SeqInd ==
    ASSUME NEW S, NEW W, <<>> \in W, \A s \in Seq(S), x \in S : s \in W => Append(s, x) \in W
    PROVE  Seq(S) \subseteq W
<1> DEFINE N == {n \in Nat : \A s \in Seq(S) : Len(s) = n => s \in W}
<1>1. 0 \in N
  OBVIOUS
<1>2. ASSUME NEW n \in Nat, n \in N PROVE n + 1 \in N
  <2> SUFFICES ASSUME NEW s \in Seq(S), Len(s) = n + 1 PROVE s \in W
    OBVIOUS
  <2> DEFINE front == SubSeq(s, 1, n)
  <2>1. front \in Seq(S) /\ Len(front) = n /\ s[n + 1] \in S
    OBVIOUS
  <2>2. s = Append(front, s[n + 1])
    <3>1. /\ Append(front, s[n + 1]) \in Seq(S) /\ Len(Append(front, s[n + 1])) = n + 1
          /\ \A i \in 1..(n + 1) : Append(front, s[n + 1])[i] = s[i]
      BY <2>1
    <3> QED BY <3>1
  <2>3. front \in W
    BY <1>2, <2>1
  <2> HIDE DEF front
  <2> QED BY <2>1, <2>2, <2>3
<1> HIDE DEF N
<1>3. Nat \subseteq N
  BY <1>1, <1>2, NatInd
<1> SUFFICES ASSUME NEW s \in Seq(S) PROVE s \in W
  OBVIOUS
<1>4. Len(s) \in N
  BY <1>3
<1> QED BY <1>4 DEF N

\* The recursive definition inside FlattenSeq defines a function.
Flattens(f, s) == f = [i \in 1..Len(s) |-> IF i = 1 THEN s[i] ELSE f[i - 1] \o s[i]]

LEMMA FlattenRec ==
    ASSUME NEW S, NEW s \in Seq(S), s # <<>>
    PROVE  \E f : Flattens(f, s) /\ FlattenSeq(s) = f[Len(s)]
<1> DEFINE Join(v, i) == v \o s[i]
           Def(f, m) == f = [i \in 1..m |-> IF i = 1 THEN s[i] ELSE Join(f[i - 1], i)]
           M == {m \in Nat : \E f : Def(f, m)}
<1> HIDE DEF Join
<1>1. 0 \in M
  <2>1. Def([i \in 1..0 |-> s[i]], 0)
    OBVIOUS
  <2> QED BY <2>1
<1>2. ASSUME NEW m \in Nat, m \in M PROVE m + 1 \in M
  <2>1. PICK f : Def(f, m)
    BY <1>2
  <2> DEFINE g == [i \in 1..(m + 1) |-> IF i <= m THEN f[i] ELSE IF i = 1 THEN s[i] ELSE Join(f[m], i)]
  <2>2. ASSUME NEW i \in 1..(m + 1) PROVE g[i] = IF i = 1 THEN s[i] ELSE Join(g[i - 1], i)
    <3>1. CASE i = 1
      BY <2>1, <3>1
    <3>2. CASE i # 1 /\ i <= m
      <4>1. g[i] = f[i] /\ g[i - 1] = f[i - 1]
        BY <3>2
      <4>2. f[i] = Join(f[i - 1], i)
        BY <2>1, <3>2
      <4> HIDE DEF g
      <4> QED BY <3>2, <4>1, <4>2
    <3>3. CASE i # 1 /\ i = m + 1
      <4>1. g[i] = Join(f[m], i) /\ g[i - 1] = f[m]
        BY <3>3
      <4> HIDE DEF g
      <4> QED BY <3>3, <4>1
    <3> QED BY <3>1, <3>2, <3>3
  <2>3. Def(g, m + 1)
    BY <2>2
  <2>4. \E h : Def(h, m + 1)
    <3> HIDE DEF g, Def
    <3> QED BY <2>3
  <2> HIDE DEF Def
  <2> QED BY <2>4
<1> HIDE DEF M
<1>3. Nat \subseteq M
  BY <1>1, <1>2, NatInd
<1>4. \E f : Def(f, Len(s))
  <2> HIDE DEF Def
  <2>1. Len(s) \in Nat
    OBVIOUS
  <2> QED BY <1>3, <2>1 DEF M
<1>5. Len(s) # 0
  OBVIOUS
<1> QED BY <1>4, <1>5 DEF FlattenSeq, Flattens, Join

\* What FlattenSeq computes.
LEMMA FlattenFacts ==
    ASSUME NEW S
    PROVE  /\ FlattenSeq(<<>>) = <<>>
           /\ \A s \in Seq(Seq(S)) : FlattenSeq(s) \in Seq(S)
           /\ \A s \in Seq(Seq(S)), x \in Seq(S) : FlattenSeq(Append(s, x)) = FlattenSeq(s) \o x
<1>1. FlattenSeq(<<>>) = <<>>
  BY DEF FlattenSeq
<1>2. ASSUME NEW s \in Seq(Seq(S)), NEW x \in Seq(S)
      PROVE  FlattenSeq(Append(s, x)) = FlattenSeq(s) \o x
  <2> DEFINE t == Append(s, x)
             n == Len(s)
  <2>1. /\ n \in Nat /\ t \in Seq(Seq(S)) /\ Len(t) = n + 1 /\ t[n + 1] = x /\ t # <<>>
        /\ \A i \in 1..n : t[i] = s[i]
    OBVIOUS
  <2> HIDE DEF t
  <2>2. PICK g : Flattens(g, t) /\ FlattenSeq(t) = g[n + 1]
    BY <2>1, FlattenRec
  <2>3. CASE n = 0
    <3>1. s = <<>> /\ FlattenSeq(s) = <<>>
      BY <1>1, <2>3
    <3>2. g[n + 1] = x
      BY <2>1, <2>2, <2>3 DEF Flattens
    <3>3. <<>> \o x = x
      OBVIOUS
    <3> QED BY <2>2, <3>1, <3>2, <3>3 DEF t
  <2>4. CASE n # 0
    <3>1. s # <<>>
      BY <2>4
    <3>2. PICK f : Flattens(f, s) /\ FlattenSeq(s) = f[n]
      BY <3>1, FlattenRec
    <3> DEFINE A == {i \in Nat : i + 1 \in 1..n => f[i + 1] = g[i + 1]}
    <3>3. 0 \in A
      <4>1. f[1] = s[1] /\ g[1] = t[1]
        BY <2>1, <2>2, <2>4, <3>2 DEF Flattens
      <4> QED BY <2>1, <2>4, <4>1
    <3>4. ASSUME NEW i \in Nat, i \in A PROVE i + 1 \in A
      <4> SUFFICES ASSUME i + 1 + 1 \in 1..n PROVE f[i + 1 + 1] = g[i + 1 + 1]
        OBVIOUS
      <4>0. i + 1 \in 1..n /\ i + 1 + 1 # 1 /\ (i + 1 + 1) - 1 = i + 1 /\ i + 1 + 1 \in 1..(n + 1)
        BY <2>1
      <4>1. f[i + 1 + 1] = f[i + 1] \o s[i + 1 + 1]
        BY <3>2, <4>0 DEF Flattens
      <4>2. g[i + 1 + 1] = g[i + 1] \o t[i + 1 + 1]
        BY <2>1, <2>2, <4>0 DEF Flattens
      <4> QED BY <2>1, <3>4, <4>0, <4>1, <4>2
    <3> HIDE DEF A
    <3>5. Nat \subseteq A
      BY <3>3, <3>4, NatInd
    <3>6. n - 1 \in A /\ (n - 1) + 1 = n /\ n \in 1..n
      BY <2>1, <2>4, <3>5
    <3>7. f[n] = g[n]
      BY <3>6 DEF A
    <3>8. g[n + 1] = g[n] \o x
      <4>1. n + 1 \in 1..(n + 1) /\ n + 1 # 1 /\ (n + 1) - 1 = n
        BY <2>1, <2>4
      <4> QED BY <2>1, <2>2, <4>1 DEF Flattens
    <3> QED BY <2>2, <3>2, <3>7, <3>8 DEF t
  <2> QED BY <2>3, <2>4
<1>3. ASSUME NEW s \in Seq(Seq(S)) PROVE FlattenSeq(s) \in Seq(S)
  <2> DEFINE W == {r \in Seq(Seq(S)) : FlattenSeq(r) \in Seq(S)}
  <2>1. <<>> \in W
    <3>1. <<>> \in Seq(Seq(S)) /\ <<>> \in Seq(S)
      OBVIOUS
    <3> QED BY <1>1, <3>1
  <2>2. ASSUME NEW r \in Seq(Seq(S)), NEW x \in Seq(S), r \in W PROVE Append(r, x) \in W
    <3>1. FlattenSeq(Append(r, x)) = FlattenSeq(r) \o x /\ FlattenSeq(r) \in Seq(S)
      BY <1>2, <2>2
    <3>2. FlattenSeq(r) \o x \in Seq(S)
      BY <3>1
    <3>3. Append(r, x) \in Seq(Seq(S))
      OBVIOUS
    <3> QED BY <3>1, <3>2, <3>3
  <2> HIDE DEF W
  <2>3. Seq(Seq(S)) \subseteq W
    BY <2>1, <2>2, SeqInd
  <2> QED BY <2>3 DEF W
<1> QED BY <1>1, <1>2, <1>3

\* The pairs with these keys: pair by pair, of a concatenation, of such pairs.
Pick(x, keys) == IF x[1] \in keys THEN <<x>> ELSE <<>>

LEMMA HavingFacts ==
    ASSUME NEW S, NEW A
    PROVE  /\ Having(<<>>, A) = <<>>
           /\ \A q \in Seq(S) : Having(q, A) \in Seq(S)
           /\ \A q \in Seq(S), x \in S : Having(Append(q, x), A) = Having(q, A) \o Pick(x, A)
<1> DEFINE Picks(q) == [n \in DOMAIN q |-> Pick(q[n], A)]
<1>1. \A q : Having(q, A) = FlattenSeq(Picks(q))
  BY DEF Having, Pick
<1>2. \A x \in S : Pick(x, A) \in Seq(S)
  BY DEF Pick
<1>3. ASSUME NEW q \in Seq(S) PROVE Picks(q) \in Seq(Seq(S)) /\ Len(Picks(q)) = Len(q)
  <2>1. Len(q) \in Nat /\ DOMAIN q = 1..Len(q) /\ \A n \in 1..Len(q) : q[n] \in S
    OBVIOUS
  <2>2. Picks(q) \in [1..Len(q) -> Seq(S)]
    BY <1>2, <2>1
  <2> HIDE DEF Picks
  <2> QED BY <2>1, <2>2
<1>4. ASSUME NEW q \in Seq(S), NEW x \in S PROVE Picks(Append(q, x)) = Append(Picks(q), Pick(x, A))
  <2> DEFINE r == Append(q, x)
             m == Len(q)
  <2>1. m \in Nat /\ r \in Seq(S) /\ Len(r) = m + 1 /\ r[m + 1] = x /\ \A n \in 1..m : r[n] = q[n]
    OBVIOUS
  <2>2. DOMAIN r = 1..(m + 1) /\ DOMAIN q = 1..m
    BY <2>1
  <2> HIDE DEF r
  <2>3. /\ Picks(r) = [n \in 1..(m + 1) |-> Pick(r[n], A)]
        /\ Picks(q) = [n \in 1..m |-> Pick(q[n], A)]
    BY <2>2
  <2>4. Picks(q) \in Seq(Seq(S)) /\ Len(Picks(q)) = m /\ Pick(x, A) \in Seq(S)
    BY <1>2, <1>3
  <2>5. Picks(r) \in Seq(Seq(S)) /\ Len(Picks(r)) = m + 1
    BY <1>3, <2>1
  <2>6. /\ \A n \in 1..m : Picks(r)[n] = Picks(q)[n]
        /\ Picks(r)[m + 1] = Pick(x, A)
    BY <2>1, <2>3
  <2> HIDE DEF Picks
  <2> DEFINE T == Seq(S)
             pq == Picks(q)
             pr == Picks(r)
             px == Pick(x, A)
             a == Append(pq, px)
  <2>7. pq \in Seq(T) /\ Len(pq) = m /\ px \in T /\ pr \in Seq(T) /\ Len(pr) = m + 1
    BY <2>4, <2>5
  <2>8. (\A n \in 1..m : pr[n] = pq[n]) /\ pr[m + 1] = px
    BY <2>6
  <2> HIDE DEF T, pq, pr, px
  <2>9. /\ a \in Seq(T) /\ Len(a) = m + 1
        /\ \A n \in 1..m : a[n] = pq[n]
        /\ a[m + 1] = px
    BY <2>1, <2>7
  <2>10. \A n \in 1..(m + 1) : pr[n] = a[n]
    BY <2>1, <2>8, <2>9
  <2> HIDE DEF a
  <2>11. pr = a
    BY <2>1, <2>7, <2>9, <2>10
  <2> QED BY <2>11 DEF r, pr, a, pq, px
<1>5. Picks(<<>>) = <<>>
  OBVIOUS
<1> HIDE DEF Picks
<1>6. Having(<<>>, A) = <<>>
  BY <1>1, <1>5, FlattenFacts
<1>7. ASSUME NEW q \in Seq(S) PROVE Having(q, A) \in Seq(S)
  BY <1>1, <1>3, FlattenFacts
<1>8. ASSUME NEW q \in Seq(S), NEW x \in S PROVE Having(Append(q, x), A) = Having(q, A) \o Pick(x, A)
  <2>1. Having(Append(q, x), A) = FlattenSeq(Append(Picks(q), Pick(x, A)))
    BY <1>1, <1>4
  <2>2. FlattenSeq(Append(Picks(q), Pick(x, A))) = FlattenSeq(Picks(q)) \o Pick(x, A)
    BY <1>2, <1>3, FlattenFacts
  <2> QED BY <1>1, <2>1, <2>2
<1> QED BY <1>6, <1>7, <1>8

LEMMA HavingJoined ==
    ASSUME NEW S, NEW A, NEW p \in Seq(S), NEW q \in Seq(S)
    PROVE  Having(p \o q, A) = Having(p, A) \o Having(q, A)
<1> DEFINE W == {r \in Seq(S) : Having(p \o r, A) = Having(p, A) \o Having(r, A)}
<1>0. Having(p, A) \in Seq(S) /\ Having(<<>>, A) = <<>>
  BY HavingFacts
<1>1. <<>> \in W
  <2>1. <<>> \in Seq(S) /\ p \o <<>> = p
    OBVIOUS
  <2>2. Having(p, A) \o <<>> = Having(p, A)
    BY <1>0
  <2> QED BY <1>0, <2>1, <2>2
<1>2. ASSUME NEW r \in Seq(S), NEW x \in S, r \in W PROVE Append(r, x) \in W
  <2>1. Append(r, x) \in Seq(S) /\ p \o Append(r, x) = Append(p \o r, x) /\ p \o r \in Seq(S)
    OBVIOUS
  <2>2. /\ Having(Append(p \o r, x), A) = Having(p \o r, A) \o Pick(x, A)
        /\ Having(Append(r, x), A) = Having(r, A) \o Pick(x, A)
        /\ Having(r, A) \in Seq(S)
    BY <2>1, HavingFacts
  <2>3. Pick(x, A) \in Seq(S)
    BY DEF Pick
  <2>4. Having(p \o r, A) = Having(p, A) \o Having(r, A)
    BY <1>2
  <2>5. (Having(p, A) \o Having(r, A)) \o Pick(x, A) = Having(p, A) \o (Having(r, A) \o Pick(x, A))
    BY <1>0, <2>2, <2>3
  <2> QED BY <2>1, <2>2, <2>4, <2>5
<1> HIDE DEF W
<1>3. Seq(S) \subseteq W
  BY <1>1, <1>2, SeqInd
<1> QED BY <1>3 DEF W

LEMMA HavingBoth ==
    ASSUME NEW S, NEW A, NEW B, NEW q \in Seq(S)
    PROVE  Having(Having(q, A), B) = Having(q, A \cap B)
<1> DEFINE W == {r \in Seq(S) : Having(Having(r, A), B) = Having(r, A \cap B)}
<1>1. <<>> \in W
  <2>1. <<>> \in Seq(S)
    OBVIOUS
  <2> QED BY <2>1, HavingFacts
<1>2. ASSUME NEW r \in Seq(S), NEW x \in S, r \in W PROVE Append(r, x) \in W
  <2>0. Append(r, x) \in Seq(S)
    OBVIOUS
  <2>1. Append(r, x) \in Seq(S) /\ Having(r, A) \in Seq(S) /\ Having(r, A \cap B) \in Seq(S)
    BY <2>0, HavingFacts
  <2>2. Having(Append(r, x), A) = Having(r, A) \o Pick(x, A)
    BY HavingFacts
  <2>3. Having(Append(r, x), A \cap B) = Having(r, A \cap B) \o Pick(x, A \cap B)
    BY HavingFacts
  <2>4. Pick(x, A) \in Seq(S)
    BY DEF Pick
  <2>5. Having(Having(r, A) \o Pick(x, A), B) = Having(Having(r, A), B) \o Having(Pick(x, A), B)
    BY <2>1, <2>4, HavingJoined
  <2>6. Having(Pick(x, A), B) = Pick(x, A \cap B)
    <3>1. CASE x[1] \notin A
      BY <3>1, HavingFacts DEF Pick
    <3>2. CASE x[1] \in A
      <4>1. <<>> \in Seq(S) /\ <<x>> = Append(<<>>, x)
        OBVIOUS
      <4>2. Having(<<x>>, B) = <<>> \o Pick(x, B)
        BY <4>1, HavingFacts
      <4>3. Pick(x, B) \in Seq(S)
        BY DEF Pick
      <4>4. <<>> \o Pick(x, B) = Pick(x, B)
        BY <4>3
      <4> QED BY <3>2, <4>2, <4>4 DEF Pick
    <3> QED BY <3>1, <3>2
  <2>7. Having(Having(r, A), B) = Having(r, A \cap B)
    BY <1>2
  <2> QED BY <2>1, <2>2, <2>3, <2>5, <2>6, <2>7
<1> HIDE DEF W
<1>3. Seq(S) \subseteq W
  BY <1>1, <1>2, SeqInd
<1> QED BY <1>3 DEF W

LEMMA HavingNone ==
    ASSUME NEW S, NEW q \in Seq(S)
    PROVE  Having(q, {}) = <<>>
<1> DEFINE W == {r \in Seq(S) : Having(r, {}) = <<>>}
<1>1. <<>> \in W
  <2>1. <<>> \in Seq(S)
    OBVIOUS
  <2> QED BY <2>1, HavingFacts
<1>2. ASSUME NEW r \in Seq(S), NEW x \in S, r \in W PROVE Append(r, x) \in W
  <2>1. Append(r, x) \in Seq(S)
    OBVIOUS
  <2>2. Having(Append(r, x), {}) = Having(r, {}) \o Pick(x, {})
    BY HavingFacts
  <2>3. Pick(x, {}) = <<>> /\ Having(r, {}) = <<>>
    BY <1>2 DEF Pick
  <2>4. <<>> \o <<>> = <<>>
    OBVIOUS
  <2> QED BY <2>1, <2>2, <2>3, <2>4
<1> HIDE DEF W
<1>3. Seq(S) \subseteq W
  BY <1>1, <1>2, SeqInd
<1> QED BY <1>3 DEF W

Untracked == {k \in Range(KeyOrder) : ~is_tracking_param(k)}
Parts(q) == [i \in DOMAIN KeyOrder |-> Having(Kept(q), {KeyOrder[i]})]

LEMMA PartsFacts ==
    ASSUME NEW S, NEW q \in Seq(S)
    PROVE  /\ Parts(q) \in Seq(Seq(S)) /\ Len(Parts(q)) = Len(KeyOrder)
           /\ CanonicalQuery(q) = FlattenSeq(Parts(q)) /\ CanonicalQuery(q) \in Seq(S)
           /\ \A i \in 1..Len(KeyOrder) : Parts(q)[i] = Having(q, Untracked \cap {KeyOrder[i]})
<1>1. Len(KeyOrder) \in Nat /\ DOMAIN KeyOrder = 1..Len(KeyOrder)
  BY UrlAssumption
<1>2. Kept(q) = Having(q, Untracked) /\ Kept(q) \in Seq(S)
  BY HavingFacts DEF Kept, Untracked
<1>3. Parts(q) = [i \in 1..Len(KeyOrder) |-> Having(Kept(q), {KeyOrder[i]})]
  BY <1>1 DEF Parts
<1>4. ASSUME NEW i \in 1..Len(KeyOrder)
      PROVE  /\ Parts(q)[i] = Having(q, Untracked \cap {KeyOrder[i]})
             /\ Having(Kept(q), {KeyOrder[i]}) \in Seq(S)
  <2>1. Having(Kept(q), {KeyOrder[i]}) \in Seq(S)
    BY <1>2, HavingFacts
  <2>2. Having(Having(q, Untracked), {KeyOrder[i]}) = Having(q, Untracked \cap {KeyOrder[i]})
    BY HavingBoth
  <2> QED BY <1>2, <1>3, <2>1, <2>2
<1>5. Parts(q) \in [1..Len(KeyOrder) -> Seq(S)]
  BY <1>3, <1>4
<1>6. Parts(q) \in Seq(Seq(S)) /\ Len(Parts(q)) = Len(KeyOrder)
  BY <1>1, <1>5
<1>7. CanonicalQuery(q) = FlattenSeq(Parts(q))
  BY DEF CanonicalQuery, Parts
<1> QED BY <1>4, <1>6, <1>7, FlattenFacts

\* The canonical query has, for each key, the pairs of the query, unless the key
\* tracks.
LEMMA CanonicalKeys ==
    ASSUME NEW S, NEW q \in Seq(S), NEW k
    PROVE  Having(CanonicalQuery(q), {k}) = Having(q, Untracked \cap {k})
<1> DEFINE N == Len(KeyOrder)
           T == Seq(S)
           parts == Parts(q)
           all == Having(q, Untracked \cap {k})
           Joined(n) == FlattenSeq(SubSeq(parts, 1, n))
           M == {n \in Nat : n <= N => /\ Joined(n) \in Seq(S)
                                       /\ Having(Joined(n), {k}) =
                                            IF \E i \in 1..n : KeyOrder[i] = k THEN all ELSE <<>>}
<1>1. N \in Nat /\ DOMAIN KeyOrder = 1..N
  BY UrlAssumption
<1>2. /\ parts \in Seq(T) /\ Len(parts) = N
      /\ CanonicalQuery(q) = FlattenSeq(parts)
      /\ \A i \in 1..N : parts[i] = Having(q, Untracked \cap {KeyOrder[i]}) /\ parts[i] \in T
  <2>1. /\ parts \in Seq(T) /\ Len(parts) = N
        /\ CanonicalQuery(q) = FlattenSeq(parts)
        /\ \A i \in 1..N : parts[i] = Having(q, Untracked \cap {KeyOrder[i]})
    BY PartsFacts
  <2> HIDE DEF parts, T
  <2>2. \A i \in 1..N : parts[i] \in T
    BY <2>1
  <2> QED BY <2>1, <2>2
<1>3. all \in Seq(S)
  BY HavingFacts
<1> HIDE DEF parts, all
<1>4. 0 \in M
  <2>1. SubSeq(parts, 1, 0) = <<>>
    <3> HIDE DEF T
    <3> QED BY <1>2
  <2>2. FlattenSeq(<<>>) = <<>> /\ Having(<<>>, {k}) = <<>>
    BY FlattenFacts, HavingFacts
  <2>3. Joined(0) = <<>> /\ <<>> \in Seq(S)
    <3>1. <<>> \in Seq(S)
      OBVIOUS
    <3>2. Joined(0) = FlattenSeq(<<>>)
      BY <2>1, Zenon
    <3> QED BY <2>2, <3>1, <3>2, Zenon
  <2>4. ~\E i \in 1..0 : KeyOrder[i] = k
    OBVIOUS
  <2> HIDE DEF Joined
  <2> QED BY <2>2, <2>3, <2>4
<1>5. ASSUME NEW n \in Nat, n \in M PROVE n + 1 \in M
  <2> SUFFICES ASSUME n + 1 <= N
               PROVE  /\ Joined(n + 1) \in Seq(S)
                      /\ Having(Joined(n + 1), {k}) =
                           IF \E i \in 1..(n + 1) : KeyOrder[i] = k THEN all ELSE <<>>
    OBVIOUS
  <2> DEFINE old == Joined(n)
             new == parts[n + 1]
             key == KeyOrder[n + 1]
  <2>1. n <= N /\ n + 1 \in 1..N
    BY <1>1
  <2>2. /\ old \in Seq(S) /\ new \in Seq(S) /\ new = Having(q, Untracked \cap {key})
        /\ Having(old, {k}) = IF \E i \in 1..n : KeyOrder[i] = k THEN all ELSE <<>>
    BY <1>2, <1>5, <2>1
  <2>3. Joined(n + 1) = old \o new
    <3> DEFINE front == SubSeq(parts, 1, n)
    <3>1. front \in Seq(T) /\ new \in T /\ SubSeq(parts, 1, n + 1) = Append(front, new)
      <4> HIDE DEF T
      <4>1. /\ SubSeq(parts, 1, n + 1) \in Seq(T) /\ Len(SubSeq(parts, 1, n + 1)) = n + 1
            /\ front \in Seq(T) /\ Len(front) = n /\ new \in T
            /\ \A i \in 1..n : front[i] = parts[i]
            /\ \A i \in 1..(n + 1) : SubSeq(parts, 1, n + 1)[i] = parts[i]
        BY <1>1, <1>2, <2>1
      <4> DEFINE longer == SubSeq(parts, 1, n + 1)
      <4> HIDE DEF longer, front, new
      <4>2. /\ Append(front, new) \in Seq(T) /\ Len(Append(front, new)) = n + 1
            /\ \A i \in 1..n : Append(front, new)[i] = front[i]
            /\ Append(front, new)[n + 1] = new
        BY <4>1
      <4>3. \A i \in 1..(n + 1) : longer[i] = Append(front, new)[i]
        BY <4>1, <4>2 DEF longer, new
      <4>4. longer = Append(front, new)
        BY <4>1, <4>2, <4>3 DEF longer
      <4> QED BY <4>1, <4>4 DEF longer
    <3> HIDE DEF front, new
    <3>2. FlattenSeq(Append(front, new)) = FlattenSeq(front) \o new
      BY <3>1, FlattenFacts
    <3> QED BY <3>1, <3>2 DEF front
  <2>4. Having(new, {k}) = IF key = k THEN all ELSE <<>>
    <3>1. Having(new, {k}) = Having(q, (Untracked \cap {key}) \cap {k})
      BY <2>2, HavingBoth
    <3>2. CASE key = k
      <4>1. (Untracked \cap {key}) \cap {k} = Untracked \cap {k}
        BY <3>2
      <4> QED BY <3>1, <3>2, <4>1 DEF all
    <3>3. CASE key # k
      <4>1. (Untracked \cap {key}) \cap {k} = {}
        BY <3>3
      <4>2. Having(q, {}) = <<>>
        BY HavingNone
      <4> QED BY <3>1, <3>3, <4>1, <4>2
    <3> QED BY <3>2, <3>3
  <2> HIDE DEF old, new
  <2>5. Having(old \o new, {k}) = Having(old, {k}) \o Having(new, {k})
    <3>1. old \in Seq(S) /\ new \in Seq(S)
      BY <2>2
    <3> QED BY <3>1, HavingJoined
  <2>6. old \o new \in Seq(S)
    BY <2>2
  <2>7. all \o <<>> = all /\ <<>> \o all = all /\ <<>> \o <<>> = <<>>
    BY <1>3
  <2>8. \A i \in 1..n : KeyOrder[i] # key
    BY <1>1, <2>1, UrlAssumption
  <2>9. (\E i \in 1..(n + 1) : KeyOrder[i] = k) <=> (\E i \in 1..n : KeyOrder[i] = k) \/ key = k
    <3>1. \A i \in 1..(n + 1) : i \in 1..n \/ i = n + 1
      OBVIOUS
    <3>2. n + 1 \in 1..(n + 1) /\ \A i \in 1..n : i \in 1..(n + 1)
      OBVIOUS
    <3> QED BY <3>1, <3>2
  <2> HIDE DEF Joined, key, all
  <2>10. CASE key = k
    <3>1. Having(old, {k}) = <<>>
      BY <2>2, <2>8, <2>10
    <3> QED BY <2>3, <2>4, <2>5, <2>6, <2>7, <2>9, <2>10, <3>1
  <2>11. CASE key # k /\ \E i \in 1..n : KeyOrder[i] = k
    BY <2>2, <2>3, <2>4, <2>5, <2>6, <2>7, <2>9, <2>11
  <2>12. CASE key # k /\ ~\E i \in 1..n : KeyOrder[i] = k
    BY <2>2, <2>3, <2>4, <2>5, <2>6, <2>7, <2>9, <2>12
  <2> QED BY <2>10, <2>11, <2>12
<1>6. SubSeq(parts, 1, N) = parts
  <2> HIDE DEF T
  <2> QED BY <1>1, <1>2
<1>7. CanonicalQuery(q) = Joined(N)
  BY <1>2, <1>6
<1> HIDE DEF M
<1>8. Nat \subseteq M
  BY <1>4, <1>5, NatInd
<1>9. Having(Joined(N), {k}) = IF \E i \in 1..N : KeyOrder[i] = k THEN all ELSE <<>>
  <2>1. N \in M /\ N <= N
    BY <1>1, <1>8
  <2> HIDE DEF Joined
  <2> QED BY <2>1 DEF M
<1>10. CASE \E i \in 1..N : KeyOrder[i] = k
  BY <1>7, <1>9, <1>10 DEF all
<1>11. CASE ~\E i \in 1..N : KeyOrder[i] = k
  <2>1. Untracked \cap {k} = {}
    BY <1>1, <1>11 DEF Untracked, Range
  <2>2. Having(q, {}) = <<>>
    BY HavingNone
  <2> QED BY <1>7, <1>9, <1>11, <2>1, <2>2
<1> QED BY <1>10, <1>11

\* Queries with the same pairs for each key have one canonical form.
LEMMA CanonicalSame ==
    ASSUME NEW S, NEW q \in Seq(S), NEW r \in Seq(S),
           \A k \in Untracked : Having(q, {k}) = Having(r, {k})
    PROVE  CanonicalQuery(q) = CanonicalQuery(r)
<1>1. Len(KeyOrder) \in Nat /\ DOMAIN KeyOrder = 1..Len(KeyOrder)
  BY UrlAssumption
<1>2. /\ Parts(q) \in Seq(Seq(S)) /\ Len(Parts(q)) = Len(KeyOrder)
      /\ CanonicalQuery(q) = FlattenSeq(Parts(q))
      /\ \A i \in 1..Len(KeyOrder) : Parts(q)[i] = Having(q, Untracked \cap {KeyOrder[i]})
  BY PartsFacts
<1>3. /\ Parts(r) \in Seq(Seq(S)) /\ Len(Parts(r)) = Len(KeyOrder)
      /\ CanonicalQuery(r) = FlattenSeq(Parts(r))
      /\ \A i \in 1..Len(KeyOrder) : Parts(r)[i] = Having(r, Untracked \cap {KeyOrder[i]})
  BY PartsFacts
<1>4. ASSUME NEW i \in 1..Len(KeyOrder) PROVE Parts(q)[i] = Parts(r)[i]
  <2>1. CASE KeyOrder[i] \in Untracked
    <3>1. Untracked \cap {KeyOrder[i]} = {KeyOrder[i]}
      BY <2>1
    <3> QED BY <1>2, <1>3, <2>1, <3>1
  <2>2. CASE KeyOrder[i] \notin Untracked
    <3>1. Untracked \cap {KeyOrder[i]} = {}
      BY <2>2
    <3>2. Having(q, {}) = <<>> /\ Having(r, {}) = <<>>
      BY HavingNone
    <3> QED BY <1>2, <1>3, <3>1, <3>2
  <2> QED BY <2>1, <2>2
<1> DEFINE T == Seq(S)
           a == Parts(q)
           b == Parts(r)
<1>5. a \in Seq(T) /\ b \in Seq(T) /\ Len(a) = Len(b) /\ \A i \in 1..Len(a) : a[i] = b[i]
  BY <1>2, <1>3, <1>4
<1> HIDE DEF T, a, b
<1>6. a = b
  BY <1>5
<1> QED BY <1>2, <1>3, <1>6 DEF a, b

LEMMA CanonicalTwice ==
    ASSUME NEW S, NEW q \in Seq(S)
    PROVE  CanonicalQuery(CanonicalQuery(q)) = CanonicalQuery(q)
<1>1. CanonicalQuery(q) \in Seq(S)
  BY PartsFacts
<1>2. ASSUME NEW k \in Untracked PROVE Having(CanonicalQuery(q), {k}) = Having(q, {k})
  <2>1. Untracked \cap {k} = {k}
    OBVIOUS
  <2> QED BY <2>1, CanonicalKeys
<1> QED BY <1>1, <1>2, CanonicalSame

-----------------------------------------------------------------------------
(* Normal forms of URLs *)

Pair == Range(KeyOrder) \X STRING
Shape == [scheme : STRING, userinfo : BOOLEAN, host : Seq(Label), port : {""} \cup STRING,
          path : Seq(STRING), query : Seq(Pair), fragment : BOOLEAN]

LEMMA ParsedShape ==
    ASSUME NEW u
    PROVE  u \in ParsedUrl <=> u \in Shape /\ (Http(u) => u.path # <<>> /\ Head(u.path) = "/")
BY DEF ParsedUrl, Shape, Pair

LEMMA SomePort ==
    ASSUME NEW u, Http(u)
    PROVE  DefaultPort[u.scheme] # ""
<1>1. CASE u.scheme = "http"
  BY <1>1 DEF DefaultPort
<1>2. CASE u.scheme = "https"
  BY <1>2 DEF DefaultPort
<1> QED BY <1>1, <1>2 DEF Http

NormalPort(u) == IF Http(u) /\ u.port = DefaultPort[u.scheme] THEN "" ELSE u.port

LEMMA NormalFields ==
    ASSUME NEW u \in ParsedUrl
    PROVE  /\ u # None
           /\ normalize_url(u) = [u EXCEPT !.fragment = FALSE, !.userinfo = FALSE,
                                           !.port = NormalPort(u), !.query = CanonicalQuery(u.query)]
<1>1. u # None
  BY UrlAssumption
<1>2. u \in Shape
  BY ParsedShape
<1> QED BY <1>1, <1>2 DEF normalize_url, NormalPort, Shape

\* A normal form is that of a URL, of the same place.
LEMMA NormalParsed ==
    ASSUME NEW u \in ParsedUrl
    PROVE  LET n == normalize_url(u)
           IN  /\ n \in ParsedUrl /\ n # None
               /\ n.scheme = u.scheme /\ n.host = u.host /\ n.path = u.path
               /\ n.fragment = FALSE /\ n.userinfo = FALSE
               /\ n.port = NormalPort(u) /\ n.query = CanonicalQuery(u.query)
<1> DEFINE n == normalize_url(u)
<1>1. u \in Shape /\ (Http(u) => u.path # <<>> /\ Head(u.path) = "/")
  BY ParsedShape
<1>2. u.query \in Seq(Pair) /\ u.port \in {""} \cup STRING
  BY <1>1 DEF Shape
<1>3. CanonicalQuery(u.query) \in Seq(Pair)
  BY <1>2, PartsFacts
<1>4. NormalPort(u) \in {""} \cup STRING
  BY <1>2 DEF NormalPort
<1>5. n = [u EXCEPT !.fragment = FALSE, !.userinfo = FALSE,
                    !.port = NormalPort(u), !.query = CanonicalQuery(u.query)]
  BY NormalFields
<1> HIDE DEF n
<1>6. /\ n \in Shape
      /\ n.scheme = u.scheme /\ n.host = u.host /\ n.path = u.path
      /\ n.fragment = FALSE /\ n.userinfo = FALSE
      /\ n.port = NormalPort(u) /\ n.query = CanonicalQuery(u.query)
  BY <1>1, <1>3, <1>4, <1>5 DEF Shape
<1>7. Http(n) = Http(u)
  BY <1>6 DEF Http
<1>8. n \in ParsedUrl
  BY <1>1, <1>6, <1>7, ParsedShape
<1>9. n # None
  BY <1>8, UrlAssumption
<1> QED BY <1>6, <1>8, <1>9 DEF n

LEMMA NormalPorts ==
    ASSUME NEW u \in ParsedUrl
    PROVE  LET n == normalize_url(u)
           IN  /\ Port(n) = Port(u)
               /\ NormalPort(n) = n.port
<1> DEFINE n == normalize_url(u)
<1>1. n.scheme = u.scheme /\ n.port = NormalPort(u)
  BY NormalParsed
<1> HIDE DEF n
<1>2. Http(n) = Http(u)
  BY <1>1 DEF Http
<1>3. Http(u) => DefaultPort[u.scheme] # ""
  BY SomePort
<1>4. Port(n) = Port(u)
  BY <1>1, <1>2, <1>3 DEF Port, NormalPort
<1>5. NormalPort(n) = n.port
  BY <1>1, <1>2, <1>3 DEF NormalPort
<1> QED BY <1>4, <1>5 DEF n

LEMMA FieldsEqual ==
    ASSUME NEW A, NEW B, NEW C, NEW D, NEW E, NEW F, NEW G,
           NEW u \in [scheme : A, userinfo : B, host : C, port : D, path : E, query : F, fragment : G],
           NEW v \in [scheme : A, userinfo : B, host : C, port : D, path : E, query : F, fragment : G],
           u.scheme = v.scheme, u.userinfo = v.userinfo, u.host = v.host, u.port = v.port,
           u.path = v.path, u.query = v.query, u.fragment = v.fragment
    PROVE  u = v
OBVIOUS

LEMMA RecordsEqual ==
    ASSUME NEW u \in Shape, NEW v \in Shape,
           u.scheme = v.scheme, u.userinfo = v.userinfo, u.host = v.host, u.port = v.port,
           u.path = v.path, u.query = v.query, u.fragment = v.fragment
    PROVE  u = v
BY FieldsEqual, Zenon DEF Shape

\* normalize_url says all it has to say the first time.
LEMMA NormalTwice ==
    ASSUME NEW u \in ParsedUrl
    PROVE  normalize_url(normalize_url(u)) = normalize_url(u)
<1> DEFINE n == normalize_url(u)
           m == normalize_url(n)
<1>1. /\ n \in ParsedUrl /\ n.fragment = FALSE /\ n.userinfo = FALSE
      /\ n.query = CanonicalQuery(u.query)
  BY NormalParsed
<1>2. NormalPort(n) = n.port
  BY NormalPorts
<1> HIDE DEF n
<1>3. /\ m \in ParsedUrl
      /\ m.scheme = n.scheme /\ m.host = n.host /\ m.path = n.path
      /\ m.fragment = FALSE /\ m.userinfo = FALSE
      /\ m.port = NormalPort(n) /\ m.query = CanonicalQuery(n.query)
  BY <1>1, NormalParsed
<1> HIDE DEF m
<1>4. u \in Shape /\ n \in Shape /\ m \in Shape
  BY <1>1, <1>3, ParsedShape
<1>5. u.query \in Seq(Pair)
  BY <1>4 DEF Shape
<1>6. CanonicalQuery(n.query) = n.query
  BY <1>1, <1>5, CanonicalTwice
<1>7. m = n
  BY <1>1, <1>2, <1>3, <1>4, <1>6, RecordsEqual
<1> QED BY <1>7 DEF m, n

\* Of one page there is one normal form.
LEMMA NormalSame ==
    ASSUME NEW u \in ParsedUrl, NEW v \in ParsedUrl,
           normalize_url(u) = u, normalize_url(v) = v, SamePage(u, v)
    PROVE  u = v
<1>1. /\ u.fragment = FALSE /\ u.userinfo = FALSE
      /\ u.port = NormalPort(u) /\ u.query = CanonicalQuery(u.query)
  BY NormalParsed
<1>2. /\ v.fragment = FALSE /\ v.userinfo = FALSE
      /\ v.port = NormalPort(v) /\ v.query = CanonicalQuery(v.query)
  BY NormalParsed
<1>3. u \in Shape /\ v \in Shape
  BY ParsedShape
<1>4. u.scheme = v.scheme /\ u.host = v.host /\ u.path = v.path /\ Port(u) = Port(v)
  BY DEF SamePage
<1>5. Http(u) = Http(v)
  BY <1>4 DEF Http
<1>6. u.port = v.port
  <2>1. CASE ~Http(u)
    BY <1>4, <1>5, <2>1 DEF Port
  <2>2. CASE Http(u)
    <3> DEFINE d == DefaultPort[u.scheme]
    <3>1. d = DefaultPort[v.scheme] /\ u.port # d /\ v.port # d
      <4>1. d # ""
        BY <2>2, SomePort
      <4> QED BY <1>1, <1>2, <1>4, <1>5, <2>2, <4>1 DEF NormalPort
    <3> HIDE DEF d
    <3>2. Port(u) = (IF u.port # "" THEN u.port ELSE d) /\ Port(v) = (IF v.port # "" THEN v.port ELSE d)
      BY <1>4, <1>5, <2>2, <3>1 DEF Port, d
    <3> QED BY <1>4, <3>1, <3>2
  <2> QED BY <2>1, <2>2
<1>7. u.query \in Seq(Pair) /\ v.query \in Seq(Pair)
  BY <1>3 DEF Shape
<1>8. \A k \in Untracked : Having(u.query, {k}) = Having(v.query, {k})
  BY DEF SamePage, Untracked, is_tracking_param
<1>9. CanonicalQuery(u.query) = CanonicalQuery(v.query)
  BY <1>7, <1>8, CanonicalSame
<1> QED BY <1>1, <1>2, <1>3, <1>4, <1>6, <1>9, RecordsEqual

-----------------------------------------------------------------------------
(* The texts of URLs *)

LEMMA StripFacts ==
    ASSUME NEW S, NEW h \in Seq(S)
    PROVE  /\ StripWww(h) \in Seq(S) /\ Len(StripWww(h)) \in Nat
           /\ \A i \in 1..Len(StripWww(h)) : StripWww(h)[i] \in S
<1>1. StripWww(h) \in Seq(S)
  BY DEF StripWww, HasWww
<1> HIDE DEF StripWww, HasWww
<1> QED BY <1>1

LEMMA SeqWider ==
    ASSUME NEW S, NEW T, S \subseteq T, NEW s \in Seq(S)
    PROVE  s \in Seq(T)
OBVIOUS

Token == STRING \cup {"", "://", ":", "?", "=", "&"}
Chain(a, b, c, d, e) == a \o b \o c \o d \o e
PortText(u) == IF u.port = "" THEN <<>> ELSE <<":", u.port>>
PairTexts(u) == [k \in DOMAIN u.query |-> <<u.query[k][1], "=", u.query[k][2], "&">>]
QueryText(u) == IF u.query = <<>> THEN <<>> ELSE <<"?">> \o FlattenSeq(PairTexts(u))

LEMMA Smallest ==
    ASSUME NEW A, A \subseteq Nat, A # {}
    PROVE  \E k \in A : \A j \in A : k <= j
<1> SUFFICES ASSUME ~\E k \in A : \A j \in A : k <= j PROVE FALSE
  OBVIOUS
<1> DEFINE N == {n \in Nat : \A j \in A : n <= j}
<1>1. 0 \in N
  OBVIOUS
<1>2. ASSUME NEW n \in Nat, n \in N PROVE n + 1 \in N
  BY <1>2
<1> HIDE DEF N
<1>3. Nat \subseteq N
  BY <1>1, <1>2, NatInd
<1>4. PICK a \in A : TRUE
  OBVIOUS
<1>5. a \in Nat /\ a + 1 \in N
  BY <1>3, <1>4
<1> QED BY <1>4, <1>5 DEF N

LEMMA PathFacts ==
    ASSUME NEW u \in ParsedUrl
    PROVE  /\ PathText(u) \in Seq(Token)
           /\ Http(u) => PathText(u) # <<>> /\ Head(PathText(u)) = "/"
<1> DEFINE d == u.path
           at == {k \in DOMAIN d : d[k] = "://www."}
           first == CHOOSE k \in at : \A j \in at : k <= j
           e == [d EXCEPT ![first] = "://"]
<1>1. d \in Seq(STRING) /\ (Http(u) => d # <<>> /\ Head(d) = "/")
  <2>1. u \in Shape /\ (Http(u) => d # <<>> /\ Head(d) = "/")
    BY ParsedShape
  <2> QED BY <2>1 DEF Shape
<1>2. PathText(u) = IF HasWww(u.host) \/ at = {} THEN d ELSE e
  BY Zenon DEF PathText
<1>3. STRING \subseteq Token /\ "://" \in Token
  BY DEF Token
<1> HIDE DEF d
<1>4. d \in Seq(Token)
  BY <1>1, <1>3, SeqWider
<1>5. CASE PathText(u) = d
  BY <1>1, <1>4, <1>5
<1>6. CASE at # {} /\ PathText(u) = e
  <2>1. at \subseteq Nat
    BY <1>4
  <2>2. first \in at
    <3> HIDE DEF at
    <3> QED BY <1>6, <2>1, Smallest
  <2>3. first \in DOMAIN d /\ d[first] = "://www."
    <3> HIDE DEF first
    <3> QED BY <2>2
  <2> HIDE DEF first, at
  <2>4. e \in Seq(Token) /\ Len(e) = Len(d) /\ \A i \in 1..Len(d) : i # first => e[i] = d[i]
    BY <1>3, <1>4, <2>3
  <2> HIDE DEF e
  <2>5. ASSUME Http(u) PROVE e # <<>> /\ Head(e) = "/"
    <3>1. Len(d) \in Nat /\ Len(d) # 0 /\ d[1] = "/"
      BY <1>1, <1>4, <2>5
    <3>2. first # 1
      BY <2>3, <3>1
    <3>3. e[1] = "/" /\ Len(e) # 0
      BY <2>4, <3>1, <3>2
    <3> QED BY <2>4, <3>3
  <2> QED BY <1>6, <2>4, <2>5
<1> QED BY <1>2, <1>5, <1>6

LEMMA TextParts ==
    ASSUME NEW u \in ParsedUrl
    PROVE  /\ StripWww(u.host) \in Seq(Token) /\ PortText(u) \in Seq(Token)
           /\ PathText(u) \in Seq(Token) /\ QueryText(u) \in Seq(Token)
           /\ \A i \in 1..Len(StripWww(u.host)) : StripWww(u.host)[i] \in Label
           /\ <<u.scheme, "://">> \in Seq(Token)
           /\ Text(u) = Chain(<<u.scheme, "://">>, StripWww(u.host), PortText(u), PathText(u), QueryText(u))
<1>1. /\ u.host \in Seq(Label) /\ u.port \in {""} \cup STRING /\ u.path \in Seq(STRING)
      /\ u.query \in Seq(Pair) /\ u.scheme \in STRING
  <2>1. u \in Shape
    BY ParsedShape
  <2> QED BY <2>1 DEF Shape
<1>2. Label \subseteq Token /\ STRING \subseteq Token
  BY DEF Label, Token
<1>3. /\ StripWww(u.host) \in Seq(Token)
      /\ \A i \in 1..Len(StripWww(u.host)) : StripWww(u.host)[i] \in Label
  <2> DEFINE h == StripWww(u.host)
  <2>1. h \in Seq(Label)
    BY <1>1, StripFacts
  <2> HIDE DEF h
  <2>2. h \in Seq(Token) /\ \A i \in 1..Len(h) : h[i] \in Label
    BY <1>2, <2>1
  <2> QED BY <2>2 DEF h
<1>4. PortText(u) \in Seq(Token)
  <2>1. ":" \in Token /\ u.port \in Token
    BY <1>1 DEF Token
  <2>2. <<":", u.port>> \in Seq(Token) /\ <<>> \in Seq(Token)
    BY <2>1
  <2> QED BY <2>2 DEF PortText
<1>5. PathText(u) \in Seq(Token)
  BY PathFacts
<1>6. QueryText(u) \in Seq(Token)
  <2> DEFINE q == u.query
             T == Seq(Token)
  <2>1. q \in Seq(Pair) /\ \A p \in Pair : p[1] \in STRING /\ p[2] \in STRING
    <3>1. Range(KeyOrder) \subseteq STRING
      BY UrlAssumption DEF Range
    <3> QED BY <1>1, <3>1 DEF Pair
  <2>2. Len(q) \in Nat /\ DOMAIN q = 1..Len(q) /\ \A k \in 1..Len(q) : q[k] \in Pair
    BY <2>1
  <2>3. \A k \in 1..Len(q) : q[k][1] \in Token /\ q[k][2] \in Token /\ "=" \in Token /\ "&" \in Token
    BY <1>2, <2>1, <2>2 DEF Token
  <2>4. \A k \in 1..Len(q) : <<q[k][1], "=", q[k][2], "&">> \in T
    BY <2>3
  <2> HIDE DEF T, q
  <2>5. PairTexts(u) \in [1..Len(q) -> T]
    BY <2>2, <2>4 DEF PairTexts, q
  <2>6. PairTexts(u) \in Seq(T)
    BY <2>2, <2>5
  <2>7. FlattenSeq(PairTexts(u)) \in Seq(Token)
    BY <2>6, FlattenFacts DEF T
  <2>8. <<"?">> \in Seq(Token)
    BY DEF Token
  <2>9. <<"?">> \o FlattenSeq(PairTexts(u)) \in Seq(Token)
    BY <2>7, <2>8, ConcatProperties
  <2>10. <<>> \in Seq(Token)
    OBVIOUS
  <2> QED BY <2>9, <2>10 DEF QueryText
<1>7. <<u.scheme, "://">> \in Seq(Token)
  <2>1. u.scheme \in Token /\ "://" \in Token
    BY <1>1 DEF Token
  <2> QED BY <2>1
<1>8. Text(u) = Chain(<<u.scheme, "://">>, StripWww(u.host), PortText(u), PathText(u), QueryText(u))
  BY Zenon DEF Chain, Text, PortText, QueryText, PairTexts
<1> QED BY <1>3, <1>4, <1>5, <1>6, <1>7, <1>8

LEMMA Joined2 ==
    ASSUME NEW S, NEW a \in Seq(S), NEW b \in Seq(S)
    PROVE  /\ a \o b \in Seq(S) /\ Len(a \o b) = Len(a) + Len(b)
           /\ \A i \in 1..Len(a) : (a \o b)[i] = a[i]
           /\ \A i \in 1..Len(b) : (a \o b)[Len(a) + i] = b[i]
OBVIOUS

LEMMA ChainFacts ==
    ASSUME NEW S, NEW a \in Seq(S), NEW b \in Seq(S), NEW c \in Seq(S), NEW d \in Seq(S), NEW e \in Seq(S)
    PROVE  /\ Chain(a, b, c, d, e) \in Seq(S)
           /\ Len(Chain(a, b, c, d, e)) >= Len(a) + Len(b) + Len(c) + Len(d)
           /\ \A i \in 1..Len(a) : Chain(a, b, c, d, e)[i] = a[i]
           /\ \A i \in 1..Len(b) : Chain(a, b, c, d, e)[Len(a) + i] = b[i]
           /\ \A i \in 1..Len(c) : Chain(a, b, c, d, e)[Len(a) + Len(b) + i] = c[i]
           /\ \A i \in 1..Len(d) : Chain(a, b, c, d, e)[Len(a) + Len(b) + Len(c) + i] = d[i]
<1> DEFINE J(x, y) == x \o y
           ab == J(a, b)
           abc == J(ab, c)
           abcd == J(abc, d)
           s == J(abcd, e)
<1>0. Len(a) \in Nat /\ Len(b) \in Nat /\ Len(c) \in Nat /\ Len(d) \in Nat /\ Len(e) \in Nat
  OBVIOUS
<1>a. ASSUME NEW x \in Seq(S), NEW y \in Seq(S)
      PROVE  /\ J(x, y) \in Seq(S) /\ Len(J(x, y)) = Len(x) + Len(y)
             /\ \A i \in 1..Len(x) : J(x, y)[i] = x[i]
             /\ \A i \in 1..Len(y) : J(x, y)[Len(x) + i] = y[i]
  BY Joined2
<1> HIDE DEF J
<1>1. /\ ab \in Seq(S) /\ Len(ab) = Len(a) + Len(b)
      /\ \A i \in 1..Len(a) : ab[i] = a[i]
      /\ \A i \in 1..Len(b) : ab[Len(a) + i] = b[i]
  BY <1>a
<1> HIDE DEF ab
<1>2. /\ abc \in Seq(S) /\ Len(abc) = Len(ab) + Len(c)
      /\ \A i \in 1..Len(ab) : abc[i] = ab[i]
      /\ \A i \in 1..Len(c) : abc[Len(ab) + i] = c[i]
  BY <1>a, <1>1
<1> HIDE DEF abc
<1>3. /\ abcd \in Seq(S) /\ Len(abcd) = Len(abc) + Len(d)
      /\ \A i \in 1..Len(abc) : abcd[i] = abc[i]
      /\ \A i \in 1..Len(d) : abcd[Len(abc) + i] = d[i]
  BY <1>a, <1>2
<1> HIDE DEF abcd
<1>4. /\ s \in Seq(S) /\ Len(s) = Len(abcd) + Len(e)
      /\ \A i \in 1..Len(abcd) : s[i] = abcd[i]
  BY <1>a, <1>3
<1> HIDE DEF s
<1>5. s \in Seq(S) /\ Len(s) >= Len(a) + Len(b) + Len(c) + Len(d)
  BY <1>0, <1>1, <1>2, <1>3, <1>4
<1>6. ASSUME NEW i \in 1..Len(a) PROVE s[i] = a[i]
  BY <1>0, <1>1, <1>2, <1>3, <1>4
<1>7. ASSUME NEW i \in 1..Len(b) PROVE s[Len(a) + i] = b[i]
  <2> DEFINE j == Len(a) + i
  <2>1. j \in 1..Len(ab) /\ j \in 1..Len(abc) /\ j \in 1..Len(abcd)
    BY <1>0, <1>1, <1>2, <1>3
  <2>2. ab[j] = b[i]
    BY <1>1
  <2> HIDE DEF j
  <2>3. s[j] = b[i]
    BY <1>2, <1>3, <1>4, <2>1, <2>2
  <2> QED BY <2>3 DEF j
<1>8. ASSUME NEW i \in 1..Len(c) PROVE s[Len(a) + Len(b) + i] = c[i]
  <2> DEFINE j == Len(a) + Len(b) + i
  <2>1. j \in 1..Len(abc) /\ j \in 1..Len(abcd) /\ j = Len(ab) + i
    BY <1>0, <1>1, <1>2, <1>3
  <2> HIDE DEF j
  <2>2. abc[j] = c[i]
    BY <1>2, <2>1
  <2>3. s[j] = c[i]
    BY <1>3, <1>4, <2>1, <2>2
  <2> QED BY <2>3 DEF j
<1>9. ASSUME NEW i \in 1..Len(d) PROVE s[Len(a) + Len(b) + Len(c) + i] = d[i]
  BY <1>0, <1>1, <1>2, <1>3, <1>4
<1>10. Chain(a, b, c, d, e) = s
  BY Zenon DEF Chain, s, abcd, abc, ab, J
<1> QED BY <1>5, <1>6, <1>7, <1>8, <1>9, <1>10, Zenon

LEMMA TextScheme ==
    ASSUME NEW u \in ParsedUrl
    PROVE  Text(u) \in Seq(Token) /\ Len(Text(u)) >= 2 /\ Text(u)[1] = u.scheme
<1> DEFINE a == <<u.scheme, "://">>
           h == StripWww(u.host)
           p == PortText(u)
           d == PathText(u)
           q == QueryText(u)
<1>1. /\ a \in Seq(Token) /\ h \in Seq(Token) /\ p \in Seq(Token) /\ d \in Seq(Token) /\ q \in Seq(Token)
      /\ Text(u) = Chain(a, h, p, d, q)
  BY TextParts
<1>2. Len(a) = 2 /\ a[1] = u.scheme
  OBVIOUS
<1> HIDE DEF a, h, p, d, q
<1>3. Len(h) \in Nat /\ Len(p) \in Nat /\ Len(d) \in Nat
  BY <1>1
<1>4. /\ Text(u) \in Seq(Token) /\ Len(Text(u)) >= Len(a) + Len(h) + Len(p) + Len(d)
      /\ \A i \in 1..Len(a) : Text(u)[i] = a[i]
  BY <1>1, ChainFacts
<1> QED BY <1>2, <1>3, <1>4

\* The text of a URL that http serves: the labels of the host, what ends them,
\* and the port there may be.
LEMMA TextHost ==
    ASSUME NEW u \in ParsedUrl, Http(u)
    PROVE  LET h == StripWww(u.host)
               n == Len(h)
           IN  /\ h \in Seq(Label) /\ n \in Nat /\ Len(Text(u)) >= n + 3
               /\ \A i \in 1..n : Text(u)[2 + i] = h[i] /\ h[i] \in Label
               /\ Text(u)[n + 3] = IF u.port = "" THEN "/" ELSE ":"
               /\ u.port # "" => Len(Text(u)) >= n + 4 /\ Text(u)[n + 4] = u.port
<1> DEFINE a == <<u.scheme, "://">>
           h == StripWww(u.host)
           n == Len(h)
           p == PortText(u)
           d == PathText(u)
           q == QueryText(u)
<1>1. /\ a \in Seq(Token) /\ h \in Seq(Token) /\ p \in Seq(Token) /\ d \in Seq(Token) /\ q \in Seq(Token)
      /\ \A i \in 1..Len(h) : h[i] \in Label
      /\ Text(u) = Chain(a, h, p, d, q)
  BY TextParts
<1>2. Len(a) = 2
  OBVIOUS
<1>3. h \in Seq(Label)
  <2>1. u.host \in Seq(Label)
    <3>1. u \in Shape
      BY ParsedShape
    <3> QED BY <3>1 DEF Shape
  <2> QED BY <2>1, StripFacts
<1>4. d # <<>> /\ Head(d) = "/"
  BY PathFacts
<1>5. ASSUME u.port # ""
      PROVE  /\ Len(p) = 2 /\ 1 \in 1..Len(p) /\ 2 \in 1..Len(p)
             /\ p[1] = ":" /\ p[2] = u.port
  <2>1. p = <<":", u.port>>
    BY <1>5 DEF PortText
  <2>2. Len(p) = 2
    BY <2>1
  <2>3. p[1] = ":" /\ p[2] = u.port
    BY <2>1
  <2> QED BY <2>2, <2>3
<1>12. ASSUME u.port = "" PROVE Len(p) = 0
  BY <1>12 DEF PortText
<1> HIDE DEF a, h, p, d, q
<1>6. Len(h) \in Nat /\ Len(p) \in Nat /\ Len(d) \in Nat /\ Len(d) >= 1 /\ d[1] = "/"
  BY <1>1, <1>4
<1> DEFINE s == Text(u)
<1>7. /\ Len(s) >= Len(a) + Len(h) + Len(p) + Len(d)
      /\ \A i \in 1..Len(h) : s[Len(a) + i] = h[i]
      /\ \A i \in 1..Len(p) : s[Len(a) + Len(h) + i] = p[i]
      /\ \A i \in 1..Len(d) : s[Len(a) + Len(h) + Len(p) + i] = d[i]
  BY <1>1, ChainFacts
<1> HIDE DEF s
<1>8. Len(s) >= n + 3 /\ \A i \in 1..n : s[2 + i] = h[i] /\ h[i] \in Label
  BY <1>1, <1>2, <1>6, <1>7
<1> DEFINE After(i) == s[2 + n + i]
           Path(i) == s[2 + n + Len(p) + i]
<1>9. /\ \A i \in 1..Len(p) : After(i) = p[i]
      /\ \A i \in 1..Len(d) : Path(i) = d[i]
      /\ Len(s) >= 2 + n + Len(p) + Len(d)
  BY <1>2, <1>7
<1>10. s[n + 3] = IF u.port = "" THEN "/" ELSE ":"
  <2>1. CASE u.port = ""
    <3>1. Path(1) = "/"
      <4> HIDE DEF Path
      <4> QED BY <1>6, <1>9
    <3>2. 2 + n + Len(p) + 1 = n + 3
      <4>1. Len(p) = 0
        BY <1>12, <2>1
      <4> QED BY <1>6, <4>1
    <3> QED BY <2>1, <3>1, <3>2
  <2>2. CASE u.port # ""
    <3>1. After(1) = ":"
      <4> HIDE DEF After
      <4>1. p[1] = ":" /\ 1 \in 1..Len(p)
        BY <1>5, <2>2
      <4> QED BY <1>9, <4>1
    <3>2. 2 + n + 1 = n + 3
      BY <1>6
    <3> QED BY <2>2, <3>1, <3>2
  <2> QED BY <2>1, <2>2
<1>11. ASSUME u.port # "" PROVE Len(s) >= n + 4 /\ s[n + 4] = u.port
  <2>1. After(2) = u.port
    <3> HIDE DEF After
    <3>1. p[2] = u.port /\ 2 \in 1..Len(p)
      BY <1>5, <1>11
    <3> QED BY <1>9, <3>1
  <2>2. 2 + n + 2 = n + 4
    BY <1>6
  <2>3. Len(s) >= 2 + n + 2 + Len(d)
    <3> HIDE DEF After, Path
    <3>1. Len(p) = 2
      BY <1>5, <1>11
    <3> QED BY <1>9, <3>1
  <2>4. Len(s) >= n + 4
    <3>1. Len(s) \in Nat
      BY TextScheme DEF s
    <3> QED BY <1>6, <2>3, <3>1
  <2> QED BY <2>1, <2>2, <2>4
<1> QED BY <1>3, <1>6, <1>8, <1>10, <1>11 DEF h, s

LEMMA PrefixAgrees ==
    ASSUME NEW S, NEW s \in Seq(S), NEW r \in Seq(S), IsPrefix(s, r)
    PROVE  Len(s) <= Len(r) /\ \A i \in 1..Len(s) : s[i] = r[i]
<1>1. Len(s) \in Nat /\ Len(r) \in Nat /\ Len(s) <= Len(r) /\ SubSeq(s, 1, Len(s)) = SubSeq(r, 1, Len(s))
  BY DEF IsPrefix
<1>2. \A i \in 1..Len(s) : SubSeq(s, 1, Len(s))[i] = s[i] /\ SubSeq(r, 1, Len(s))[i] = r[i]
  BY <1>1
<1> QED BY <1>1, <1>2

\* What starts with the text of a URL is on its site: the labels of its host
\* end where those of the other end, at "/" or ":".
LEMMA TextSite ==
    ASSUME NEW u \in ParsedUrl, NEW p \in ParsedUrl, Http(p), IsPrefix(Text(p), Text(u))
    PROVE  u.scheme = p.scheme /\ StripWww(u.host) = StripWww(p.host) /\ u.port = p.port
<1> DEFINE s == Text(p)
           r == Text(u)
           g == StripWww(p.host)
           h == StripWww(u.host)
           m == Len(g)
           n == Len(h)
<1>1. /\ s \in Seq(Token) /\ Len(s) >= 2 /\ s[1] = p.scheme
      /\ r \in Seq(Token) /\ Len(r) >= 2 /\ r[1] = u.scheme
  BY TextScheme
<1>2. Len(s) \in Nat /\ Len(r) \in Nat /\ Len(s) <= Len(r) /\ \A i \in 1..Len(s) : s[i] = r[i]
  BY <1>1, PrefixAgrees
<1>3. u.scheme = p.scheme /\ Http(u)
  <2>1. u.scheme = p.scheme
    <3> HIDE DEF s, r
    <3> QED BY <1>1, <1>2
  <2> QED BY <2>1 DEF Http
<1>4. /\ g \in Seq(Label) /\ m \in Nat /\ Len(s) >= m + 3
      /\ \A i \in 1..m : s[2 + i] = g[i] /\ g[i] \in Label
      /\ s[m + 3] = IF p.port = "" THEN "/" ELSE ":"
      /\ p.port # "" => Len(s) >= m + 4 /\ s[m + 4] = p.port
  BY TextHost
<1>5. /\ h \in Seq(Label) /\ n \in Nat /\ Len(r) >= n + 3
      /\ \A i \in 1..n : r[2 + i] = h[i] /\ h[i] \in Label
      /\ r[n + 3] = IF u.port = "" THEN "/" ELSE ":"
      /\ u.port # "" => Len(r) >= n + 4 /\ r[n + 4] = u.port
  BY <1>3, TextHost
<1>6. "/" \notin Label /\ ":" \notin Label
  BY DEF Label
<1> DEFINE S(i) == s[i]
           R(i) == r[i]
<1>7. /\ m \in Nat /\ n \in Nat /\ Len(s) >= m + 3
      /\ \A i \in 1..(m + 3) : S(i) = R(i)
      /\ \A i \in 3..(m + 2) : S(i) = g[i - 2] /\ S(i) \in Label
      /\ \A i \in 3..(n + 2) : R(i) = h[i - 2] /\ R(i) \in Label
      /\ S(m + 3) \notin Label /\ R(n + 3) \notin Label
  <2> HIDE DEF s, r, g, h
  <2>0. m \in Nat /\ n \in Nat /\ Len(s) \in Nat /\ Len(s) >= m + 3
    BY <1>2, <1>4, <1>5
  <2> HIDE DEF m, n
  <2>1. \A i \in 1..(m + 3) : i \in 1..Len(s)
    BY <2>0
  <2>2. ASSUME NEW i \in 3..(m + 2) PROVE S(i) = g[i - 2] /\ S(i) \in Label
    <3>1. i - 2 \in 1..m /\ 2 + (i - 2) = i
      BY <2>0
    <3>2. s[2 + (i - 2)] = g[i - 2] /\ g[i - 2] \in Label
      BY <1>4, <3>1
    <3> QED BY <3>1, <3>2
  <2>3. ASSUME NEW i \in 3..(n + 2) PROVE R(i) = h[i - 2] /\ R(i) \in Label
    <3>1. i - 2 \in 1..n /\ 2 + (i - 2) = i
      BY <2>0
    <3>2. r[2 + (i - 2)] = h[i - 2] /\ h[i - 2] \in Label
      BY <1>5, <3>1
    <3> QED BY <3>1, <3>2
  <2>4. S(m + 3) \notin Label /\ R(n + 3) \notin Label
    BY <1>4, <1>5, <1>6
  <2> QED BY <1>2, <2>0, <2>1, <2>2, <2>3, <2>4
<1> HIDE DEF s, r, g, h, m, n, S, R
<1>8. ~(m < n)
  <2> SUFFICES ASSUME m < n PROVE FALSE
    OBVIOUS
  <2>1. m + 3 \in 3..(n + 2) /\ m + 3 \in 1..(m + 3)
    BY <1>7
  <2> QED BY <1>7, <2>1
<1>9. ~(n < m)
  <2> SUFFICES ASSUME n < m PROVE FALSE
    OBVIOUS
  <2>1. n + 3 \in 3..(m + 2) /\ n + 3 \in 1..(m + 3)
    BY <1>7
  <2> QED BY <1>7, <2>1
<1>10. m = n
  BY <1>7, <1>8, <1>9
<1>11. g = h
  <2>1. ASSUME NEW i \in 1..m PROVE g[i] = h[i]
    <3>1. i + 2 \in 3..(m + 2) /\ i + 2 \in 1..(m + 3) /\ (i + 2) - 2 = i
      BY <1>7
    <3>2. S(i + 2) = g[(i + 2) - 2] /\ R(i + 2) = h[(i + 2) - 2] /\ S(i + 2) = R(i + 2)
      BY <1>7, <1>10, <3>1
    <3> QED BY <3>1, <3>2
  <2>2. g \in Seq(Label) /\ h \in Seq(Label) /\ Len(g) = m /\ Len(h) = m
    BY <1>4, <1>5, <1>10 DEF m, n
  <2> QED BY <2>1, <2>2, SeqEqual
<1>12. u.port = p.port
  <2>1. m + 3 \in 1..(m + 3)
    BY <1>7
  <2>2. S(m + 3) = R(n + 3)
    BY <1>7, <1>10, <2>1
  <2>3. p.port = "" <=> u.port = ""
    BY <1>4, <1>5, <2>2 DEF S, R
  <2>4. CASE p.port # ""
    <3>1. m + 4 \in 1..Len(s)
      <4>1. Len(s) \in Nat /\ Len(s) >= m + 4
        BY <1>2, <1>4, <2>4
      <4>2. m \in Nat
        BY <1>7
      <4> QED BY <4>1, <4>2
    <3>2. s[m + 4] = r[n + 4]
      BY <1>2, <1>10, <3>1
    <3> QED BY <1>4, <1>5, <2>3, <2>4, <3>2
  <2> QED BY <2>3, <2>4
<1> QED BY <1>3, <1>11, <1>12 DEF g, h

\* is_in_prefix keeps to the site of the prefix.
LEMMA PrefixSite ==
    ASSUME NEW u \in ParsedUrl, NEW p \in ParsedUrl, Http(p), is_in_prefix(u, p)
    PROVE  SameSite(u, p)
<1> DEFINE m == normalize_url(u)
           n == normalize_url(p)
<1>1. m \in ParsedUrl /\ m.scheme = u.scheme /\ m.host = u.host /\ Port(m) = Port(u)
  BY NormalParsed, NormalPorts
<1>2. n \in ParsedUrl /\ n.scheme = p.scheme /\ n.host = p.host /\ Port(n) = Port(p)
  BY NormalParsed, NormalPorts
<1>3. IsPrefix(Text(n), Text(m))
  BY DEF is_in_prefix
<1> HIDE DEF m, n
<1>4. Http(n)
  BY <1>2 DEF Http
<1>5. m.scheme = n.scheme /\ StripWww(m.host) = StripWww(n.host) /\ m.port = n.port
  BY <1>1, <1>2, <1>3, <1>4, TextSite
<1>6. Port(m) = Port(n)
  BY <1>5 DEF Port, Http
<1> QED BY <1>1, <1>2, <1>5, <1>6 DEF SameSite

\* A host is under what its name without www. is under.
LEMMA SuffixStripped ==
    ASSUME NEW S, NEW b \in Seq(S), NEW h \in Seq(S), IsSuffix(b, StripWww(h))
    PROVE  IsSuffix(b, h)
<1>1. CASE StripWww(h) = h
  BY <1>1
<1>2. CASE StripWww(h) # h
  <2>1. h # <<>> /\ StripWww(h) = Tail(h)
    BY <1>2 DEF StripWww, HasWww
  <2> DEFINE f == Tail(h)
             n == Len(f)
             k == Len(b)
             B == Reverse(b)
             F == Reverse(f)
             H == Reverse(h)
  <2>2. /\ f \in Seq(S) /\ n \in Nat /\ k \in Nat /\ Len(h) = n + 1
        /\ \A i \in 1..n : f[i] = h[i + 1]
    BY <2>1
  <2> HIDE DEF f
  <2>3. B \in Seq(S) /\ Len(B) = k
    <3>1. B = [i \in 1..k |-> b[(k - i) + 1]]
      BY DEF Reverse
    <3>2. \A i \in 1..k : b[(k - i) + 1] \in S
      BY <2>2
    <3> QED BY <2>2, <3>1, <3>2
  <2>4. F \in Seq(S) /\ Len(F) = n /\ \A i \in 1..n : F[i] = f[(n - i) + 1]
    <3>1. F = [i \in 1..n |-> f[(n - i) + 1]]
      BY DEF Reverse
    <3>2. \A i \in 1..n : f[(n - i) + 1] \in S
      BY <2>2
    <3> QED BY <2>2, <3>1, <3>2
  <2>5. H \in Seq(S) /\ Len(H) = n + 1 /\ \A i \in 1..(n + 1) : H[i] = h[((n + 1) - i) + 1]
    <3>1. H = [i \in 1..(n + 1) |-> h[((n + 1) - i) + 1]]
      BY <2>2 DEF Reverse
    <3>2. \A i \in 1..(n + 1) : h[((n + 1) - i) + 1] \in S
      BY <2>2
    <3> QED BY <2>2, <3>1, <3>2
  <2>6. IsPrefix(B, F)
    BY <2>1 DEF IsSuffix, f
  <2> HIDE DEF B, F, H
  <2>7. \A i \in 1..n : F[i] = H[i]
    <3> SUFFICES ASSUME NEW i \in 1..n PROVE F[i] = H[i]
      OBVIOUS
    <3>1. (n - i) + 1 \in 1..n /\ ((n - i) + 1) + 1 = ((n + 1) - i) + 1 /\ i \in 1..(n + 1)
      BY <2>2
    <3>2. f[(n - i) + 1] = h[((n - i) + 1) + 1]
      BY <2>2, <3>1
    <3> QED BY <2>4, <2>5, <3>1, <3>2
  <2>8. k <= n /\ \A i \in 1..k : B[i] = F[i]
    BY <2>3, <2>4, <2>6, PrefixAgrees
  <2>9. SubSeq(B, 1, k) = SubSeq(H, 1, k)
    <3>1. /\ SubSeq(B, 1, k) \in Seq(S) /\ Len(SubSeq(B, 1, k)) = k
          /\ \A i \in 1..k : SubSeq(B, 1, k)[i] = B[i]
      BY <2>2, <2>3
    <3>2. /\ SubSeq(H, 1, k) \in Seq(S) /\ Len(SubSeq(H, 1, k)) = k
          /\ \A i \in 1..k : SubSeq(H, 1, k)[i] = H[i]
      BY <2>2, <2>5, <2>8
    <3>3. \A i \in 1..k : SubSeq(B, 1, k)[i] = SubSeq(H, 1, k)[i]
      BY <2>2, <2>7, <2>8, <3>1, <3>2
    <3> QED BY <3>1, <3>2, <3>3, SeqEqual
  <2>10. IsPrefix(B, H)
    BY <2>2, <2>3, <2>5, <2>8, <2>9 DEF IsPrefix
  <2> QED BY <2>10 DEF IsSuffix, B, H
<1> QED BY <1>1, <1>2

-----------------------------------------------------------------------------
(* The site a task keeps to: what redirects, canonical links, hrefs and        *)
(* sitemaps lead it to, however they are spelt.                                *)

Site(t, u) == u \in ParsedUrl /\ normalize_url(u) = u /\ is_in_prefix(u, Prefix[t])
Reference == ParsedUrl \cup {None}

LEMMA NormalReference ==
    ASSUME NEW u \in Reference, normalize_url(u) # None
    PROVE  /\ u \in ParsedUrl /\ normalize_url(u) \in ParsedUrl
           /\ normalize_url(normalize_url(u)) = normalize_url(u)
<1>1. u \in ParsedUrl
  BY DEF Reference, normalize_url
<1> QED BY <1>1, NormalParsed, NormalTwice

LEMMA InsideParsed ==
    ASSUME NEW t \in Task, NEW u \in Reference, is_in_prefix(normalize_url(u), Prefix[t])
    PROVE  Site(t, normalize_url(u))
<1>1. normalize_url(u) # None
  BY DEF is_in_prefix
<1> QED BY <1>1, NormalReference DEF Site

LEMMA PrefixParsed ==
    ASSUME NEW t \in Task
    PROVE  /\ Prefix[t] \in ParsedUrl /\ Http(Prefix[t])
           /\ Seed[t] = normalize_url(Prefix[t]) /\ Site(t, Seed[t])
<1> DEFINE typed == Added[t].typed
           answer == Added[t].answer
           final == answer.final
           p == Prefix[t]
<1>1. /\ typed \in ParsedUrl /\ Http(typed)
      /\ answer # None => final \in ParsedUrl /\ Http(final)
  BY ReferencesAssumption
<1>2. p = StoredPrefix(typed, answer)
  BY DEF Prefix
<1>3. p = typed \/ (answer # None /\ p = normalize_url(final))
  BY <1>2 DEF StoredPrefix, detect_canonical_prefix
<1> HIDE DEF typed, answer, final
<1>4. p \in ParsedUrl /\ Http(p)
  <2>1. CASE p = typed
    BY <1>1, <2>1
  <2>2. CASE answer # None /\ p = normalize_url(final)
    <3>1. p \in ParsedUrl /\ p.scheme = final.scheme
      BY <1>1, <2>2, NormalParsed
    <3> QED BY <1>1, <2>2, <3>1 DEF Http
  <2> QED BY <1>3, <2>1, <2>2
<1> HIDE DEF p
<1> DEFINE n == normalize_url(p)
<1>5. Seed[t] = n
  BY DEF Seed, p
<1>6. n \in ParsedUrl /\ normalize_url(n) = n /\ n # None /\ p # None
  BY <1>4, NormalParsed, NormalTwice, UrlAssumption
<1> HIDE DEF n
<1>7. IsPrefix(Text(n), Text(n))
  <2>1. Text(n) \in Seq(Token)
    BY <1>6, TextScheme
  <2>2. Len(Text(n)) <= Len(Text(n))
    BY <2>1
  <2> QED BY <2>2 DEF IsPrefix
<1>8. is_in_prefix(n, p)
  BY <1>6, <1>7 DEF is_in_prefix, n
<1> QED BY <1>4, <1>5, <1>6, <1>8 DEF Site, n, p

LEMMA CanonicalReference ==
    ASSUME NEW tags, IsSeq(tags), \A i \in DOMAIN tags : tags[i].url \in Reference
    PROVE  extract_canonical(tags) \in Reference
<1> DEFINE candidate(g) == g.canonical /\ ~g.blank /\ (g.url = None \/ Http(g.url))
           found == {k \in DOMAIN tags : candidate(tags[k])}
           first == CHOOSE k \in found : \A j \in found : k <= j
<1>1. extract_canonical(tags) = IF found = {} THEN None ELSE tags[first].url
  BY Zenon DEF extract_canonical
<1>2. found \subseteq DOMAIN tags
  OBVIOUS
<1> HIDE DEF found
<1>3. CASE found = {}
  BY <1>1, <1>3 DEF Reference
<1>4. CASE found # {}
  <2>1. DOMAIN tags \subseteq Nat
    BY DEF IsSeq
  <2>2. \E k \in found : \A j \in found : k <= j
    BY <1>2, <1>4, <2>1, Smallest
  <2>3. first \in found
    BY <2>2
  <2> QED BY <1>1, <1>2, <1>4, <2>3
<1> QED BY <1>3, <1>4

LEMMA RedirectSite ==
    ASSUME NEW t \in Task, NEW v \in DOMAIN Page, NEW u
    PROVE  LET r == redirect_url(u, Page[v], Prefix[t]) IN r # None => Site(t, r)
<1>1. Page[v].final \in Reference
  BY ReferencesAssumption DEF Reference
<1> QED BY <1>1, InsideParsed DEF redirect_url, InPrefixOrNone

LEMMA CanonicalSite ==
    ASSUME NEW t \in Task, NEW v \in DOMAIN Page, NEW u
    PROVE  LET c == canonical_url(u, Page[v], Prefix[t]) IN c # None => Site(t, c)
<1>1. IsSeq(Page[v].tags) /\ \A i \in DOMAIN Page[v].tags : Page[v].tags[i].url \in Reference
  BY ReferencesAssumption DEF Reference
<1>2. extract_canonical(Page[v].tags) \in Reference
  BY <1>1, CanonicalReference
<1> QED BY <1>2, InsideParsed DEF canonical_url, InPrefixOrNone

LEMMA LinksParsed ==
    ASSUME NEW v \in DOMAIN Page, NEW l \in Links(Page[v])
    PROVE  \E m \in ParsedUrl : l = normalize_url(m)
<1>1. \A h \in Range(Page[v].hrefs) : h.url \in Reference
  BY ReferencesAssumption DEF Reference
<1>2. PICK m \in extract_links(Page[v].hrefs) : l = normalize_url(m)
  BY DEF Links
<1>3. m \in Reference /\ m # None
  BY <1>1 DEF extract_links
<1> QED BY <1>2, <1>3 DEF Reference

\* What a page comes to: links of the site, its contents filed under the URL it
\* was fetched from or one of them, and hosts no blacklist names.
LEMMA FreshSite ==
    ASSUME NEW t \in Task, NEW u \in DOMAIN Page
    PROVE  /\ \A l \in Fresh[t][u].links : Site(t, l)
           /\ Fresh[t][u].url \in {u} \cup Fresh[t][u].links
           /\ \A h \in Fresh[t][u].hosts : \A b \in BLACKLISTED_OUTLINK_HOSTS : ~IsSuffix(b, h)
<1> DEFINE p == Prefix[t]
           r == redirect_url(u, Page[u], p)
           c == canonical_url(u, Page[u], p)
           links == in_prefix_links(u, Page[u], p)
           hosts == OutlinkHosts(Page[u], p)
<1>1. /\ Fresh[t][u].url = index_url(u, Page[u], p)
      /\ Fresh[t][u].links = links /\ Fresh[t][u].hosts = hosts
  <2> DEFINE Of(w, v) == [url |-> index_url(v, Page[v], Prefix[w]),
                          links |-> in_prefix_links(v, Page[v], Prefix[w]),
                          hosts |-> OutlinkHosts(Page[v], Prefix[w])]
  <2>1. Fresh = [w \in Task |-> [v \in DOMAIN Page |-> Of(w, v)]]
    BY DEF Fresh
  <2> HIDE DEF Of
  <2>2. Fresh[t][u] = Of(t, u)
    BY <2>1
  <2> QED BY <2>2 DEF Of
<1>2. /\ r # None => Site(t, r)
      /\ c # None => Site(t, c)
  BY RedirectSite, CanonicalSite
<1>3. ASSUME NEW l \in Links(Page[u]), is_in_prefix(l, p) PROVE Site(t, l)
  <2>1. PICK m \in ParsedUrl : l = normalize_url(m)
    BY LinksParsed
  <2> QED BY <1>3, <2>1, InsideParsed DEF Reference
<1>4. links = ({r, c} \ {None}) \cup {l \in Links(Page[u]) : is_in_prefix(l, p)}
  BY DEF in_prefix_links
<1>5. index_url(u, Page[u], p) \in {u} \cup ({r, c} \ {None})
  <2>1. CASE r # None
    BY <2>1 DEF index_url
  <2>2. CASE r = None
    BY <2>2 DEF index_url
  <2> QED BY <2>1, <2>2
<1>6. ASSUME NEW h \in hosts, NEW b \in BLACKLISTED_OUTLINK_HOSTS PROVE ~IsSuffix(b, h)
  <2>1. PICK m \in Links(Page[u]) : ~is_blacklisted_outlink_host(m) /\ h = host_of(m)
    BY DEF OutlinkHosts
  <2>2. h = StripWww(m.host) /\ ~IsSuffix(b, m.host)
    BY <2>1 DEF host_of, is_blacklisted_outlink_host
  <2>3. m.host \in Seq(Label)
    <3>1. m \in ParsedUrl
      BY LinksParsed, NormalParsed
    <3>2. m \in Shape
      BY <3>1, ParsedShape
    <3> QED BY <3>2 DEF Shape
  <2>4. b \in Seq(Label)
    BY UrlAssumption
  <2> QED BY <2>2, <2>3, <2>4, SuffixStripped
<1> HIDE DEF r, c, links, hosts
<1>7. \A l \in links : Site(t, l)
  BY <1>2, <1>3, <1>4
<1> QED BY <1>1, <1>4, <1>5, <1>6, <1>7

Entry(t) == {l \in [url : Reference, inside : BOOLEAN] : l.inside => Site(t, l.url)}

LEMMA LocsSite ==
    ASSUME NEW t \in Task, NEW u \in DOMAIN Sitemap
    PROVE  Locs[t][u] \in Seq(Entry(t))
<1> DEFINE locs == Sitemap[u].locs
           Of(k) == [url |-> normalize_url(locs[k]), inside |-> is_in_prefix(normalize_url(locs[k]), Prefix[t])]
<1>1. Locs[t][u] = [k \in DOMAIN locs |-> Of(k)]
  BY DEF Locs
<1>2. Len(locs) \in Nat /\ DOMAIN locs = 1..Len(locs)
  BY DiscoveryAssumption DEF IsSeq
<1>3. ASSUME NEW k \in DOMAIN locs PROVE Of(k) \in Entry(t)
  <2> DEFINE n == normalize_url(locs[k])
  <2>1. locs[k] \in Reference
    BY ReferencesAssumption DEF Reference
  <2>2. n \in Reference
    BY <2>1, NormalReference DEF Reference
  <2>3. is_in_prefix(n, Prefix[t]) => Site(t, n)
    BY <2>1, InsideParsed
  <2>4. is_in_prefix(n, Prefix[t]) \in BOOLEAN
    BY Zenon DEF is_in_prefix, IsPrefix
  <2> HIDE DEF n
  <2>5. [url |-> n, inside |-> is_in_prefix(n, Prefix[t])] \in Entry(t)
    BY <2>2, <2>3, <2>4 DEF Entry
  <2> QED BY <2>5 DEF n
<1> HIDE DEF Of, locs
<1>4. Locs[t][u] \in [1..Len(locs) -> Entry(t)]
  BY <1>1, <1>2, <1>3
<1> QED BY <1>2, <1>4

\* The part of a task's state its site is about.
Sited(t, s) ==
    /\ \A u \in s.frontier \cup s.found : Site(t, u)
    /\ s.locs \in Seq(Entry(t))
    /\ s.filed \subseteq s.frontier
    /\ \A h \in s.suggested : \A b \in BLACKLISTED_OUTLINK_HOSTS : ~IsSuffix(b, h)

SiteInv == \A t \in Task : Sited(t, task[t])

\* What a step of a task has to show.
LEMMA SiteSteps ==
    ASSUME DiscoveryInv, SiteInv, NEW t \in Task, NEW s, Sited(t, s), task' = [task EXCEPT ![t] = s]
    PROVE  SiteInv'
<1>1. DOMAIN task = Task
  BY DEF DiscoveryInv
<1>2. ASSUME NEW w \in Task PROVE Sited(w, task'[w])
  <2>1. CASE w = t
    BY <1>1, <2>1
  <2>2. CASE w # t
    BY <1>1, <2>2 DEF SiteInv
  <2> QED BY <2>1, <2>2
<1> QED BY <1>2 DEF SiteInv, Sited, Site

SameSited(s, a) ==
    /\ s.frontier = a.frontier /\ s.found = a.found /\ s.locs = a.locs
    /\ s.filed = a.filed /\ s.suggested = a.suggested

LEMMA SameSiteSteps ==
    ASSUME DiscoveryInv, SiteInv, NEW t \in Task, NEW s, SameSited(s, task[t]),
           task' = [task EXCEPT ![t] = s]
    PROVE  SiteInv'
<1>1. Sited(t, s)
  BY DEF SiteInv, Sited, SameSited
<1> QED BY <1>1, SiteSteps

LEMMA EmptyLocs == \A t : <<>> \in Seq(Entry(t))
OBVIOUS

LEMMA SeededSite ==
    ASSUME NEW t \in Task, NEW s, DOMAIN s = Fields, Sited(t, s)
    PROVE  Sited(t, Seeded(s))
<1> DEFINE n == Seeded(s)
<1>1. /\ n.frontier = s.frontier \cup s.found /\ n.found = s.found /\ n.locs = <<>>
      /\ n.filed = s.filed /\ n.suggested = s.suggested
  BY DEF Seeded, Fields
<1> HIDE DEF n
<1>2. Sited(t, n)
  BY <1>1, EmptyLocs DEF Sited
<1> QED BY <1>2 DEF n

LEMMA RobotsSite ==
    ASSUME DiscoveryInv, SiteInv, NEW t \in Task,
           (\E u \in Needs(t) : AskRobots(t, u)) \/ RobotsArrive(t) \/ RobotsFail(t)
    PROVE  SiteInv'
<1> DEFINE a == task[t]
<1>1. DOMAIN task = Task /\ DOMAIN a = Fields
  BY DEF DiscoveryInv, TaskInv
<1>2. PICK w : task' = [task EXCEPT ![t].wait = w]
  BY DEF AskRobots, RobotsArrive, RobotsFail, RobotsDone
<1> DEFINE s == [a EXCEPT !.wait = w]
<1>3. task' = [task EXCEPT ![t] = s]
  BY <1>1, <1>2
<1>4. SameSited(s, a)
  BY <1>1 DEF SameSited, Fields
<1> QED BY <1>3, <1>4, SameSiteSteps

LEMMA BeginSite ==
    ASSUME DiscoveryInv, SiteInv, NEW t \in Task, Begin(t)
    PROVE  SiteInv'
<1> DEFINE a == task[t]
           docs == Truncate(Candidates(cache[OriginOf(Seed[t])], Seed[t]))
           s == [a EXCEPT !.pc = "sitemap", !.frontier = {Seed[t]}, !.todo = docs]
<1>1. task' = [task EXCEPT ![t] = s] /\ a.pc = "delay"
  BY DEF Begin, Step, At
<1>2. DOMAIN a = Fields /\ Sited(t, a) /\ TaskInv(a)
  BY DEF DiscoveryInv, TaskInv, SiteInv
<1>3. /\ s.frontier = {Seed[t]} /\ s.found = a.found /\ s.locs = a.locs
      /\ s.filed = a.filed /\ s.suggested = a.suggested
  BY <1>2 DEF Fields
<1> HIDE DEF s
<1>4. a.filed = {}
  <2>1. a.frontier = {}
    BY <1>1, <1>2 DEF TaskInv
  <2>2. a.filed \subseteq a.frontier
    BY <1>2 DEF Sited
  <2> QED BY <2>1, <2>2
<1>5. Site(t, Seed[t])
  BY PrefixParsed
<1>6. Sited(t, s)
  BY <1>2, <1>3, <1>4, <1>5 DEF Sited
<1> QED BY <1>1, <1>6, SiteSteps

LEMMA SitemapSite ==
    ASSUME DiscoveryInv, SiteInv, NEW t \in Task, VisitSitemap(t)
    PROVE  SiteInv'
<1> DEFINE a == task[t]
           u == Head(a.todo)
           s == [a EXCEPT !.todo = Tail(@), !.visited = @ \cup {u}]
           f == [s EXCEPT !.fetched = @ \cup {u}]
<1>1. \/ task' = [task EXCEPT ![t] = s]
      \/ task' = [task EXCEPT ![t] = f]
      \/ u \in DOMAIN Sitemap /\ task' = [task EXCEPT ![t] = Read(t, f, u)]
  BY DEF VisitSitemap, Step
<1>2. DOMAIN a = Fields /\ Sited(t, a)
  BY DEF DiscoveryInv, TaskInv, SiteInv
<1>3. DOMAIN s = Fields /\ SameSited(s, a)
  BY <1>2 DEF Fields, SameSited
<1> HIDE DEF s
<1>4. DOMAIN f = Fields /\ SameSited(f, a)
  BY <1>3 DEF Fields, SameSited
<1> HIDE DEF f, u
<1>5. CASE u \in DOMAIN Sitemap /\ task' = [task EXCEPT ![t] = Read(t, f, u)]
  <2> DEFINE g == Read(t, f, u)
  <2>1. CASE Sitemap[u].index
    <3>1. g = [f EXCEPT !.next = AddChildren(f.visited, f.next, Sitemap[u].locs)]
      BY <2>1 DEF Read
    <3> HIDE DEF g
    <3>2. SameSited(g, a)
      BY <1>4, <3>1 DEF Fields, SameSited
    <3> QED BY <1>5, <3>2, SameSiteSteps DEF g
  <2>2. CASE ~Sitemap[u].index
    <3>1. g = [f EXCEPT !.pc = "loc", !.locs = Locs[t][u]]
      BY <2>2 DEF Read
    <3> HIDE DEF g
    <3>2. /\ g.frontier = a.frontier /\ g.found = a.found /\ g.locs = Locs[t][u]
          /\ g.filed = a.filed /\ g.suggested = a.suggested
      BY <1>4, <3>1 DEF Fields, SameSited
    <3>3. Locs[t][u] \in Seq(Entry(t))
      BY <1>5, LocsSite
    <3>4. Sited(t, g)
      BY <1>2, <3>2, <3>3 DEF Sited
    <3> QED BY <1>5, <3>4, SiteSteps DEF g
  <2> QED BY <2>1, <2>2
<1> QED BY <1>1, <1>3, <1>4, <1>5, SameSiteSteps

LEMMA LocSite ==
    ASSUME DiscoveryInv, SiteInv, NEW t \in Task, VisitLoc(t)
    PROVE  SiteInv'
<1> DEFINE a == task[t]
           l == Head(a.locs)
           s == [a EXCEPT !.locs = Tail(@)]
           f == [s EXCEPT !.found = @ \cup {l.url}]
<1>1. /\ a.locs # <<>>
      /\ \/ task' = [task EXCEPT ![t] = s]
         \/ l.inside /\ task' = [task EXCEPT ![t] = IF Full(f.found) THEN Seeded(f) ELSE f]
  BY DEF VisitLoc, Step
<1>2. DOMAIN a = Fields /\ Sited(t, a)
  BY DEF DiscoveryInv, TaskInv, SiteInv
<1>3. l \in Entry(t) /\ Tail(a.locs) \in Seq(Entry(t))
  BY <1>1, <1>2, HeadTailProperties DEF Sited
<1> HIDE DEF l
<1>4. /\ DOMAIN s = Fields /\ s.frontier = a.frontier /\ s.found = a.found /\ s.locs = Tail(a.locs)
      /\ s.filed = a.filed /\ s.suggested = a.suggested
  BY <1>2 DEF Fields
<1> HIDE DEF s
<1>5. Sited(t, s)
  BY <1>2, <1>3, <1>4 DEF Sited
<1>6. CASE l.inside /\ task' = [task EXCEPT ![t] = IF Full(f.found) THEN Seeded(f) ELSE f]
  <2>1. Site(t, l.url)
    BY <1>3, <1>6 DEF Entry
  <2>2. /\ DOMAIN f = Fields /\ f.frontier = s.frontier /\ f.found = s.found \cup {l.url}
        /\ f.locs = s.locs /\ f.filed = s.filed /\ f.suggested = s.suggested
    BY <1>4 DEF Fields
  <2> HIDE DEF f
  <2>3. Sited(t, f)
    BY <1>5, <2>1, <2>2 DEF Sited
  <2>4. Sited(t, Seeded(f))
    BY <2>2, <2>3, SeededSite
  <2> QED BY <1>6, <2>3, <2>4, SiteSteps
<1> QED BY <1>1, <1>5, <1>6, SiteSteps

LEMMA EndSite ==
    ASSUME DiscoveryInv, SiteInv, NEW t \in Task, EndDocument(t) \/ EndRound(t) \/ EndCrawl(t)
    PROVE  SiteInv'
<1> DEFINE a == task[t]
           d == [a EXCEPT !.pc = "sitemap"]
           r == [a EXCEPT !.depth = @ - 1, !.todo = a.next, !.next = <<>>]
           e == [a EXCEPT !.pc = "end"]
<1>1. DOMAIN a = Fields /\ Sited(t, a)
  BY DEF DiscoveryInv, TaskInv, SiteInv
<1>2. \/ task' = [task EXCEPT ![t] = d] \/ task' = [task EXCEPT ![t] = r]
      \/ task' = [task EXCEPT ![t] = e] \/ task' = [task EXCEPT ![t] = Seeded(a)]
  BY DEF EndDocument, EndRound, EndCrawl, Step
<1>3. SameSited(d, a) /\ SameSited(r, a) /\ SameSited(e, a)
  BY <1>1 DEF Fields, SameSited
<1>4. Sited(t, Seeded(a))
  BY <1>1, SeededSite
<1> HIDE DEF d, r, e
<1> QED BY <1>2, <1>3, <1>4, SameSiteSteps, SiteSteps

LEMMA PageSite ==
    ASSUME DiscoveryInv, SiteInv, NEW t \in Task, NEW u \in task[t].frontier, CrawlPage(t, u)
    PROVE  SiteInv'
<1> DEFINE a == task[t]
           s == [a EXCEPT !.crawled = @ \cup {u}]
           f == [s EXCEPT !.fetched = @ \cup {u}]
           fresh == Fresh[t][u]
           g == [f EXCEPT !.filed = @ \cup {fresh.url}, !.frontier = @ \cup fresh.links,
                          !.suggested = @ \cup fresh.hosts]
<1>1. \/ task' = [task EXCEPT ![t] = s]
      \/ task' = [task EXCEPT ![t] = f]
      \/ u \in DOMAIN Page /\ task' = [task EXCEPT ![t] = g]
  BY DEF CrawlPage, Step
<1>2. DOMAIN a = Fields /\ Sited(t, a)
  BY DEF DiscoveryInv, TaskInv, SiteInv
<1>3. DOMAIN s = Fields /\ SameSited(s, a)
  BY <1>2 DEF Fields, SameSited
<1> HIDE DEF s
<1>4. DOMAIN f = Fields /\ SameSited(f, a)
  BY <1>3 DEF Fields, SameSited
<1> HIDE DEF f, fresh
<1>5. /\ g.frontier = a.frontier \cup fresh.links /\ g.found = a.found /\ g.locs = a.locs
      /\ g.filed = a.filed \cup {fresh.url} /\ g.suggested = a.suggested \cup fresh.hosts
  BY <1>4 DEF Fields, SameSited
<1> HIDE DEF g
<1>6. CASE u \in DOMAIN Page /\ task' = [task EXCEPT ![t] = g]
  <2>1. /\ \A l \in fresh.links : Site(t, l)
        /\ fresh.url \in {u} \cup fresh.links
        /\ \A h \in fresh.hosts : \A b \in BLACKLISTED_OUTLINK_HOSTS : ~IsSuffix(b, h)
    BY <1>6, FreshSite DEF fresh
  <2>2. Sited(t, g)
    BY <1>2, <1>5, <2>1 DEF Sited
  <2> QED BY <1>6, <2>2, SiteSteps
<1> QED BY <1>1, <1>3, <1>4, <1>6, SameSiteSteps

LEMMA InitSiteInv ==
    ASSUME TaskInit
    PROVE  SiteInv
<1> DEFINE s == Start
<1>1. s.frontier = {} /\ s.found = {} /\ s.locs = <<>> /\ s.filed = {} /\ s.suggested = {}
  BY DEF Start
<1> HIDE DEF s
<1>2. \A t \in Task : Sited(t, s)
  BY <1>1, EmptyLocs DEF Sited
<1>3. \A t \in Task : task[t] = s
  BY DEF TaskInit, s
<1> QED BY <1>2, <1>3 DEF SiteInv

LEMMA NextSiteInv ==
    ASSUME DiscoveryInv, SiteInv, [TaskNext]_taskVars
    PROVE  SiteInv'
<1>1. CASE UNCHANGED taskVars
  BY <1>1 DEF taskVars, SiteInv, Sited, Site
<1>2. ASSUME NEW t \in Task, TaskStep(t) \/ RobotsArrive(t) \/ RobotsFail(t) PROVE SiteInv'
  <2>1. CASE (\E u \in Needs(t) : AskRobots(t, u)) \/ RobotsArrive(t) \/ RobotsFail(t)
    BY <2>1, RobotsSite
  <2>2. CASE Begin(t)
    BY <2>2, BeginSite
  <2>3. CASE VisitSitemap(t)
    BY <2>3, SitemapSite
  <2>4. CASE VisitLoc(t)
    BY <2>4, LocSite
  <2>5. CASE EndDocument(t) \/ EndRound(t) \/ EndCrawl(t)
    BY <2>5, EndSite
  <2>6. CASE \E u \in task[t].frontier : CrawlPage(t, u)
    BY <2>6, PageSite
  <2> QED BY <1>2, <2>1, <2>2, <2>3, <2>4, <2>5, <2>6 DEF TaskStep
<1> QED BY <1>1, <1>2 DEF TaskNext

\* What a task has, found and is about to see of a document is on its site, in
\* normal form: the invariant the next two theorems rest on.
THEOREM SiteInvariance == TaskSpec => []SiteInv
<1>1. TaskInit => SiteInv
  BY InitSiteInv
<1>2. DiscoveryInv /\ SiteInv /\ [TaskNext]_taskVars => SiteInv'
  BY NextSiteInv
<1> QED BY <1>1, <1>2, DiscoveryInvariance, PTL DEF TaskSpec

\* Whatever redirects, canonical links, hrefs, robots.txt files and sitemaps a
\* site serves, a task crawls, and files contents under, only URLs of its
\* target's site and prefix, in the form normalize_url gives them, and suggests
\* to the admin no host under the blacklist (crawl_page, discover_urls,
\* is_in_prefix, is_blacklisted_outlink_host): for any URLs, any query keys and
\* any tracking parameters.
THEOREM FrontierStaysOnSite == TaskSpec => []FrontierOnSite
<1>1. ASSUME SiteInv, NEW t \in Task, NEW u \in task[t].frontier
      PROVE  normalize_url(u) = u /\ SameSite(u, Prefix[t]) /\ is_in_prefix(u, Prefix[t])
  <2>1. Site(t, u)
    BY <1>1 DEF SiteInv, Sited
  <2>2. Prefix[t] \in ParsedUrl /\ Http(Prefix[t])
    BY PrefixParsed
  <2> QED BY <2>1, <2>2, PrefixSite DEF Site
<1>2. SiteInv => FrontierOnSite
  BY <1>1 DEF SiteInv, Sited, FrontierOnSite
<1> QED BY <1>2, SiteInvariance, PTL

\* No task crawls two spellings of a page: of the URLs that differ in the order
\* of their parameters, in tracking parameters, in a port that is the scheme's
\* own, in user information or in a fragment, at most one is in the frontier
\* (normalize_url), for any query keys and any tracking parameters.
THEOREM PagesOnce == TaskSpec => []NoPageTwice
<1>1. ASSUME SiteInv, NEW t \in Task, NEW u \in task[t].frontier, NEW v \in task[t].frontier, SamePage(u, v)
      PROVE  u = v
  <2>1. Site(t, u) /\ Site(t, v)
    BY <1>1 DEF SiteInv, Sited
  <2> QED BY <1>1, <2>1, NormalSame DEF Site
<1>2. SiteInv => NoPageTwice
  BY <1>1 DEF NoPageTwice
<1> QED BY <1>2, SiteInvariance, PTL

=============================================================================
