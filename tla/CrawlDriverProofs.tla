-------------------------- MODULE CrawlDriverProofs --------------------------
(***************************************************************************)
(* The walk over any finite site, with any links, sitemap, page budget and *)
(* answers.  DInv keeps the queue free of repetitions, splits visited into *)
(* the queue, the page in hand and the settled pages, and counts the       *)
(* latter.                                                                 *)
(***************************************************************************)
EXTENDS CrawlDriver, FiniteSetTheorems, TLAPS

-----------------------------------------------------------------------------
(* Sequences without repetition *)

Elems(q) == {q[i] : i \in DOMAIN q}
Distinct(q) == \A i, j \in DOMAIN q : q[i] = q[j] => i = j

LEMMA PopFront ==
    ASSUME NEW q \in Seq(Url), q # <<>>, Distinct(q)
    PROVE  /\ Head(q) \in Url /\ Tail(q) \in Seq(Url) /\ Distinct(Tail(q))
           /\ Head(q) \notin Elems(Tail(q))
           /\ Elems(q) = Elems(Tail(q)) \cup {Head(q)}
<1>1. /\ Len(q) \in Nat \ {0} /\ DOMAIN q = 1..Len(q) /\ Head(q) = q[1]
      /\ Tail(q) \in Seq(Url) /\ Len(Tail(q)) = Len(q) - 1
      /\ DOMAIN Tail(q) = 1..(Len(q) - 1)
      /\ \A i \in 1..(Len(q) - 1) : Tail(q)[i] = q[i + 1]
  OBVIOUS
<1>2. Head(q) \in Url
  BY <1>1
<1>3. Distinct(Tail(q))
  <2> SUFFICES ASSUME NEW i \in 1..(Len(q) - 1), NEW j \in 1..(Len(q) - 1),
                      q[i + 1] = q[j + 1]
               PROVE  i = j
    BY <1>1 DEF Distinct
  <2>1. i + 1 \in DOMAIN q /\ j + 1 \in DOMAIN q
    BY <1>1
  <2>2. i + 1 = j + 1
    BY <2>1 DEF Distinct
  <2> QED BY <2>2
<1>4. Head(q) \notin Elems(Tail(q))
  <2> SUFFICES ASSUME NEW i \in 1..(Len(q) - 1), q[1] = q[i + 1] PROVE FALSE
    BY <1>1 DEF Elems
  <2>1. i + 1 \in DOMAIN q /\ 1 \in DOMAIN q
    BY <1>1
  <2>2. 1 = i + 1
    BY <2>1 DEF Distinct
  <2> QED BY <2>2
<1>5. Elems(q) = Elems(Tail(q)) \cup {Head(q)}
  <2>1. ASSUME NEW i \in DOMAIN q PROVE q[i] \in Elems(Tail(q)) \cup {Head(q)}
    <3>1. CASE i = 1
      BY <1>1, <3>1
    <3>2. CASE i # 1
      <4>1. i - 1 \in DOMAIN Tail(q) /\ Tail(q)[i - 1] = q[i]
        BY <1>1, <3>2
      <4> QED BY <4>1 DEF Elems
    <3> QED BY <3>1, <3>2
  <2>2. ASSUME NEW i \in DOMAIN Tail(q) PROVE Tail(q)[i] \in Elems(q)
    <3>1. i + 1 \in DOMAIN q /\ Tail(q)[i] = q[i + 1]
      BY <1>1
    <3> QED BY <3>1 DEF Elems
  <2>3. Head(q) \in Elems(q)
    BY <1>1 DEF Elems
  <2> QED BY <2>1, <2>2, <2>3 DEF Elems
<1> QED BY <1>1, <1>2, <1>3, <1>4, <1>5

LEMMA Concat ==
    ASSUME NEW q \in Seq(Url), NEW s \in Seq(Url), Distinct(q), Distinct(s),
           Elems(q) \cap Elems(s) = {}
    PROVE  /\ q \o s \in Seq(Url) /\ Distinct(q \o s)
           /\ Elems(q \o s) = Elems(q) \cup Elems(s)
<1> DEFINE c == q \o s
<1>1. /\ Len(q) \in Nat /\ Len(s) \in Nat
      /\ DOMAIN q = 1..Len(q) /\ DOMAIN s = 1..Len(s)
      /\ c \in Seq(Url) /\ Len(c) = Len(q) + Len(s) /\ DOMAIN c = 1..(Len(q) + Len(s))
      /\ \A i \in 1..Len(q) : c[i] = q[i]
      /\ \A i \in 1..(Len(q) + Len(s)) : i > Len(q) => c[i] = s[i - Len(q)]
  OBVIOUS
<1> HIDE DEF c
<1>2. \A i \in DOMAIN c : \/ i \in DOMAIN q /\ c[i] = q[i] /\ c[i] \in Elems(q)
                          \/ i - Len(q) \in DOMAIN s /\ c[i] = s[i - Len(q)] /\ c[i] \in Elems(s)
  <2> SUFFICES ASSUME NEW i \in DOMAIN c
               PROVE  \/ i \in DOMAIN q /\ c[i] = q[i] /\ c[i] \in Elems(q)
                      \/ i - Len(q) \in DOMAIN s /\ c[i] = s[i - Len(q)] /\ c[i] \in Elems(s)
    OBVIOUS
  <2>1. CASE i <= Len(q)
    BY <1>1, <2>1 DEF Elems
  <2>2. CASE i > Len(q)
    BY <1>1, <2>2 DEF Elems
  <2> QED BY <1>1, <2>1, <2>2
<1>3. Distinct(c)
  <2> SUFFICES ASSUME NEW i \in DOMAIN c, NEW j \in DOMAIN c, c[i] = c[j] PROVE i = j
    BY DEF Distinct
  <2>1. CASE i \in DOMAIN q /\ j \in DOMAIN q
    BY <1>1, <2>1 DEF Distinct
  <2>2. CASE ~(i \in DOMAIN q) /\ ~(j \in DOMAIN q)
    <3>1. i - Len(q) = j - Len(q)
      BY <1>2, <2>2 DEF Distinct
    <3> QED BY <1>1, <3>1
  <2>3. \A k \in DOMAIN q : c[k] \in Elems(q)
    BY <1>1 DEF Elems
  <2>4. CASE i \in DOMAIN q /\ ~(j \in DOMAIN q)
    BY <1>2, <2>3, <2>4
  <2>5. CASE ~(i \in DOMAIN q) /\ j \in DOMAIN q
    BY <1>2, <2>3, <2>5
  <2> QED BY <2>1, <2>2, <2>4, <2>5
<1>4. \A i \in DOMAIN q : q[i] \in Elems(c)
  BY <1>1 DEF Elems
<1>5. \A i \in DOMAIN s : s[i] \in Elems(c)
  <2> TAKE i \in DOMAIN s
  <2>1. /\ i + Len(q) \in 1..(Len(q) + Len(s)) /\ i + Len(q) > Len(q)
        /\ (i + Len(q)) - Len(q) = i
    BY <1>1
  <2>2. i + Len(q) \in DOMAIN c /\ c[i + Len(q)] = s[i]
    BY <1>1, <2>1
  <2> QED BY <2>2 DEF Elems
<1>6. Elems(c) = Elems(q) \cup Elems(s)
  BY <1>2, <1>4, <1>5 DEF Elems
<1> QED BY <1>1, <1>3, <1>6 DEF c

\* An order of S is a sequence of exactly its elements, each once.
LEMMA OrderOf ==
    ASSUME NEW S \in SUBSET Url, NEW s \in Orders(S)
    PROVE  s \in Seq(Url) /\ Distinct(s) /\ Elems(s) = S
<1>1. Cardinality(S) \in Nat
  BY GraphAssumption, FS_Subset, FS_CardinalityType
<1>2. /\ s \in [1..Cardinality(S) -> S]
      /\ \A i, j \in 1..Cardinality(S) : s[i] = s[j] => i = j
      /\ \A e \in S : \E i \in 1..Cardinality(S) : s[i] = e
  BY DEF Orders, Bijection, Injection, IsInjective, Surjection
<1>3. s \in Seq(Url)
  BY <1>1, <1>2
<1> QED BY <1>2, <1>3 DEF Distinct, Elems

LEMMA Single ==
    ASSUME NEW u \in Url
    PROVE  <<u>> \in Seq(Url) /\ Distinct(<<u>>) /\ Elems(<<u>>) = {u}
BY DEF Distinct, Elems

-----------------------------------------------------------------------------
(* The invariant *)

Failed == {u \in Url : outcome[u] = "error"}

\* Only a page within the budget is fetched, and nothing is in hand at first.
Budget == pc = "fetch" => fetched < MAX_PAGES
Fresh == pc = "start" => visited = {} /\ queue = <<>> /\ Settled = {}

Counted ==
    /\ fetched + errored = Cardinality(Settled)
    /\ errored = Cardinality(Failed)

\* The links of every page with a body have been queued.
Followed == \A u \in Url : outcome[u] = "fresh" => Links[u] \subseteq visited

Walk == WalkTypes /\ Budget /\ Fresh /\ NothingLostNothingTwice
DInv == Walk /\ Counted /\ Followed

USE GraphAssumption, LimitAssumption

LEMMA WaitingIsElems == Waiting = Elems(queue)
BY DEF Waiting, Elems

LEMMA InitDInv == Init => DInv
<1> SUFFICES ASSUME Init PROVE DInv
  OBVIOUS
<1>1. WalkTypes /\ Budget /\ Followed
  BY DEF Init, WalkTypes, Budget, Followed, Outcomes
<1>2. Settled = {} /\ Failed = {} /\ Waiting = {} /\ InHand = {}
  BY DEF Init, Settled, Failed, Waiting, InHand
<1>3. Counted
  BY <1>2, FS_EmptySet DEF Init, Counted
<1> QED BY <1>1, <1>2, <1>3 DEF Init, DInv, Walk, Fresh, NothingLostNothingTwice

\* Steps that touch neither the outcomes nor the queue nor what is in hand.
LEMMA Unmoved ==
    ASSUME DInv, UNCHANGED <<queue, visited, url, fetched, errored, outcome>>,
           InHand' = InHand, pc' \in {"loop", "done", "aborted", "failed", "backoff"}
    PROVE  DInv'
<1>1. Settled' = Settled /\ Failed' = Failed /\ Waiting' = Waiting
  BY DEF Settled, Failed, Waiting
<1>2. Walk'
  BY <1>1 DEF DInv, Walk, WalkTypes, Budget, Fresh, NothingLostNothingTwice
<1> QED BY <1>1, <1>2 DEF DInv, Counted, Followed

LEMMA StartDInv == DInv /\ Start => DInv'
<1> SUFFICES ASSUME DInv, Start PROVE DInv'
  OBVIOUS
<1>1. PICK sm \in {{}, Sitemap} : \E s \in Orders(sm \ {Seed}) :
         queue' = <<Seed>> \o s /\ visited' = sm \cup {Seed}
  BY DEF Start
<1>2. PICK s \in Orders(sm \ {Seed}) : queue' = <<Seed>> \o s
  BY <1>1
<1>3. sm \ {Seed} \in SUBSET Url /\ sm \subseteq Url
  OBVIOUS
<1>4. s \in Seq(Url) /\ Distinct(s) /\ Elems(s) = sm \ {Seed}
  BY <1>2, <1>3, OrderOf
<1>5. PICK one \in Seq(Url) : one = <<Seed>> /\ Distinct(one) /\ Elems(one) = {Seed}
  BY Single
<1>6. /\ queue' \in Seq(Url) /\ Distinct(queue')
      /\ Elems(queue') = {Seed} \cup (sm \ {Seed})
  <2>1. queue' = one \o s
    BY <1>2, <1>5
  <2>2. Distinct(one) /\ Elems(one) = {Seed} /\ Elems(one) \cap Elems(s) = {}
    BY <1>4, <1>5
  <2>3. one \o s \in Seq(Url) /\ Distinct(one \o s) /\ Elems(one \o s) = Elems(one) \cup Elems(s)
    BY <1>4, <2>2, Concat
  <2> QED BY <1>4, <2>1, <2>2, <2>3
<1>7. Settled' = Settled /\ Failed' = Failed /\ Settled = {} /\ InHand' = {} /\ pc' = "loop"
  BY DEF Start, DInv, Walk, Fresh, Settled, Failed, InHand
<1>8. Waiting' = Elems(queue')
  BY DEF Waiting, Elems
<1>9. NothingLostNothingTwice'
  BY <1>1, <1>6, <1>7, <1>8 DEF NothingLostNothingTwice, Distinct
<1>10. UNCHANGED <<url, fetched, errored, outcome>>
  BY DEF Start
<1>11. WalkTypes' /\ Budget' /\ Fresh'
  BY <1>1, <1>3, <1>6, <1>7, <1>10 DEF DInv, Walk, WalkTypes, Budget, Fresh
<1>12. Counted'
  BY <1>7, <1>10 DEF DInv, Counted
<1>13. Followed'
  <2>1. \A u \in Url : outcome[u] # "fresh"
    BY <1>7 DEF Settled
  <2> QED BY <1>10, <2>1 DEF Followed
<1> QED BY <1>9, <1>11, <1>12, <1>13 DEF DInv, Walk

LEMMA PopDInv == DInv /\ Pop => DInv'
<1> SUFFICES ASSUME DInv, Pop PROVE DInv'
  OBVIOUS
<1>1. queue \in Seq(Url) /\ queue # <<>> /\ Distinct(queue) /\ fetched < MAX_PAGES
  BY DEF Pop, MoreToDo, DInv, Walk, WalkTypes, NothingLostNothingTwice, Distinct
<1>2. /\ Head(queue) \in Url /\ Tail(queue) \in Seq(Url) /\ Distinct(Tail(queue))
      /\ Head(queue) \notin Elems(Tail(queue))
      /\ Elems(queue) = Elems(Tail(queue)) \cup {Head(queue)}
  BY <1>1, PopFront
<1>3. /\ url' = Head(queue) /\ queue' = Tail(queue) /\ pc = "loop" /\ pc' = "fetch"
      /\ UNCHANGED <<visited, fetched, errored, outcome>>
  BY DEF Pop
<1>4. /\ Settled' = Settled /\ Failed' = Failed /\ InHand = {} /\ InHand' = {Head(queue)}
      /\ Waiting = Elems(queue) /\ Waiting' = Elems(Tail(queue))
  BY <1>3 DEF Settled, Failed, InHand, Waiting, Elems
<1>5. NothingLostNothingTwice'
  <2>1. visited = Waiting \cup Settled /\ Waiting \cap Settled = {}
    BY <1>4 DEF DInv, Walk, NothingLostNothingTwice
  <2> QED BY <1>2, <1>3, <1>4, <2>1 DEF NothingLostNothingTwice, Distinct
<1>6. WalkTypes' /\ Budget' /\ Fresh'
  BY <1>1, <1>2, <1>3 DEF DInv, Walk, WalkTypes, Budget, Fresh
<1>7. Counted' /\ Followed'
  BY <1>3, <1>4 DEF DInv, Counted, Followed
<1> QED BY <1>5, <1>6, <1>7 DEF DInv, Walk

LEMMA RetryDInv == DInv /\ Retry => DInv'
<1> SUFFICES ASSUME DInv, Retry PROVE DInv'
  OBVIOUS
<1>1. /\ pc = "backoff" /\ pc' = "loop" /\ queue' = <<url>> \o queue
      /\ UNCHANGED <<visited, url, fetched, errored, outcome>>
  BY DEF Retry, Requeue
<1>2. /\ queue \in Seq(Url) /\ url \in Url /\ Distinct(queue)
      /\ visited = Elems(queue) \cup {url} \cup Settled
      /\ Elems(queue) \cap Settled = {} /\ url \notin Settled /\ url \notin Elems(queue)
  BY <1>1, WaitingIsElems DEF DInv, Walk, WalkTypes, NothingLostNothingTwice, Distinct, InHand
<1>3. PICK one \in Seq(Url) : one = <<url>> /\ Distinct(one) /\ Elems(one) = {url}
  BY <1>2, Single
<1>4. queue' \in Seq(Url) /\ Distinct(queue') /\ Elems(queue') = {url} \cup Elems(queue)
  <2>1. queue' = one \o queue
    BY <1>1, <1>3
  <2>2. Distinct(one) /\ Elems(one) = {url} /\ Elems(one) \cap Elems(queue) = {}
    BY <1>2, <1>3
  <2>3. /\ one \o queue \in Seq(Url) /\ Distinct(one \o queue)
        /\ Elems(one \o queue) = Elems(one) \cup Elems(queue)
    BY <1>2, <2>2, Concat
  <2> QED BY <2>1, <2>2, <2>3
<1>5. /\ Settled' = Settled /\ Failed' = Failed /\ InHand' = {} /\ Waiting' = Elems(queue')
  BY <1>1 DEF Settled, Failed, InHand, Waiting, Elems
<1>6. NothingLostNothingTwice'
  BY <1>1, <1>2, <1>4, <1>5 DEF NothingLostNothingTwice, Distinct
<1>7. WalkTypes' /\ Budget' /\ Fresh'
  BY <1>1, <1>4 DEF DInv, Walk, WalkTypes, Budget, Fresh
<1>8. Counted' /\ Followed'
  BY <1>1, <1>5 DEF DInv, Counted, Followed
<1> QED BY <1>6, <1>7, <1>8 DEF DInv, Walk

\* The page in hand is settled: the set of settled pages grows by one.
LEMMA Settles ==
    ASSUME DInv, pc = "fetch", NEW kind \in Outcomes \ {"none"},
           outcome' = [outcome EXCEPT ![url] = kind]
    PROVE  /\ url \in Url /\ url \notin Settled /\ Settled' = Settled \cup {url}
           /\ Failed' = IF kind = "error" THEN Failed \cup {url} ELSE Failed
           /\ Cardinality(Settled') = Cardinality(Settled) + 1
           /\ Cardinality(Failed') = IF kind = "error" THEN Cardinality(Failed) + 1
                                     ELSE Cardinality(Failed)
           /\ Cardinality(Settled) \in Nat /\ Cardinality(Failed) \in Nat
           /\ outcome' \in [Url -> Outcomes]
           /\ \A u \in Url \ {url} : outcome'[u] = outcome[u]
           /\ outcome'[url] = kind
<1>1. url \in Url /\ url \notin Settled /\ outcome \in [Url -> Outcomes]
  BY DEF DInv, Walk, WalkTypes, NothingLostNothingTwice, InHand
<1>2. outcome[url] = "none"
  BY <1>1 DEF Settled
<1>3. /\ Settled' = Settled \cup {url}
      /\ Failed' = IF kind = "error" THEN Failed \cup {url} ELSE Failed
  BY <1>1, <1>2 DEF Settled, Failed, Outcomes
<1>4. IsFiniteSet(Settled) /\ IsFiniteSet(Failed) /\ url \notin Failed
  BY <1>2, FS_Subset DEF Settled, Failed
<1>5. /\ Cardinality(Settled) \in Nat /\ Cardinality(Failed) \in Nat
      /\ Cardinality(Settled \cup {url}) = Cardinality(Settled) + 1
      /\ Cardinality(Failed \cup {url}) = Cardinality(Failed) + 1
  BY <1>1, <1>4, FS_AddElement, FS_CardinalityType
<1> QED BY <1>1, <1>3, <1>5

LEMMA ErroredDInv == DInv /\ Errored => DInv'
<1> SUFFICES ASSUME DInv, Errored PROVE DInv'
  OBVIOUS
<1>1. /\ pc = "fetch" /\ pc' \in {"sleep", "loop"} /\ errored' = errored + 1
      /\ outcome' = [outcome EXCEPT ![url] = "error"]
      /\ UNCHANGED <<queue, visited, url, fetched>>
  BY DEF Errored
<1>2. "error" \in Outcomes \ {"none"}
  BY DEF Outcomes
<1>3. /\ url \in Url /\ url \notin Settled /\ Settled' = Settled \cup {url}
      /\ Cardinality(Settled') = Cardinality(Settled) + 1
      /\ Cardinality(Failed') = Cardinality(Failed) + 1
      /\ Cardinality(Settled) \in Nat /\ Cardinality(Failed) \in Nat
      /\ outcome' \in [Url -> Outcomes]
      /\ \A u \in Url \ {url} : outcome'[u] = outcome[u]
      /\ outcome'[url] = "error"
  BY <1>1, <1>2, Settles
<1>4. InHand = {url} /\ InHand' = {} /\ Waiting' = Waiting
  BY <1>1 DEF InHand, Waiting
<1>5. NothingLostNothingTwice'
  BY <1>1, <1>3, <1>4 DEF DInv, Walk, NothingLostNothingTwice
<1>6. WalkTypes' /\ Budget' /\ Fresh'
  BY <1>1, <1>3 DEF DInv, Walk, WalkTypes, Budget, Fresh
<1>7. Counted'
  BY <1>1, <1>3 DEF DInv, Walk, WalkTypes, Counted
<1>8. Followed'
  BY <1>1, <1>3 DEF DInv, Followed
<1> QED BY <1>5, <1>6, <1>7, <1>8 DEF DInv, Walk

LEMMA AnsweredDInv ==
    ASSUME DInv, NEW kind \in {"fresh", "notmod", "other"}, Answered(kind)
    PROVE  DInv'
<1>1. /\ pc = "fetch" /\ pc' \in {"sleep", "loop"} /\ fetched' = fetched + 1
      /\ outcome' = [outcome EXCEPT ![url] = kind]
      /\ UNCHANGED <<url, errored>>
  BY DEF Answered, NextFetched
<1>2. kind \in Outcomes \ {"none"} /\ kind # "error"
  BY DEF Outcomes
<1>3. /\ url \in Url /\ url \notin Settled /\ Settled' = Settled \cup {url}
      /\ Cardinality(Settled') = Cardinality(Settled) + 1
      /\ Cardinality(Failed') = Cardinality(Failed)
      /\ Cardinality(Settled) \in Nat /\ Cardinality(Failed) \in Nat
      /\ outcome' \in [Url -> Outcomes]
      /\ \A u \in Url \ {url} : outcome'[u] = outcome[u]
      /\ outcome'[url] = kind
  BY <1>1, <1>2, Settles
<1>4. /\ InHand = {url} /\ InHand' = {} /\ Waiting = Elems(queue) /\ Waiting' = Elems(queue')
  BY <1>1 DEF InHand, Waiting, Elems
<1>5. /\ queue \in Seq(Url) /\ Distinct(queue) /\ visited \subseteq Url
      /\ visited = Elems(queue) \cup {url} \cup Settled
      /\ Elems(queue) \cap Settled = {} /\ url \notin Elems(queue)
  BY <1>4 DEF DInv, Walk, WalkTypes, NothingLostNothingTwice, Distinct
<1>6. /\ queue' \in Seq(Url) /\ Distinct(queue') /\ visited' \subseteq Url
      /\ visited' = Elems(queue') \cup {url} \cup Settled
      /\ Elems(queue') \cap (Settled \cup {url}) = {}
      /\ visited \subseteq visited' /\ (kind = "fresh" => Links[url] \subseteq visited')
  <2>1. CASE kind = "fresh"
    <3>1. Links[url] \in SUBSET Url /\ Links[url] \ visited \in SUBSET Url
      BY <1>3
    <3>2. PICK s \in Orders(Links[url] \ visited) : queue' = queue \o s
      BY <2>1 DEF Answered, Enqueue
    <3>3. visited' = visited \cup Links[url]
      BY <2>1 DEF Answered, Enqueue
    <3>4. s \in Seq(Url) /\ Distinct(s) /\ Elems(s) = Links[url] \ visited
      BY <3>1, <3>2, OrderOf
    <3>5. Elems(queue) \cap Elems(s) = {}
      BY <1>5, <3>4
    <3>6. /\ queue' \in Seq(Url) /\ Distinct(queue')
          /\ Elems(queue') = Elems(queue) \cup (Links[url] \ visited)
      BY <1>5, <3>2, <3>4, <3>5, Concat
    <3> QED BY <1>3, <1>5, <3>1, <3>3, <3>6
  <2>2. CASE kind # "fresh"
    <3>1. UNCHANGED <<queue, visited>>
      BY <2>2 DEF Answered
    <3> QED BY <1>3, <1>5, <2>2, <3>1
  <2> QED BY <2>1, <2>2
<1>7. NothingLostNothingTwice'
  BY <1>3, <1>4, <1>6 DEF NothingLostNothingTwice, Distinct
<1>8. WalkTypes' /\ Budget' /\ Fresh'
  BY <1>1, <1>3, <1>6 DEF DInv, Walk, WalkTypes, Budget, Fresh
<1>9. Counted'
  BY <1>1, <1>3 DEF DInv, Walk, WalkTypes, Counted
<1>10. Followed'
  BY <1>3, <1>6 DEF DInv, Followed
<1> QED BY <1>7, <1>8, <1>9, <1>10 DEF DInv, Walk

LEMMA NextDInv == DInv /\ [Next]_vars => DInv'
<1> SUFFICES ASSUME DInv, [Next]_vars PROVE DInv'
  OBVIOUS
<1>1. CASE StartFails \/ Finish \/ Wake
  <2>1. UNCHANGED <<queue, visited, url, fetched, errored, outcome>>
    BY <1>1 DEF StartFails, Finish, Wake
  <2>2. InHand' = InHand /\ pc' \in {"loop", "done", "failed"}
    BY <1>1 DEF StartFails, Finish, Wake, InHand
  <2> QED BY <2>1, <2>2, Unmoved
<1>2. ASSUME NEW d \in RetryAfters, RateLimited(d) PROVE DInv'
  <2>1. UNCHANGED <<queue, visited, url, fetched, errored, outcome>>
    BY <1>2 DEF RateLimited
  <2>2. InHand' = InHand /\ pc' \in {"aborted", "backoff"}
    BY <1>2 DEF RateLimited, InHand
  <2> QED BY <2>1, <2>2, Unmoved
<1>3. CASE UNCHANGED vars
  BY <1>3 DEF vars, DInv, Walk, WalkTypes, Budget, Fresh, NothingLostNothingTwice, Counted, Followed,
              Settled, Failed, Waiting, InHand
<1> QED BY <1>1, <1>2, <1>3, StartDInv, PopDInv, RetryDInv, ErroredDInv, AnsweredDInv
        DEF Next, Step, Ended

\* Every state of the walk satisfies DInv.
THEOREM WalkInvariance == Spec => []DInv
<1>1. Init /\ [][Next]_vars => []DInv
  BY InitDInv, NextDInv, PTL
<1> QED BY <1>1, PTL DEF Spec

\* Nothing that was discovered is dropped or crawled twice (crawl_target's
\* visited set and queue), on any site and with any mix of answers.
THEOREM NothingLost == Spec => []NothingLostNothingTwice
<1>1. DInv => NothingLostNothingTwice
  BY DEF DInv, Walk
<1> QED BY <1>1, WalkInvariance, PTL

\* The walk's state has its type, the run stays within max_pages_per_run, and
\* the count of 429s within the limit at which a run is given up.
THEOREM DriverTypeCorrect == Spec => []TypeOK
<1> DEFINE Asked == consecutive_429s \in 0..MAX_429 /\ robots_delay \in CrawlDelays \cup {None}
<1>1. DInv /\ Asked => TypeOK
  BY DEF DInv, Walk, TypeOK
<1>2. Init => Asked
  BY DEF Init
<1>3. Asked /\ [Next]_vars => Asked'
  <2> SUFFICES ASSUME Asked, [Next]_vars PROVE Asked'
    OBVIOUS
  <2>1. ASSUME NEW kind, Answered(kind) PROVE Asked'
    BY <2>1 DEF Answered, Nap
  <2>2. ASSUME NEW after, RateLimited(after) PROVE Asked'
    BY <2>2 DEF RateLimited, Nap, napVars
  <2>3. CASE Start \/ Errored
    BY <2>3 DEF Start, Errored, Nap
  <2>4. CASE StartFails \/ Pop \/ Finish \/ Wake \/ Retry \/ UNCHANGED vars
    BY <2>4 DEF StartFails, Pop, Finish, Wake, Retry, vars, napVars
  <2> QED BY <2>1, <2>2, <2>3, <2>4 DEF Next, Step, Ended
<1>4. Spec => []Asked
  BY <1>2, <1>3, PTL DEF Spec
<1> QED BY <1>1, <1>4, WalkInvariance, PTL

\* The statistics of a run (DriverStats) are exact, and within the page budget.
THEOREM CountsAreExact == Spec => []CountsExact
<1>1. DInv => CountsExact
  BY DEF DInv, Walk, WalkTypes, Counted, CountsExact, Failed
<1> QED BY <1>1, WalkInvariance, PTL

\* A run that ends with an empty queue has followed every link of every page it
\* got a body for (crawl_target's loop).
THEOREM FrontierIsExhausted == Spec => []FrontierExhausted
<1>1. DInv => FrontierExhausted
  <2> SUFFICES ASSUME DInv, pc = "done", queue = <<>>, NEW u \in Url, outcome[u] = "fresh"
               PROVE  Links[u] \subseteq Settled
    BY DEF FrontierExhausted
  <2>1. Waiting = {} /\ InHand = {}
    BY DEF Waiting, InHand
  <2> QED BY <2>1 DEF DInv, Walk, NothingLostNothingTwice, Followed
<1> QED BY <1>1, WalkInvariance, PTL

-----------------------------------------------------------------------------
(* The sleeps *)

\* What is owed is slept before the next page is popped, and a sleep under way
\* is long enough.
Rested ==
    /\ nap \in Nat /\ slept \in Nat /\ owed \in Nat
    /\ consecutive_429s \in Nat /\ robots_delay \in CrawlDelays \cup {None}
    /\ pc \in {"sleep", "backoff"} => nap >= owed
    /\ pc = "start" \/ (pc = "loop" /\ MoreToDo(queue, fetched)) => slept >= owed

\* effective_delay_for_run takes neither less than the admin's delay nor less
\* than the site's.
LEMMA DelayCoversBoth ==
    ASSUME robots_delay \in CrawlDelays \cup {None}
    PROVE  /\ effective_delay \in Nat /\ Larger(politeness_delay, CrawlDelay) \in Nat
           /\ effective_delay >= Larger(politeness_delay, CrawlDelay)
BY DelayAssumption DEF effective_delay, effective_delay_for_run, CrawlDelay, Larger

\* sleep_dur waits what the site asked for, up to the cap, and never not at all
\* when it asked for nothing.
LEMMA BackoffCovers ==
    ASSUME NEW n \in Nat \ {0}, NEW after \in RetryAfters
    PROVE  LET due == IF after = None THEN 1 ELSE Smaller(after, MAX_BACKOFF)
           IN  sleep_dur(n, after) \in Nat /\ due \in Nat /\ sleep_dur(n, after) >= due
<1>1. CASE after # None
  BY <1>1, DelayAssumption DEF sleep_dur, Smaller
<1>2. CASE after = None
  <2>1. /\ rate_limit_backoff(n) = None \/ rate_limit_backoff(n) \in Nat
        /\ rate_limit_backoff(n) # None => rate_limit_backoff(n) >= 1
    <3>1. CASE n >= 5
      BY <3>1 DEF rate_limit_backoff
    <3>2. CASE n \in 1..4
      BY <3>2 DEF rate_limit_backoff
    <3> QED BY <3>1, <3>2
  <2> QED BY <1>2, <2>1, DelayAssumption DEF sleep_dur, Smaller
<1> QED BY <1>1, <1>2

LEMMA NextRested == Rested /\ [Next]_vars => Rested'
<1> SUFFICES ASSUME Rested, [Next]_vars PROVE Rested'
  OBVIOUS
<1>1. ASSUME NEW kind, Answered(kind) PROVE Rested'
  <2>1. pc' = IF MoreToDo(queue', fetched') THEN "sleep" ELSE "loop"
    BY <1>1 DEF Answered
  <2>2. /\ nap' = effective_delay /\ slept' = 0 /\ owed' = Larger(politeness_delay, CrawlDelay)
        /\ consecutive_429s' = 0 /\ robots_delay' = robots_delay
    BY <1>1 DEF Answered, Nap
  <2> QED BY <2>1, <2>2, DelayCoversBoth DEF Rested
<1>2. CASE Errored
  <2>1. pc' = IF MoreToDo(queue', fetched') THEN "sleep" ELSE "loop"
    BY <1>2 DEF Errored
  <2>2. /\ nap' = effective_delay /\ slept' = 0 /\ owed' = Larger(politeness_delay, CrawlDelay)
        /\ UNCHANGED <<consecutive_429s, robots_delay>>
    BY <1>2 DEF Errored, Nap
  <2> QED BY <2>1, <2>2, DelayCoversBoth DEF Rested
<1>3. ASSUME NEW after \in RetryAfters, RateLimited(after) PROVE Rested'
  <2>1. consecutive_429s' \in Nat /\ consecutive_429s + 1 \in Nat \ {0}
    BY <1>3 DEF RateLimited, Rested
  <2>2. CASE pc' = "aborted" /\ UNCHANGED napVars
    BY <2>1, <2>2 DEF Rested, napVars
  <2>3. CASE /\ pc' = "backoff"
             /\ Nap(sleep_dur(consecutive_429s + 1, after),
                    IF after = None THEN 1 ELSE Smaller(after, MAX_BACKOFF))
    <3>1. /\ nap' \in Nat /\ owed' \in Nat /\ nap' >= owed' /\ slept' = 0
          /\ robots_delay' = robots_delay
      BY <2>1, <2>3, BackoffCovers DEF Nap
    <3> QED BY <2>1, <2>3, <3>1 DEF Rested
  <2> QED BY <1>3, <2>2, <2>3 DEF RateLimited
<1>4. CASE Start
  <2>1. UNCHANGED <<consecutive_429s, nap, slept, owed>> /\ robots_delay' \in CrawlDelays \cup {None}
    BY <1>4 DEF Start
  <2> QED BY <1>4, <2>1 DEF Start, Rested
<1>5. CASE Wake \/ Retry
  BY <1>5 DEF Wake, Retry, Rested
<1>6. CASE StartFails \/ Pop \/ Finish \/ UNCHANGED vars
  BY <1>6 DEF StartFails, Pop, Finish, vars, napVars, Rested
<1> QED BY <1>1, <1>2, <1>3, <1>4, <1>5, <1>6 DEF Next, Step, Ended

\* Polite: between two requests the walk has slept what the admin and the site
\* asked for, whichever is more, for any delays and any mix of answers
\* (effective_delay_for_run, the back-off of crawl_target).
THEOREM RequestsArePolite == Spec => Polite
<1>1. Init => Rested
  BY DEF Init, Rested
<1>2. Rested /\ [Next]_vars => [pc = "loop" /\ pc' = "fetch" => slept >= owed]_vars
  <2> SUFFICES ASSUME Rested, [Next]_vars, pc = "loop", pc' = "fetch" PROVE slept >= owed
    OBVIOUS
  <2>1. Pop
    BY DEF Next, Step, Ended, Start, StartFails, Finish, Answered, Errored, Wake, Retry, RateLimited,
           vars
  <2> QED BY <2>1 DEF Pop, Rested
<1> QED BY <1>1, <1>2, NextRested, PTL DEF Spec, Polite

=============================================================================
