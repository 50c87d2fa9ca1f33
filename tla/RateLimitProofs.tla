--------------------------- MODULE RateLimitProofs ---------------------------
(***************************************************************************)
(* What the limiter promises for any number of concurrent requests, any    *)
(* limits and any growing ladder.  The invariant LInv ties the row to the  *)
(* wall clock (no request goes by a time in the future), the cooloff to    *)
(* the rung that set it, and the cached answer to the age of the last      *)
(* change of node_peers.                                                   *)
(***************************************************************************)
EXTENDS RateLimit, FiniteSetTheorems, WellFoundedInduction, TLAPS

RowType ==
    /\ clock \in 1..MaxTime
    /\ violations \in Nat /\ cooloff_until \in Nat /\ last_violation_at \in 0..MaxTime

ReqType ==
    /\ req \in [Req -> [pc : {"idle", "arrived", "decide"}, now : 0..MaxTime,
                        limit : {0, ANON_LIMIT, PEER_LIMIT}]]
    /\ \A r \in Req : req[r].pc # "idle" => req[r].now >= 1 /\ req[r].now <= clock

CacheType == cacheAge \in 0..Stale /\ movedAge \in 0..Stale

\* A fresh cache that was filled after the last change holds the truth.
CacheTrue == cacheAge <= PEER_IP_CACHE_TTL /\ cacheAge < movedAge => cached = peer

Rung(n) == IF n < Len(LADDER) THEN n ELSE Len(LADDER)

\* The running or last cooloff is the rung the violations counted so far lead
\* to, unless a clean period has reset the count.
OnRung ==
    last_violation_at > 0 =>
        \/ violations = 0 /\ clock - last_violation_at > CLEAN_PERIOD
        \/ /\ violations > 0
           /\ cooloff_until - last_violation_at = LADDER[Rung(violations)]

LInv == RowType /\ ReqType /\ CacheType /\ CacheTrue /\ OnRung

USE LimiterAssumption

LEMMA LadderFacts ==
    /\ Len(LADDER) \in Nat \ {0}
    /\ \A i \in 1..Len(LADDER) : LADDER[i] \in Nat
OBVIOUS

LEMMA InitLInv == Init => LInv
<1> SUFFICES ASSUME Init PROVE LInv
  OBVIOUS
<1>1. RowType
  BY DEF Init, RowType
<1>2. ReqType
  BY DEF Init, ReqType, NoReq
<1>3. CacheType /\ CacheTrue
  BY DEF Init, CacheType, CacheTrue, Stale
<1>4. OnRung
  BY DEF Init, OnRung
<1> QED BY <1>1, <1>2, <1>3, <1>4 DEF LInv

\* What the three outcomes have in common.
LEMMA DecidingReq ==
    ASSUME LInv, NEW r \in Req, Deciding(r), clock' = clock
    PROVE  /\ ReqType'
           /\ req[r].now \in 1..MaxTime /\ req[r].now <= clock
           /\ \A q \in Req : req[q].pc = "decide" /\ req'[q].pc = "idle" => q = r
BY DEF LInv, RowType, ReqType, Deciding, NoReq

\* A reset happens only after a clean period, on the wall clock too.
LEMMA ResetIsClean ==
    ASSUME LInv, NEW now \in 1..MaxTime, now <= clock
    PROVE  /\ ViolationsAt(now) \in Nat
           /\ \/ ViolationsAt(now) = violations
              \/ /\ ViolationsAt(now) = 0 /\ last_violation_at > 0
                 /\ clock - last_violation_at > CLEAN_PERIOD
                 /\ cooloff_until <= now
BY DEF LInv, RowType, ViolationsAt, Clean

LEMMA OutcomeLInv ==
    ASSUME LInv, NEW r \in Req,
           RejectCooling(r) \/ Violate(r) \/ Allow(r) \/ StorageFails(r)
    PROVE  LInv'
<1> DEFINE now == req[r].now
<1>1. Deciding(r) /\ clock' = clock
  BY DEF RejectCooling, Violate, Allow, StorageFails
<1>2. ReqType' /\ now \in 1..MaxTime /\ now <= clock
  BY <1>1, DecidingReq
<1>3. UNCHANGED <<peer, cached, cacheAge, movedAge>>
  BY DEF RejectCooling, Violate, Allow, StorageFails, cacheVars
<1>4. CacheType' /\ CacheTrue'
  BY <1>3 DEF LInv, CacheType, CacheTrue
<1>5. /\ ViolationsAt(now) \in Nat
      /\ \/ ViolationsAt(now) = violations
         \/ /\ ViolationsAt(now) = 0 /\ last_violation_at > 0
            /\ clock - last_violation_at > CLEAN_PERIOD
  BY <1>2, ResetIsClean
<1> HIDE DEF now
<1>6. CASE RejectCooling(r) \/ Allow(r)
  <2>1. /\ violations' = ViolationsAt(now)
        /\ UNCHANGED <<clock, cooloff_until, last_violation_at>>
    BY <1>6 DEF RejectCooling, Allow, now
  <2>2. RowType'
    BY <1>5, <2>1 DEF LInv, RowType
  <2>3. OnRung'
    BY <1>5, <2>1 DEF LInv, OnRung, Rung
  <2> QED BY <1>2, <1>4, <2>2, <2>3 DEF LInv
<1>7. CASE Violate(r)
  <2> DEFINE v == ViolationsAt(now)
             idx == IF v < Len(LADDER) - 1 THEN v ELSE Len(LADDER) - 1
  <2>1. /\ violations' = v + 1 /\ clock' = clock
        /\ cooloff_until' = now + LADDER[idx + 1]
        /\ last_violation_at' = now
    BY <1>7 DEF Violate, now
  <2>2. v \in Nat
    BY <1>5
  <2> HIDE DEF v
  <2>3. idx + 1 = Rung(v + 1) /\ idx + 1 \in 1..Len(LADDER)
    BY <2>2, LadderFacts DEF Rung
  <2>4. LADDER[idx + 1] \in Nat
    BY <2>3, LadderFacts
  <2> HIDE DEF idx
  <2>5. RowType'
    BY <1>2, <2>1, <2>2, <2>4 DEF LInv, RowType
  <2>6. OnRung'
    BY <1>2, <2>1, <2>2, <2>3, <2>4 DEF OnRung
  <2> QED BY <1>2, <1>4, <2>5, <2>6 DEF LInv
<1>8. CASE StorageFails(r)
  <2>1. UNCHANGED <<clock, violations, cooloff_until, last_violation_at>>
    BY <1>8 DEF StorageFails, rowVars
  <2> QED BY <1>2, <1>4, <2>1 DEF LInv, RowType, OnRung
<1> QED BY <1>6, <1>7, <1>8

LEMMA NextLInv == LInv /\ [Next]_vars => LInv'
<1> SUFFICES ASSUME LInv, [Next]_vars PROVE LInv'
  OBVIOUS
<1>1. ASSUME NEW r \in Req, Arrive(r) PROVE LInv'
  <2>1. /\ UNCHANGED <<clock, violations, cooloff_until, last_violation_at>>
        /\ UNCHANGED <<peer, cached, cacheAge, movedAge>>
    BY <1>1 DEF Arrive, rowVars, cacheVars
  <2>2. ReqType'
    BY <1>1, <2>1 DEF Arrive, LInv, RowType, ReqType
  <2> QED BY <2>1, <2>2 DEF LInv, RowType, CacheType, CacheTrue, OnRung
<1>2. ASSUME NEW r \in Req, Bucket(r) PROVE LInv'
  <2>1. UNCHANGED <<clock, violations, cooloff_until, last_violation_at, peer, movedAge>>
    BY <1>2 DEF Bucket, rowVars
  <2>2. ReqType'
    BY <1>2, <2>1 DEF Bucket, LInv, RowType, ReqType
  <2>3. CacheType' /\ CacheTrue'
    BY <1>2, <2>1 DEF Bucket, NeedsRefresh, refresh, LInv, CacheType, CacheTrue, Stale
  <2> QED BY <2>1, <2>2, <2>3 DEF LInv, RowType, OnRung
<1>3. ASSUME NEW r \in Req, RejectCooling(r) \/ Violate(r) \/ Allow(r) \/ StorageFails(r)
      PROVE  LInv'
  BY <1>3, OutcomeLInv
<1>4. CASE MovePeer
  <2>1. UNCHANGED <<clock, violations, cooloff_until, last_violation_at, cached, cacheAge, req>>
    BY <1>4 DEF MovePeer, rowVars, cacheVars
  <2>2. CacheType' /\ CacheTrue'
    BY <1>4, <2>1 DEF MovePeer, LInv, CacheType, CacheTrue, Stale
  <2> QED BY <2>1, <2>2 DEF LInv, RowType, ReqType, OnRung
<1>5. CASE Time
  <2>1. /\ UNCHANGED <<violations, cooloff_until, last_violation_at, peer, cached, req>>
        /\ clock' = clock + 1 /\ clock < MaxTime
        /\ cacheAge' = Older(cacheAge) /\ movedAge' = Older(movedAge)
    BY <1>5 DEF Time, rowVars
  <2>2. RowType' /\ ReqType'
    BY <2>1 DEF LInv, RowType, ReqType
  <2>3. CacheType' /\ CacheTrue'
    BY <2>1 DEF LInv, CacheType, CacheTrue, Older, Stale
  <2>4. OnRung'
    BY <2>1 DEF LInv, RowType, OnRung
  <2> QED BY <2>2, <2>3, <2>4 DEF LInv
<1>6. CASE UNCHANGED vars
  BY <1>6 DEF vars, rowVars, cacheVars, LInv, RowType, ReqType, CacheType, CacheTrue, OnRung
<1> QED BY <1>1, <1>2, <1>3, <1>4, <1>5, <1>6 DEF Next

\* Every state of the limiter satisfies LInv.
THEOREM LimiterInvariance == Spec => []LInv
BY InitLInv, NextLInv, PTL DEF Spec

\* However late a request is decided, it never shortens a running cooloff and
\* is never let through while one is running (check_and_record_key).
THEOREM CooloffsHold == Spec => CooloffHolds
<1> DEFINE A == /\ cooloff_until' >= cooloff_until
                /\ granted' # granted => cooloff_until <= clock
<1>1. LInv /\ [Next]_vars => A
  <2> SUFFICES ASSUME LInv, [Next]_vars PROVE A
    OBVIOUS
  <2>0. cooloff_until \in Nat /\ cooloff_until >= cooloff_until
    BY DEF LInv, RowType
  <2>1. ASSUME NEW r \in Req, Arrive(r) \/ Bucket(r) \/ RejectCooling(r) \/ StorageFails(r)
        PROVE  UNCHANGED <<cooloff_until, granted>>
    BY <2>1 DEF Arrive, Bucket, RejectCooling, StorageFails, rowVars, histVars
  <2>2. ASSUME NEW r \in Req, Violate(r) PROVE A
    <3>1. req[r].now \in 1..MaxTime /\ ViolationsAt(req[r].now) \in Nat
      BY <2>2, DecidingReq, ResetIsClean DEF Violate
    <3> DEFINE v == ViolationsAt(req[r].now)
               idx == IF v < Len(LADDER) - 1 THEN v ELSE Len(LADDER) - 1
    <3>2. /\ cooloff_until' = req[r].now + LADDER[idx + 1]
          /\ ~Cooling(req[r].now) /\ granted' = granted
      BY <2>2 DEF Violate, histVars
    <3>3. LADDER[idx + 1] \in Nat
      BY <3>1, LadderFacts
    <3> HIDE DEF idx
    <3> QED BY <2>0, <3>1, <3>2, <3>3 DEF Cooling
  <2>3. ASSUME NEW r \in Req, Allow(r) PROVE A
    <3>1. req[r].now \in 1..MaxTime /\ req[r].now <= clock /\ clock \in 1..MaxTime
      BY <2>3, DecidingReq DEF Allow, LInv, RowType
    <3>2. ~Cooling(req[r].now) /\ cooloff_until' = cooloff_until
      BY <2>3 DEF Allow
    <3> QED BY <2>0, <3>1, <3>2 DEF Cooling
  <2>4. CASE MovePeer \/ Time \/ UNCHANGED vars
    BY <2>0, <2>4 DEF MovePeer, Time, vars, rowVars, histVars
  <2> QED BY <2>0, <2>1, <2>2, <2>3, <2>4 DEF Next
<1>2. Spec => [][A]_vars
  BY <1>1, LimiterInvariance, PTL DEF Spec
<1> QED BY <1>2 DEF CooloffHolds

\* With a ladder that grows, as the default one does, every new cooloff is
\* longer than the one before it or as long as the last rung, unless a clean
\* period has passed (check_and_record_key), in whatever order concurrent
\* requests are decided.
THEOREM PenaltiesEscalate == Spec => Escalates
<1> DEFINE A == \A r \in Req :
                  last_violation_at > 0 /\ violations' > 0
                  /\ req[r].pc = "decide" /\ req'[r].pc = "idle"
                  /\ cooloff_until' # cooloff_until
                  => \/ cooloff_until' - last_violation_at' > cooloff_until - last_violation_at
                     \/ cooloff_until' - last_violation_at' = LADDER[Len(LADDER)]
                     \/ clock - last_violation_at > CLEAN_PERIOD
<1>1. LInv /\ [Next]_vars => A
  <2> SUFFICES ASSUME LInv, [Next]_vars,
                      last_violation_at > 0, cooloff_until' # cooloff_until
               PROVE  \/ cooloff_until' - last_violation_at' > cooloff_until - last_violation_at
                      \/ cooloff_until' - last_violation_at' = LADDER[Len(LADDER)]
                      \/ clock - last_violation_at > CLEAN_PERIOD
    OBVIOUS
  <2>1. PICK r \in Req : Violate(r)
    BY DEF Next, Arrive, Bucket, RejectCooling, Allow, StorageFails, MovePeer, Time,
           vars, rowVars
  <2>2. /\ req[r].now \in 1..MaxTime /\ ViolationsAt(req[r].now) \in Nat
        /\ \/ ViolationsAt(req[r].now) = violations
           \/ clock - last_violation_at > CLEAN_PERIOD
    BY <2>1, DecidingReq, ResetIsClean DEF Violate
  <2> DEFINE idx == IF violations < Len(LADDER) - 1 THEN violations ELSE Len(LADDER) - 1
  <2>3. CASE clock - last_violation_at > CLEAN_PERIOD
    BY <2>3
  <2>4. CASE ViolationsAt(req[r].now) = violations /\ ~(clock - last_violation_at > CLEAN_PERIOD)
    <3>1. /\ violations \in Nat /\ violations > 0
          /\ cooloff_until - last_violation_at = LADDER[Rung(violations)]
      BY <2>4 DEF LInv, RowType, OnRung
    <3>2. /\ cooloff_until' = req[r].now + LADDER[idx + 1]
          /\ last_violation_at' = req[r].now
      BY <2>1, <2>4 DEF Violate
    <3>3. LADDER[idx + 1] \in Nat
      BY <3>1, LadderFacts
    <3>4. cooloff_until' - last_violation_at' = LADDER[idx + 1]
      BY <2>2, <3>2, <3>3
    <3>5. CASE violations >= Len(LADDER) - 1
      BY <3>1, <3>4, <3>5, LadderFacts
    <3>6. CASE violations < Len(LADDER) - 1
      <4>1. /\ violations \in 1..(Len(LADDER) - 1)
            /\ Rung(violations) = violations /\ idx + 1 = violations + 1
        BY <3>1, <3>6, LadderFacts DEF Rung
      <4>2. LADDER[violations] < LADDER[violations + 1]
        BY <4>1
      <4> QED BY <3>1, <3>4, <4>1, <4>2, <3>3
    <3> QED BY <3>1, <3>5, <3>6, LadderFacts
  <2> QED BY <2>2, <2>3, <2>4
<1>2. Spec => [][A]_vars
  BY <1>1, LimiterInvariance, PTL DEF Spec
<1> QED BY <1>2 DEF Escalates

\* The bucket is chosen wrongly only within PEER_IP_CACHE_TTL seconds of a change
\* in node_peers (PeerIpCache, is_peer_ip), whatever the requests do meanwhile.
THEOREM BucketsFollow == Spec => BucketFollowsPeers
<1> DEFINE A == \A r \in Req :
                  req[r].pc = "arrived" /\ req'[r].pc = "decide"
                  /\ movedAge > PEER_IP_CACHE_TTL
                  => cached' = peer
<1>1. LInv /\ [Next]_vars => A
  <2> SUFFICES ASSUME LInv, [Next]_vars, NEW r \in Req, req[r].pc = "arrived",
                      req'[r].pc = "decide", movedAge > PEER_IP_CACHE_TTL
               PROVE  cached' = peer
    OBVIOUS
  <2>1. Bucket(r)
    BY DEF Next, Arrive, Bucket, RejectCooling, Violate, Allow, StorageFails, Deciding,
           MovePeer, Time, vars, NoReq, LInv, ReqType
  <2>2. CASE NeedsRefresh
    BY <2>1, <2>2 DEF Bucket, refresh
  <2>3. CASE ~NeedsRefresh
    <3>1. cached' = cached
      BY <2>1, <2>3 DEF Bucket
    <3>2. cached = peer
      BY <2>3 DEF NeedsRefresh, LInv, CacheTrue, CacheType, Stale
    <3> QED BY <3>1, <3>2
  <2> QED BY <2>2, <2>3
<1>2. Spec => [][A]_vars
  BY <1>1, LimiterInvariance, PTL DEF Spec
<1> QED BY <1>2 DEF BucketFollowsPeers

-----------------------------------------------------------------------------
(***************************************************************************)
(* The limit itself.  Both the log of the row and the history of grants    *)
(* are counted from a moment on (After), and retain never changes the      *)
(* count from a moment on or after its cut.  WInv says that the row still  *)
(* accounts for every grant of the last WINDOW - MaxSkew seconds, each     *)
(* under a timestamp at most MaxSkew earlier.                              *)
(***************************************************************************)

\* Induction over the naturals, as the absence of a least counterexample.
LEMMA NatInd ==
    ASSUME NEW S, 0 \in S, \A n \in Nat : n \in S => n + 1 \in S
    PROVE  Nat \subseteq S
<1> SUFFICES ASSUME Nat \ S # {} PROVE FALSE
  OBVIOUS
<1> DEFINE R == OpToRel(<, Nat)
<1>1. IsWellFoundedOn(R, Nat)
  BY NatLessThanWellFounded
<1> HIDE DEF R
<1>2. PICK x \in Nat \ S : \A y \in Nat \ S : <<y, x>> \notin R
  <2>1. Nat \ S \subseteq Nat
    OBVIOUS
  <2> QED BY <1>1, <2>1, WFMin, Zenon
<1>3. x - 1 \in Nat /\ x - 1 < x
  BY <1>2
<1>4. <<x - 1, x>> \in R
  BY <1>3 DEF R, OpToRel
<1>5. x - 1 \in S
  BY <1>2, <1>3, <1>4
<1> QED BY <1>2, <1>3, <1>5

\* The recursive definition inside Retain defines a function: one for the first
\* n timestamps extends to one for the first n + 1.
LEMMA RetainRec ==
    ASSUME NEW log \in Seq(Nat), NEW cut \in Int
    PROVE  \E f : /\ f = [n \in 0..Len(log) |->
                            IF n = 0 THEN <<>>
                            ELSE IF log[n] > cut THEN Append(f[n - 1], log[n]) ELSE f[n - 1]]
                  /\ Retain(log, cut) = f[Len(log)]
<1> DEFINE Step(v, n) == IF log[n] > cut THEN Append(v, log[n]) ELSE v
           Def(f, m) == f = [n \in 0..m |-> IF n = 0 THEN <<>> ELSE Step(f[n - 1], n)]
           S == {m \in Nat : \E f : Def(f, m)}
<1>0. Len(log) \in Nat
  OBVIOUS
<1>1. 0 \in S
  <2>1. Def([n \in 0..0 |-> <<>>], 0)
    OBVIOUS
  <2> QED BY <2>1
<1> HIDE DEF Step
<1>2. ASSUME NEW m \in Nat, m \in S PROVE m + 1 \in S
  <2>1. PICK f : Def(f, m)
    BY <1>2
  <2> DEFINE g == [n \in 0..(m + 1) |-> IF n <= m THEN f[n] ELSE Step(f[m], m + 1)]
  <2>2. ASSUME NEW n \in 0..(m + 1)
        PROVE  g[n] = IF n = 0 THEN <<>> ELSE Step(g[n - 1], n)
    <3>1. CASE n = 0
      BY <2>1, <3>1
    <3>2. CASE n # 0 /\ n <= m
      <4>1. g[n] = f[n] /\ g[n - 1] = f[n - 1]
        BY <3>2
      <4>2. f[n] = Step(f[n - 1], n)
        BY <2>1, <3>2
      <4> HIDE DEF g
      <4> QED BY <3>2, <4>1, <4>2
    <3>3. CASE n = m + 1
      <4>1. g[n] = Step(f[m], n) /\ g[n - 1] = f[m]
        BY <3>3
      <4> HIDE DEF g
      <4> QED BY <3>3, <4>1
    <3> QED BY <3>1, <3>2, <3>3
  <2>3. Def(g, m + 1)
    BY <2>2
  <2>4. \E h : Def(h, m + 1)
    <3> HIDE DEF g, Def
    <3> QED BY <2>3
  <2> HIDE DEF Def
  <2> QED BY <2>4
<1> HIDE DEF S
<1>3. Nat \subseteq S
  BY <1>1, <1>2, NatInd
<1>4. \E f : Def(f, Len(log))
  <2> HIDE DEF Def
  <2> QED BY <1>0, <1>3 DEF S
<1> QED BY <1>4 DEF Retain, Step

\* The entries of s after y.
After(s, y) == {i \in 1..Len(s) : s[i] > y}

\* A sequence over T is one over any larger set.
LEMMA SeqWiden ==
    ASSUME NEW T, NEW U, T \subseteq U, NEW s \in Seq(T)
    PROVE  s \in Seq(U) /\ Len(s) \in Nat /\ \A i \in 1..Len(s) : s[i] \in T
<1>1. Len(s) \in Nat /\ s \in [1..Len(s) -> T]
  OBVIOUS
<1>2. s \in [1..Len(s) -> U]
  BY <1>1
<1> QED BY <1>1, <1>2

LEMMA AfterFacts ==
    ASSUME NEW s \in Seq(Int), NEW y \in Int
    PROVE  /\ IsFiniteSet(After(s, y)) /\ Cardinality(After(s, y)) \in Nat
           /\ Cardinality(After(s, y)) <= Len(s)
<1>0. Len(s) \in Nat
  OBVIOUS
<1>1. IsFiniteSet(1..Len(s)) /\ Cardinality(1..Len(s)) = Len(s)
  <2>1. ASSUME NEW n \in Nat PROVE IsFiniteSet(1..n) /\ Cardinality(1..n) = n
    BY FS_Interval, 1 \in Int, n \in Int
  <2> QED BY <1>0, <2>1
<1>2. After(s, y) \subseteq 1..Len(s)
  BY DEF After
<1> QED BY <1>1, <1>2, FS_Subset, FS_CardinalityType

LEMMA AppendAfter ==
    ASSUME NEW s \in Seq(Int), NEW x \in Int, NEW y \in Int
    PROVE  Cardinality(After(Append(s, x), y))
             = Cardinality(After(s, y)) + (IF x > y THEN 1 ELSE 0)
<1>1. IsFiniteSet(After(s, y)) /\ Cardinality(After(s, y)) \in Nat
  BY AfterFacts
<1>2. CASE x > y
  <2>1. After(Append(s, x), y) = After(s, y) \cup {Len(s) + 1}
    BY <1>2 DEF After
  <2>2. Len(s) + 1 \notin After(s, y)
    BY DEF After
  <2>3. Cardinality(After(s, y) \cup {Len(s) + 1}) = Cardinality(After(s, y)) + 1
    BY <1>1, <2>2, FS_AddElement, Zenon
  <2> QED BY <1>1, <1>2, <2>1, <2>3
<1>3. CASE ~(x > y)
  <2>1. After(Append(s, x), y) = After(s, y)
    BY <1>3 DEF After
  <2> QED BY <1>1, <1>3, <2>1
<1> QED BY <1>2, <1>3

\* What retain leaves: no more entries than there were, of the same kind, and
\* as many as before after any moment from the cut on.
LEMMA RetainFacts ==
    ASSUME NEW T \in SUBSET Nat, NEW log \in Seq(T), NEW cut \in Int
    PROVE  /\ Retain(log, cut) \in Seq(T)
           /\ Len(Retain(log, cut)) <= Len(log)
           /\ \A y \in Int : y >= cut =>
                Cardinality(After(Retain(log, cut), y)) = Cardinality(After(log, y))
<1>0. log \in Seq(Nat) /\ Len(log) \in Nat /\ \A i \in 1..Len(log) : log[i] \in T
  BY SeqWiden
<1>1. PICK f : /\ f = [n \in 0..Len(log) |->
                         IF n = 0 THEN <<>>
                         ELSE IF log[n] > cut THEN Append(f[n - 1], log[n]) ELSE f[n - 1]]
               /\ Retain(log, cut) = f[Len(log)]
  BY <1>0, RetainRec
<1> DEFINE Pre(m, y) == {i \in 1..m : log[i] > y}
           Good(m) == /\ f[m] \in Seq(T) /\ Len(f[m]) <= m
                      /\ \A y \in Int : y >= cut =>
                           Cardinality(After(f[m], y)) = Cardinality(Pre(m, y))
           S == {m \in Nat : m <= Len(log) => Good(m)}
<1>2. 0 \in S
  <2>1. f[0] = <<>>
    BY <1>0, <1>1
  <2>2. ASSUME NEW y \in Int PROVE After(<<>>, y) = Pre(0, y)
    BY DEF After
  <2>3. f[0] \in Seq(T) /\ Len(f[0]) <= 0
    BY <2>1
  <2> HIDE DEF Pre
  <2>4. \A y \in Int : Cardinality(After(f[0], y)) = Cardinality(Pre(0, y))
    BY <2>1, <2>2
  <2> QED BY <2>3, <2>4
<1>3. ASSUME NEW m \in Nat, m \in S PROVE m + 1 \in S
  <2> SUFFICES ASSUME m + 1 <= Len(log) PROVE Good(m + 1)
    OBVIOUS
  <2>1. /\ f[m] \in Seq(T) /\ Len(f[m]) <= m
        /\ \A y \in Int : y >= cut => Cardinality(After(f[m], y)) = Cardinality(Pre(m, y))
    BY <1>0, <1>3
  <2> DEFINE e == log[m + 1]
  <2>2. e \in T /\ e \in Int
    BY <1>0
  <2>3. f[m + 1] = IF e > cut THEN Append(f[m], e) ELSE f[m]
    <3>1. m + 1 \in 0..Len(log) /\ m + 1 # 0 /\ (m + 1) - 1 = m
      BY <1>0
    <3>2. f[m + 1] = IF log[m + 1] > cut THEN Append(f[(m + 1) - 1], log[m + 1])
                     ELSE f[(m + 1) - 1]
      BY <1>1, <3>1
    <3> QED BY <3>1, <3>2
  <2>4. ASSUME NEW y \in Int
        PROVE  Cardinality(Pre(m + 1, y)) = Cardinality(Pre(m, y)) + (IF e > y THEN 1 ELSE 0)
    <3>1. IsFiniteSet(1..m)
      BY FS_Interval
    <3>2. IsFiniteSet(Pre(m, y))
      BY <3>1, FS_Subset
    <3>3. Cardinality(Pre(m, y)) \in Nat
      BY <3>2, FS_CardinalityType
    <3>4. CASE e > y
      <4>1. Pre(m + 1, y) = Pre(m, y) \cup {m + 1} /\ m + 1 \notin Pre(m, y)
        BY <3>4
      <4> HIDE DEF Pre
      <4>2. Cardinality(Pre(m, y) \cup {m + 1}) = Cardinality(Pre(m, y)) + 1
        BY <3>2, <4>1, FS_AddElement, Zenon
      <4> QED BY <3>3, <3>4, <4>1, <4>2
    <3>5. CASE ~(e > y)
      <4>1. Pre(m + 1, y) = Pre(m, y)
        BY <3>5
      <4> HIDE DEF Pre
      <4> QED BY <3>3, <3>5, <4>1
    <3> QED BY <3>4, <3>5
  <2>5. f[m] \in Seq(Int) /\ Len(f[m]) \in Nat
    <3>1. T \subseteq Int
      OBVIOUS
    <3> QED BY <2>1, <3>1, SeqWiden
  <2> HIDE DEF e, Pre
  <2>6. f[m + 1] \in Seq(T) /\ Len(f[m + 1]) <= m + 1
    BY <2>1, <2>2, <2>3, <2>5
  <2>7. ASSUME NEW y \in Int, y >= cut
        PROVE  Cardinality(After(f[m + 1], y)) = Cardinality(Pre(m + 1, y))
    <3>1. /\ Cardinality(After(f[m], y)) = Cardinality(Pre(m, y))
          /\ Cardinality(After(f[m], y)) \in Nat
      BY <2>1, <2>5, <2>7, AfterFacts
    <3>2. CASE e > cut
      BY <2>2, <2>3, <2>4, <2>5, <3>1, <3>2, AppendAfter
    <3>3. CASE ~(e > cut)
      <4>1. ~(e > y)
        BY <2>2, <2>7, <3>3
      <4> QED BY <2>3, <2>4, <3>1, <3>3, <4>1
    <3> QED BY <3>2, <3>3
  <2> QED BY <2>6, <2>7
<1> HIDE DEF S, Good
<1>4. Nat \subseteq S
  BY <1>2, <1>3, NatInd
<1>5. Good(Len(log))
  BY <1>0, <1>4 DEF S
<1>6. \A y \in Int : Pre(Len(log), y) = After(log, y)
  BY DEF After
<1> HIDE DEF Pre
<1> QED BY <1>0, <1>1, <1>5, <1>6 DEF Good

Bound == IF usedPeer THEN PEER_LIMIT ELSE ANON_LIMIT

LogType ==
    /\ request_log \in Seq(1..MaxTime) /\ Len(request_log) <= PEER_LIMIT
    /\ granted \in Seq(1..MaxTime)
    /\ \A i \in 1..Len(granted) : granted[i] <= clock

\* A request in progress is at most MaxSkew late, and goes by a limit the
\* address has used.
InTime ==
    \A r \in Req :
        /\ req[r].pc # "idle" => clock - req[r].now <= MaxSkew
        /\ req[r].pc = "decide" => req[r].limit <= Bound

\* The row accounts for the grants that still matter.
Covers ==
    \A x \in Int : x >= clock - (WINDOW - MaxSkew) =>
        Cardinality(After(granted, x)) <= Cardinality(After(request_log, x - MaxSkew))

Windows == \A t \in 1..clock : GrantedUpTo(t) <= Bound

WInv == LInv /\ LogType /\ InTime /\ Covers /\ Windows

LEMMA LogFacts ==
    ASSUME LInv, LogType
    PROVE  /\ request_log \in Seq(Int) /\ granted \in Seq(Int)
           /\ clock \in 1..MaxTime /\ Len(granted) \in Nat
<1>1. 1..MaxTime \subseteq Int
  OBVIOUS
<1> QED BY <1>1, SeqWiden DEF LogType, LInv, RowType

LEMMA InitWInv == Init => WInv
<1> SUFFICES ASSUME Init PROVE WInv
  OBVIOUS
<1>1. LInv
  BY InitLInv
<1>2. LogType
  BY DEF Init, LogType
<1>3. InTime
  BY DEF Init, InTime, NoReq
<1>4. granted = <<>> /\ request_log = <<>>
  BY DEF Init
<1>5. Covers
  <2>1. After(<<>>, 0) = {} /\ \A y \in Int : After(<<>>, y) = {}
    BY DEF After
  <2>2. Cardinality({}) = 0
    BY FS_EmptySet
  <2> SUFFICES ASSUME NEW x \in Int
               PROVE  Cardinality(After(granted, x))
                        <= Cardinality(After(request_log, x - MaxSkew))
    BY DEF Covers
  <2>3. x - MaxSkew \in Int
    OBVIOUS
  <2>4. After(granted, x) = {} /\ After(request_log, x - MaxSkew) = {}
    BY <1>4, <2>1, <2>3
  <2>5. Cardinality(After(granted, x)) = 0 /\ Cardinality(After(request_log, x - MaxSkew)) = 0
    BY <2>2, <2>4, Zenon
  <2> QED BY <2>5
<1>6. Windows
  <2>1. ASSUME NEW t \in 1..clock PROVE GrantedUpTo(t) = 0
    <3>1. {i \in DOMAIN granted :
             granted[i] > t - (WINDOW - MaxSkew) /\ granted[i] <= t} = {}
      BY <1>4
    <3> QED BY <3>1, FS_EmptySet DEF GrantedUpTo
  <2> QED BY <2>1 DEF Windows, Bound
<1> QED BY <1>1, <1>2, <1>3, <1>5, <1>6 DEF WInv

\* A late decision prunes no more than MaxSkew seconds of the log a timely one
\* would keep, so what the row accounts for stays accounted for.
LEMMA PrunedFacts ==
    ASSUME LInv, LogType, Covers, NEW now \in 1..MaxTime, now <= clock
    PROVE  /\ Pruned(now) \in Seq(1..MaxTime) /\ Len(Pruned(now)) \in Nat
           /\ Len(Pruned(now)) <= Len(request_log)
           /\ \A x \in Int : x >= clock - (WINDOW - MaxSkew) =>
                Cardinality(After(granted, x)) <= Cardinality(After(Pruned(now), x - MaxSkew))
<1> DEFINE T == 1..MaxTime
           cut == now - WINDOW
<1>0. clock \in 1..MaxTime /\ request_log \in Seq(T)
  BY DEF LInv, RowType, LogType
<1>1. T \in SUBSET Nat /\ cut \in Int
  OBVIOUS
<1>2. Pruned(now) = Retain(request_log, cut)
  BY DEF Pruned
<1> HIDE DEF T, cut
<1>3. /\ Pruned(now) \in Seq(T)
      /\ Len(Pruned(now)) <= Len(request_log)
      /\ \A y \in Int : y >= cut =>
           Cardinality(After(Pruned(now), y)) = Cardinality(After(request_log, y))
  BY <1>0, <1>1, <1>2, RetainFacts
<1>4. ASSUME NEW x \in Int, x >= clock - (WINDOW - MaxSkew)
      PROVE  Cardinality(After(granted, x)) <= Cardinality(After(Pruned(now), x - MaxSkew))
  <2>1. x - MaxSkew \in Int /\ x - MaxSkew >= cut
    BY <1>0, <1>4 DEF cut
  <2>2. Cardinality(After(granted, x)) <= Cardinality(After(request_log, x - MaxSkew))
    BY <1>4 DEF Covers
  <2> QED BY <1>3, <2>1, <2>2
<1>5. Len(Pruned(now)) \in Nat
  BY <1>3
<1> QED BY <1>3, <1>4, <1>5 DEF T

\* The grants of a window are finitely many, and all after its start.
LEMMA WindowCount ==
    ASSUME NEW g \in Seq(Int), NEW t \in Int
    PROVE  LET G == {i \in DOMAIN g : g[i] > t - (WINDOW - MaxSkew) /\ g[i] <= t}
           IN  /\ Cardinality(G) \in Nat
               /\ Cardinality(G) <= Cardinality(After(g, t - (WINDOW - MaxSkew)))
<1> DEFINE x == t - (WINDOW - MaxSkew)
           G == {i \in DOMAIN g : g[i] > t - (WINDOW - MaxSkew) /\ g[i] <= t}
<1>1. x \in Int
  OBVIOUS
<1>2. G \subseteq After(g, x)
  BY DEF After
<1> HIDE DEF x, G
<1>3. IsFiniteSet(After(g, x))
  BY <1>1, AfterFacts
<1>4. IsFiniteSet(G) /\ Cardinality(G) <= Cardinality(After(g, x))
  BY <1>2, <1>3, FS_Subset
<1>5. Cardinality(G) \in Nat
  BY <1>4, FS_CardinalityType
<1> QED BY <1>4, <1>5 DEF x, G

\* A step that leaves the clock, the grants and the log alone, and drops no
\* bucket from the history, keeps the rest.
LEMMA FrameWInv ==
    ASSUME WInv, LInv', UNCHANGED <<clock, granted, request_log>>, Bound <= Bound'
    PROVE  LogType' /\ Covers' /\ Windows'
<1>1. LogType' /\ Covers'
  BY DEF WInv, LogType, Covers, After
<1>2. ASSUME NEW t \in 1..clock PROVE GrantedUpTo(t)' <= Bound'
  <2>1. PICK b, c : b = Bound /\ c = Bound' /\ b \in Nat /\ c \in Nat
    BY DEF Bound
  <2>2. GrantedUpTo(t) <= b
    BY <2>1 DEF WInv, Windows
  <2>3. GrantedUpTo(t)' = GrantedUpTo(t)
    BY DEF GrantedUpTo
  <2>4. GrantedUpTo(t) \in Nat
    <3>1. granted \in Seq(Int) /\ t \in Int
      BY LogFacts DEF WInv
    <3> QED BY <3>1, WindowCount DEF GrantedUpTo
  <2> QED BY <2>1, <2>2, <2>3, <2>4
<1>3. Windows'
  BY <1>2 DEF Windows
<1> QED BY <1>1, <1>3

LEMMA BoundType == Bound \in Nat /\ Bound <= PEER_LIMIT
BY DEF Bound

\* Letting a request through: the log it is checked against holds every grant of
\* the window that ends now, and is shorter than the limit.
LEMMA AllowWInv ==
    ASSUME WInv, NEW r \in Req, Allow(r), LInv'
    PROVE  LogType' /\ Covers' /\ Windows'
<1> DEFINE now == req[r].now
           log == Pruned(now)
<1>1. /\ now \in 1..MaxTime /\ now <= clock /\ clock - now <= MaxSkew
      /\ req[r].limit \in Nat /\ req[r].limit <= Bound
  <2>1. Deciding(r) /\ clock' = clock /\ req[r].pc = "decide"
    BY DEF Allow, Deciding
  <2>2. now \in 1..MaxTime /\ now <= clock
    BY <2>1, DecidingReq DEF WInv
  <2>3. req[r].limit \in Nat
    BY DEF WInv, LInv, ReqType
  <2> QED BY <2>1, <2>2, <2>3 DEF WInv, InTime
<1>2. /\ log \in Seq(1..MaxTime) /\ Len(log) \in Nat
      /\ \A x \in Int : x >= clock - (WINDOW - MaxSkew) =>
           Cardinality(After(granted, x)) <= Cardinality(After(log, x - MaxSkew))
  BY <1>1, PrunedFacts DEF WInv
<1>3. /\ clock' = clock /\ usedPeer' = usedPeer
      /\ granted' = Append(granted, clock)
      /\ Len(log) < req[r].limit
      /\ request_log' = Capped(Append(log, now), 2 * req[r].limit)
  BY DEF Allow, histVars
<1>4. /\ clock \in 1..MaxTime /\ granted \in Seq(Int) /\ Len(granted) \in Nat
      /\ Bound' = Bound
  BY <1>3, LogFacts DEF WInv, Bound
<1> HIDE DEF now, log
<1>5. request_log' = Append(log, now) /\ Len(Append(log, now)) = Len(log) + 1
  BY <1>1, <1>2, <1>3 DEF Capped
<1>6. LogType'
  <2>1. request_log' \in Seq(1..MaxTime) /\ granted' \in Seq(1..MaxTime)
    <3>1. granted \in Seq(1..MaxTime)
      BY DEF WInv, LogType
    <3>2. Append(log, now) \in Seq(1..MaxTime) /\ Append(granted, clock) \in Seq(1..MaxTime)
      BY <1>1, <1>2, <1>4, <3>1
    <3> QED BY <1>3, <1>5, <3>2
  <2>2. Len(request_log') <= PEER_LIMIT
    <3>1. Len(log) + 1 <= PEER_LIMIT
      BY <1>1, <1>2, <1>3, BoundType
    <3> QED BY <1>5, <3>1
  <2>3. \A i \in 1..Len(granted') : granted'[i] <= clock'
    BY <1>3, <1>4 DEF WInv, LogType
  <2> QED BY <2>1, <2>2, <2>3 DEF LogType
<1>7. log \in Seq(Int)
  <2>1. 1..MaxTime \subseteq Int
    OBVIOUS
  <2> QED BY <1>2, <2>1, SeqWiden
<1>8. Covers'
  <2> SUFFICES ASSUME NEW x \in Int, x >= clock - (WINDOW - MaxSkew)
               PROVE  Cardinality(After(Append(granted, clock), x))
                        <= Cardinality(After(Append(log, now), x - MaxSkew))
    BY <1>3, <1>5 DEF Covers
  <2>1. x - MaxSkew \in Int /\ clock \in Int /\ now \in Int
    BY <1>1, <1>4
  <2>2. /\ Cardinality(After(Append(granted, clock), x))
             = Cardinality(After(granted, x)) + (IF clock > x THEN 1 ELSE 0)
        /\ Cardinality(After(granted, x)) \in Nat
    BY <1>4, <2>1, AppendAfter, AfterFacts
  <2>3. /\ Cardinality(After(Append(log, now), x - MaxSkew))
             = Cardinality(After(log, x - MaxSkew))
                 + (IF now > x - MaxSkew THEN 1 ELSE 0)
        /\ Cardinality(After(log, x - MaxSkew)) \in Nat
    BY <1>7, <2>1, AppendAfter, AfterFacts
  <2>4. clock > x => now > x - MaxSkew
    BY <1>1, <1>4
  <2>5. Cardinality(After(granted, x)) <= Cardinality(After(log, x - MaxSkew))
    BY <1>2
  <2> QED BY <2>2, <2>3, <2>4, <2>5
<1>9. ASSUME NEW t \in 1..clock PROVE GrantedUpTo(t)' <= Bound
  <2>1. CASE t = clock
    <3> DEFINE x == clock - (WINDOW - MaxSkew)
    <3>1. x \in Int /\ x - MaxSkew \in Int /\ clock \in Int
      BY <1>4
    <3>2. Cardinality(After(granted, x)) <= Cardinality(After(log, x - MaxSkew))
      BY <1>2, <3>1
    <3>3. /\ GrantedUpTo(t)' <= Cardinality(After(Append(granted, clock), x))
          /\ GrantedUpTo(t)' \in Nat
      <4>1. Append(granted, clock) \in Seq(Int) /\ t \in Int
        BY <1>4, <2>1
      <4> QED BY <1>3, <2>1, <4>1, WindowCount DEF GrantedUpTo
    <3> HIDE DEF x
    <3>4. Cardinality(After(log, x - MaxSkew)) <= Len(log)
          /\ Cardinality(After(log, x - MaxSkew)) \in Nat
      BY <1>7, <3>1, AfterFacts
    <3>5. /\ Cardinality(After(Append(granted, clock), x))
               = Cardinality(After(granted, x)) + (IF clock > x THEN 1 ELSE 0)
          /\ Cardinality(After(granted, x)) \in Nat
      BY <1>4, <3>1, AppendAfter, AfterFacts
    <3>6. /\ Cardinality(After(Append(granted, clock), x)) \in Nat
          /\ Cardinality(After(Append(granted, clock), x)) <= Len(log) + 1
      BY <1>2, <3>2, <3>4, <3>5
    <3>7. Len(log) + 1 <= Bound
      BY <1>1, <1>2, <1>3, BoundType
    <3> QED BY <1>2, <3>3, <3>6, <3>7, BoundType
  <2>2. CASE t < clock
    <3>1. GrantedUpTo(t)' = GrantedUpTo(t)
      <4>1. {i \in DOMAIN Append(granted, clock) :
               Append(granted, clock)[i] > t - (WINDOW - MaxSkew)
               /\ Append(granted, clock)[i] <= t}
            = {i \in DOMAIN granted :
                 granted[i] > t - (WINDOW - MaxSkew) /\ granted[i] <= t}
        BY <1>4, <2>2
      <4> QED BY <1>3, <4>1 DEF GrantedUpTo
    <3> QED BY <3>1 DEF WInv, Windows
  <2> QED BY <1>4, <2>1, <2>2
<1>10. Windows'
  BY <1>3, <1>4, <1>9 DEF Windows
<1> QED BY <1>6, <1>8, <1>10

LEMMA OutcomeWInv ==
    ASSUME WInv, NEW r \in Req,
           RejectCooling(r) \/ Violate(r) \/ Allow(r) \/ StorageFails(r)
    PROVE  WInv'
<1>1. LInv'
  BY OutcomeLInv DEF WInv
<1>2. Deciding(r) /\ clock' = clock /\ usedPeer' = usedPeer
  BY DEF RejectCooling, Violate, Allow, StorageFails, histVars
<1>3. Bound' = Bound /\ Bound \in Nat
  BY <1>2, BoundType DEF Bound
<1>4. InTime'
  <2> SUFFICES ASSUME NEW q \in Req
               PROVE  /\ req'[q].pc # "idle" => clock - req'[q].now <= MaxSkew
                      /\ req'[q].pc = "decide" => req'[q].limit <= Bound
    BY <1>2, <1>3 DEF InTime
  <2>1. req'[q] = NoReq \/ req'[q] = req[q]
    BY <1>2 DEF Deciding, WInv, LInv, ReqType
  <2> QED BY <2>1 DEF WInv, InTime, NoReq
<1>5. CASE RejectCooling(r) \/ StorageFails(r)
  <2>1. UNCHANGED <<clock, granted, request_log>>
    BY <1>5 DEF RejectCooling, StorageFails, histVars, rowVars
  <2> QED BY <1>1, <1>3, <1>4, <2>1, FrameWInv DEF WInv
<1>6. CASE Violate(r)
  <2> DEFINE now == req[r].now
  <2>1. /\ request_log' = Pruned(now) /\ granted' = granted
    BY <1>6 DEF Violate, RejectedLog, histVars
  <2>2. now \in 1..MaxTime /\ now <= clock
    BY <1>2, DecidingReq DEF WInv
  <2>3. /\ Pruned(now) \in Seq(1..MaxTime) /\ Len(Pruned(now)) \in Nat
        /\ Len(Pruned(now)) <= Len(request_log)
        /\ \A x \in Int : x >= clock - (WINDOW - MaxSkew) =>
             Cardinality(After(granted, x)) <= Cardinality(After(Pruned(now), x - MaxSkew))
    BY <2>2, PrunedFacts DEF WInv
  <2> HIDE DEF now
  <2>4. LogType'
    <3>1. Len(request_log) \in Nat /\ Len(request_log) <= PEER_LIMIT
      BY DEF WInv, LogType
    <3>2. Len(Pruned(now)) <= PEER_LIMIT
      BY <2>3, <3>1
    <3> QED BY <1>2, <2>1, <2>3, <3>2 DEF WInv, LogType
  <2>5. Covers'
    BY <1>2, <2>1, <2>3 DEF Covers
  <2>6. ASSUME NEW t \in 1..clock PROVE GrantedUpTo(t)' = GrantedUpTo(t)
    BY <2>1 DEF GrantedUpTo
  <2>7. Windows'
    BY <1>2, <1>3, <2>6 DEF WInv, Windows
  <2> QED BY <1>1, <1>4, <2>4, <2>5, <2>7 DEF WInv
<1>7. CASE Allow(r)
  BY <1>1, <1>4, <1>7, AllowWInv DEF WInv
<1> QED BY <1>5, <1>6, <1>7

LEMMA BucketWInv ==
    ASSUME WInv, NEW r \in Req, Bucket(r), LInv'
    PROVE  WInv'
<1> DEFINE p == IF NeedsRefresh THEN refresh ELSE cached
<1>1. /\ UNCHANGED <<clock, granted, request_log>>
      /\ usedPeer' = (usedPeer \/ p)
      /\ req[r].pc = "arrived"
      /\ req' = [req EXCEPT ![r] = [pc |-> "decide", now |-> req[r].now,
                                    limit |-> IF p THEN PEER_LIMIT ELSE ANON_LIMIT]]
  BY DEF Bucket, rowVars, WInv, LInv, ReqType
<1> HIDE DEF p
<1>2. Bound <= Bound' /\ (IF p THEN PEER_LIMIT ELSE ANON_LIMIT) <= Bound'
  <2>1. (usedPeer => usedPeer') /\ (p => usedPeer')
    BY <1>1, Zenon
  <2>2. CASE usedPeer'
    <3>1. Bound' = PEER_LIMIT
      BY <2>2 DEF Bound
    <3> QED BY <3>1, BoundType
  <2>3. CASE ~usedPeer'
    <3>1. Bound' = ANON_LIMIT /\ Bound = ANON_LIMIT /\ ~p
      BY <2>1, <2>3 DEF Bound
    <3> QED BY <3>1
  <2> QED BY <2>2, <2>3
<1>3. Bound \in Nat /\ Bound' \in Nat
  BY DEF Bound
<1>4. InTime'
  <2> SUFFICES ASSUME NEW q \in Req
               PROVE  /\ req'[q].pc # "idle" => clock - req'[q].now <= MaxSkew
                      /\ req'[q].pc = "decide" => req'[q].limit <= Bound'
    BY <1>1 DEF InTime
  <2>1. CASE q = r
    BY <1>1, <1>2, <2>1 DEF WInv, InTime, LInv, ReqType
  <2>2. CASE q # r
    <3>1. req'[q] = req[q] /\ req[q].limit \in Nat
      BY <1>1, <2>2 DEF WInv, LInv, ReqType
    <3>2. /\ req[q].pc # "idle" => clock - req[q].now <= MaxSkew
          /\ req[q].pc = "decide" => req[q].limit <= Bound
      BY DEF WInv, InTime
    <3> QED BY <1>2, <1>3, <3>1, <3>2
  <2> QED BY <2>1, <2>2
<1> QED BY <1>1, <1>2, <1>4, FrameWInv DEF WInv

LEMMA TimeWInv ==
    ASSUME WInv, Time, LInv'
    PROVE  WInv'
<1>1. /\ UNCHANGED <<granted, request_log, req, usedPeer>>
      /\ clock' = clock + 1
      /\ \A r \in Req : req[r].pc # "idle" => clock - req[r].now < MaxSkew
  BY DEF Time, rowVars, histVars
<1>2. clock \in 1..MaxTime /\ granted \in Seq(Int) /\ Bound' = Bound /\ Bound \in Nat
  BY <1>1, LogFacts, BoundType DEF WInv, Bound
<1>3. LogType'
  BY <1>1, <1>2 DEF WInv, LogType
<1>4. InTime'
  <2> SUFFICES ASSUME NEW q \in Req
               PROVE  /\ req'[q].pc # "idle" => clock' - req'[q].now <= MaxSkew
                      /\ req'[q].pc = "decide" => req'[q].limit <= Bound'
    BY DEF InTime
  <2>1. req[q].now \in 0..MaxTime
    BY DEF WInv, LInv, ReqType
  <2>2. req[q].pc # "idle" => clock - req[q].now < MaxSkew
    BY <1>1
  <2>3. req[q].pc # "idle" => (clock + 1) - req[q].now <= MaxSkew
    BY <1>2, <2>1, <2>2
  <2>4. req[q].pc = "decide" => req[q].limit <= Bound
    BY DEF WInv, InTime
  <2> QED BY <1>1, <1>2, <2>3, <2>4
<1>5. Covers'
  <2> SUFFICES ASSUME NEW x \in Int, x >= clock' - (WINDOW - MaxSkew)
               PROVE  Cardinality(After(granted', x))
                        <= Cardinality(After(request_log', x - MaxSkew))
    BY DEF Covers
  <2>1. x >= clock - (WINDOW - MaxSkew)
    BY <1>1, <1>2
  <2>2. Cardinality(After(granted, x)) <= Cardinality(After(request_log, x - MaxSkew))
    BY <2>1 DEF WInv, Covers
  <2> QED BY <1>1, <2>2
<1>6. ASSUME NEW t \in 1..(clock + 1) PROVE GrantedUpTo(t) <= Bound
  <2>1. CASE t <= clock
    BY <1>2, <2>1 DEF WInv, Windows
  <2>2. CASE t = clock + 1
    <3> DEFINE G(u) == {i \in DOMAIN granted :
                          granted[i] > u - (WINDOW - MaxSkew) /\ granted[i] <= u}
    <3>1. G(t) \subseteq G(clock)
      BY <1>2, <2>2 DEF WInv, LogType
    <3>2. G(clock) \subseteq 1..Len(granted) /\ Len(granted) \in Nat
      BY <1>2
    <3>3. GrantedUpTo(t) = Cardinality(G(t)) /\ GrantedUpTo(clock) = Cardinality(G(clock))
      BY DEF GrantedUpTo
    <3> HIDE DEF G
    <3>4. IsFiniteSet(1..Len(granted))
      BY <3>2, FS_Interval
    <3>5. IsFiniteSet(G(clock))
      BY <3>2, <3>4, FS_Subset
    <3>6. IsFiniteSet(G(t)) /\ Cardinality(G(t)) <= Cardinality(G(clock))
      BY <3>1, <3>5, FS_Subset
    <3>7. Cardinality(G(t)) \in Nat /\ Cardinality(G(clock)) \in Nat
      BY <3>5, <3>6, FS_CardinalityType
    <3>8. GrantedUpTo(clock) <= Bound
      BY <1>2 DEF WInv, Windows
    <3> QED BY <1>2, <3>3, <3>6, <3>7, <3>8
  <2> QED BY <1>2, <2>1, <2>2
<1>7. Windows'
  <2>1. ASSUME NEW t \in 1..(clock + 1) PROVE GrantedUpTo(t)' = GrantedUpTo(t)
    BY <1>1 DEF GrantedUpTo
  <2> QED BY <1>1, <1>2, <1>6, <2>1 DEF Windows
<1> QED BY <1>3, <1>4, <1>5, <1>7 DEF WInv

LEMMA NextWInv == WInv /\ [Next]_vars => WInv'
<1> SUFFICES ASSUME WInv, [Next]_vars PROVE WInv'
  OBVIOUS
<1>1. LInv'
  BY NextLInv DEF WInv
<1>2. ASSUME NEW r \in Req, Arrive(r) PROVE WInv'
  <2>1. UNCHANGED <<clock, granted, request_log, usedPeer>>
    BY <1>2 DEF Arrive, rowVars, histVars
  <2>2. Bound' = Bound /\ Bound \in Nat
    BY <2>1, BoundType DEF Bound
  <2>3. InTime'
    BY <1>2, <2>1, <2>2 DEF Arrive, WInv, InTime, LInv, RowType, ReqType
  <2> QED BY <1>1, <2>1, <2>2, <2>3, FrameWInv DEF WInv
<1>3. CASE MovePeer \/ UNCHANGED vars
  <2>1. UNCHANGED <<clock, granted, request_log, usedPeer, req>>
    BY <1>3 DEF MovePeer, vars, rowVars, histVars
  <2>2. Bound' = Bound /\ Bound \in Nat
    BY <2>1, BoundType DEF Bound
  <2>3. InTime'
    BY <2>1, <2>2 DEF WInv, InTime
  <2> QED BY <1>1, <2>1, <2>2, <2>3, FrameWInv DEF WInv
<1> QED BY <1>1, <1>2, <1>3, OutcomeWInv, BucketWInv, TimeWInv DEF Next

\* The conjuncts of the type invariant that LInv and LogType leave out.
Flags == peer \in BOOLEAN /\ cached \in BOOLEAN /\ usedPeer \in BOOLEAN /\ moves \in 0..MaxMoves

LEMMA FlagsInvariance == Spec => []Flags
<1>1. Init => Flags
  <2>1. Init => moves \in 0..MaxMoves
    BY DEF Init
  <2> QED BY <2>1, Zenon DEF Init, Flags
<1>2. Flags /\ [Next]_vars => Flags'
  <2> SUFFICES ASSUME Flags, [Next]_vars PROVE Flags'
    OBVIOUS
  <2>1. ASSUME NEW r \in Req, Bucket(r) PROVE Flags'
    <3>1. (IF NeedsRefresh THEN refresh ELSE cached) \in BOOLEAN
      BY DEF Flags, refresh
    <3> QED BY <2>1, <3>1, Zenon DEF Bucket, Flags
  <2>2. CASE MovePeer
    <3>1. moves' \in 0..MaxMoves
      BY <2>2 DEF MovePeer, Flags
    <3> QED BY <2>2, <3>1, Zenon DEF MovePeer, Flags, cacheVars, histVars
  <2>3. ASSUME NEW r \in Req, \/ Arrive(r) \/ RejectCooling(r) \/ Violate(r)
                              \/ Allow(r) \/ StorageFails(r)
        PROVE  UNCHANGED <<peer, cached, usedPeer, moves>>
    BY <2>3 DEF Arrive, RejectCooling, Violate, Allow, StorageFails, cacheVars, histVars
  <2>4. CASE Time \/ UNCHANGED vars
    BY <2>4 DEF Time, vars, cacheVars, histVars, Flags
  <2> QED BY <2>1, <2>2, <2>3, <2>4, Zenon DEF Next, Flags
<1> QED BY <1>1, <1>2, PTL DEF Spec

\* No address is ever let through more often, in any WINDOW - MaxSkew consecutive
\* seconds, than the largest bucket it has used allows: for any number of
\* concurrent requests, each decided up to MaxSkew seconds after the time it goes
\* by, through cooloffs, resets and moves between the buckets
\* (check_and_record_key, RateLimitConfig::limit).
THEOREM WindowsAreLimited == Spec => []WindowLimit
<1>1. Spec => []WInv
  BY InitWInv, NextWInv, PTL DEF Spec
<1>2. WInv /\ Flags => WindowLimit
  <2> SUFFICES ASSUME WInv, Flags PROVE WindowLimit
    OBVIOUS
  <2>1. TypeOK
    BY DEF WInv, LInv, RowType, ReqType, CacheType, LogType, Flags, TypeOK
  <2>2. \A t \in 1..clock : GrantedUpTo(t) <= IF usedPeer THEN PEER_LIMIT ELSE ANON_LIMIT
    BY DEF WInv, Windows, Bound
  <2> QED BY <2>1, <2>2 DEF WindowLimit
<1> QED BY <1>1, <1>2, FlagsInvariance, PTL

=============================================================================
