-------------------------- MODULE FederationProofs --------------------------
(***************************************************************************)
(* Peers, their health and the fan-out, for any number of peers, searches, *)
(* collections and answers.  The sweep appears here only through the rows  *)
(* it enables: it may hold any entries, stale ones included.  Then the     *)
(* order of answers, for any index, scores and weights.                    *)
(***************************************************************************)
EXTENDS Federation, FiniteSetTheorems, WellFoundedInduction, TLAPS

-----------------------------------------------------------------------------
(* One search *)

\* A search has all its fields, its open and its failed calls are among those it
\* listed, and a call is told by its row and collection as well as by its source.
Fields(x) ==
    x = [busy |-> x.busy, json |-> x.json, calls |-> x.calls, out |-> x.out,
         listed |-> x.listed, failed |-> x.failed, late |-> x.late]
WellFormed(x) ==
    /\ Fields(x)
    /\ x.busy \in BOOLEAN /\ x.json \in BOOLEAN /\ x.late \in BOOLEAN
    /\ x.calls \subseteq x.listed /\ x.failed \subseteq x.listed /\ x.calls \cap x.failed = {}
    /\ x.listed \subseteq Call /\ IsFiniteSet(x.listed)
    /\ \A c, d \in x.listed : c.id = d.id /\ c.remote = d.remote => c = d
    /\ \A c, d \in x.listed : Source(c) = Source(d) => c = d
    /\ ~x.busy => x.calls = {}

Answered(x) == {c \in x.listed : \E k \in DOMAIN x.out : x.out[k].source = Source(c)}

\* What has been gathered: the local batch first, then one batch for each call
\* that is neither open nor failed, unless the deadline dropped it.
Gathered(x) ==
    /\ \E S : x.out \in Seq(S)
    /\ Len(x.out) >= 1 /\ x.out[1].source = LocalSource
    /\ \A j, k \in DOMAIN x.out : x.out[j].source = x.out[k].source => j = k
    /\ \A k \in DOMAIN x.out : k # 1 =>
         \E c \in x.listed \ (x.calls \cup x.failed) : x.out[k].source = Source(c)
    /\ ~x.late => x.listed \ (x.calls \cup x.failed) \subseteq Answered(x)
    /\ x.late => x.json /\ x.calls = {}
    /\ Len(x.out) = 1 + Cardinality(Answered(x))

\* A search with two of its fields replaced.
LEMMA DeadlineFields ==
    ASSUME NEW x, Fields(x), NEW k, NEW y, y = [x EXCEPT !.calls = k, !.late = TRUE]
    PROVE  y = [busy |-> x.busy, json |-> x.json, calls |-> k, out |-> x.out,
                listed |-> x.listed, failed |-> x.failed, late |-> TRUE]
BY DEF Fields

LEMMA SourceIsRemote ==
    ASSUME NEW c \in Call
    PROVE  Source(c) # LocalSource
BY FederationAssumption DEF Call, Source, LocalSource

\* A call that is open or failed is not in the output.
LEMMA OpenNotAnswered ==
    ASSUME NEW x, WellFormed(x), Gathered(x), NEW c \in x.calls \cup x.failed
    PROVE  c \notin Answered(x)
<1> SUFFICES ASSUME NEW k \in DOMAIN x.out, x.out[k].source = Source(c) PROVE FALSE
  BY DEF Answered
<1>1. c \in x.listed /\ c \in Call
  BY DEF WellFormed
<1>2. k # 1
  BY <1>1, SourceIsRemote DEF Gathered
<1>3. PICK d \in x.listed \ (x.calls \cup x.failed) : x.out[k].source = Source(d)
  BY <1>2 DEF Gathered
<1>4. d = c
  BY <1>1, <1>3 DEF WellFormed
<1> QED BY <1>3, <1>4

LEMMA CallFails ==
    ASSUME NEW x, WellFormed(x), Gathered(x), x.busy, NEW c \in x.calls,
           NEW y, Fields(y), y.busy = x.busy, y.json = x.json, y.late = x.late, y.out = x.out,
           y.listed = x.listed, y.calls = x.calls \ {c}, y.failed = x.failed \cup {c}
    PROVE  WellFormed(y) /\ Gathered(y)
<1>1. /\ y.listed = x.listed /\ y.calls = x.calls \ {c} /\ y.failed = x.failed \cup {c}
      /\ y.busy = x.busy /\ y.json = x.json /\ y.late = x.late /\ y.out = x.out
  OBVIOUS
<1>2. WellFormed(y)
  <2>1. y.calls \subseteq y.listed /\ y.failed \subseteq y.listed /\ y.calls \cap y.failed = {}
    BY <1>1 DEF WellFormed
  <2>2. y.listed = x.listed /\ y.busy = x.busy /\ (~y.busy => y.calls = {})
    BY <1>1
  <2> QED BY <1>1, <2>1, <2>2 DEF WellFormed
<1>3. Answered(y) = Answered(x)
  BY <1>1 DEF Answered
<1>4. y.listed \ (y.calls \cup y.failed) = x.listed \ (x.calls \cup x.failed)
  BY <1>1
<1>5. Gathered(y)
  BY <1>1, <1>3, <1>4 DEF Gathered
<1> QED BY <1>2, <1>5

LEMMA CallAnswered ==
    ASSUME NEW x, WellFormed(x), Gathered(x), x.busy, NEW c \in x.calls, NEW rs,
           NEW y, Fields(y), y.busy = x.busy, y.json = x.json, y.late = x.late,
           y.listed = x.listed, y.calls = x.calls \ {c}, y.failed = x.failed,
           y.out = Append(x.out, Batch(Source(c), rs))
    PROVE  WellFormed(y) /\ Gathered(y)
<1> DEFINE b == Batch(Source(c), rs)
           n == Len(x.out)
<1>1. /\ y.busy = x.busy /\ y.json = x.json /\ y.late = x.late /\ y.out = Append(x.out, b)
      /\ y.listed = x.listed /\ y.calls = x.calls \ {c} /\ y.failed = x.failed
  OBVIOUS
<1>2. WellFormed(y)
  BY <1>1 DEF WellFormed
<1>c. c \in x.listed /\ c \in Call /\ c \notin x.failed
  BY DEF WellFormed
<1>b. b.source = Source(c)
  BY DEF Batch
<1>3. PICK S : x.out \in Seq(S)
  BY DEF Gathered
<1>4. /\ n \in Nat /\ DOMAIN x.out = 1..n /\ n >= 1
      /\ y.out \in Seq(S \cup {b}) /\ Len(y.out) = n + 1 /\ DOMAIN y.out = 1..(n + 1)
      /\ y.out[n + 1] = b /\ \A k \in 1..n : y.out[k] = x.out[k]
  <2>1. x.out \in Seq(S \cup {b}) /\ b \in S \cup {b}
    BY <1>3
  <2> HIDE DEF b
  <2> QED BY <1>1, <1>3, <2>1 DEF Gathered
<1> HIDE DEF b, n
<1>5. c \notin Answered(x)
  BY OpenNotAnswered
<1>6. Answered(y) = Answered(x) \cup {c}
  <2>1. ASSUME NEW d \in Answered(y) PROVE d \in Answered(x) \cup {c}
    <3>1. d \in x.listed
      BY <1>1 DEF Answered
    <3>2. PICK k \in 1..(n + 1) : y.out[k].source = Source(d)
      BY <1>4 DEF Answered
    <3>3. CASE k = n + 1
      BY <3>1, <3>2, <3>3, <1>4, <1>b, <1>c DEF WellFormed
    <3>4. CASE k # n + 1
      <4>1. k \in DOMAIN x.out /\ x.out[k].source = Source(d)
        BY <3>2, <3>4, <1>4
      <4> QED BY <3>1, <4>1 DEF Answered
    <3> QED BY <3>3, <3>4
  <2>2. ASSUME NEW d \in Answered(x) PROVE d \in Answered(y)
    <3>1. PICK k \in DOMAIN x.out : x.out[k].source = Source(d)
      BY DEF Answered
    <3>2. k \in DOMAIN y.out /\ y.out[k].source = Source(d)
      BY <3>1, <1>4
    <3> QED BY <3>2, <1>1 DEF Answered
  <2>3. c \in Answered(y)
    <3>1. n + 1 \in DOMAIN y.out /\ y.out[n + 1].source = Source(c)
      BY <1>4, <1>b
    <3>2. c \in y.listed
      BY <1>c
    <3> QED BY <3>1, <3>2 DEF Answered
  <2> QED BY <2>1, <2>2, <2>3
<1>7. Cardinality(Answered(y)) = Cardinality(Answered(x)) + 1
  <2>1. IsFiniteSet(Answered(x))
    BY FS_Subset DEF Answered, WellFormed
  <2>2. Cardinality(Answered(x) \cup {c}) = Cardinality(Answered(x)) + 1
    <3> HIDE DEF Answered
    <3> QED BY <2>1, <1>5, FS_AddElement
  <2> QED BY <2>2, <1>6
<1>8. y.listed \ (y.calls \cup y.failed) = (x.listed \ (x.calls \cup x.failed)) \cup {c}
  BY <1>1, <1>c
<1>9. \A k \in 1..n : x.out[k].source # Source(c)
  BY <1>4, <1>5, <1>c DEF Answered
<1>10. \A j, k \in DOMAIN y.out : y.out[j].source = y.out[k].source => j = k
  <2> SUFFICES ASSUME NEW j \in 1..(n + 1), NEW k \in 1..(n + 1), j # k,
                      y.out[j].source = y.out[k].source
               PROVE  FALSE
    BY <1>4
  <2>1. CASE j \in 1..n /\ k \in 1..n
    BY <2>1, <1>4 DEF Gathered
  <2>2. CASE j = n + 1 /\ k \in 1..n
    BY <2>2, <1>4, <1>b, <1>9
  <2>3. CASE k = n + 1 /\ j \in 1..n
    BY <2>3, <1>4, <1>b, <1>9
  <2> QED BY <2>1, <2>2, <2>3, <1>4
<1>11. \A k \in DOMAIN y.out : k # 1 =>
         \E d \in y.listed \ (y.calls \cup y.failed) : y.out[k].source = Source(d)
  <2> SUFFICES ASSUME NEW k \in 1..(n + 1), k # 1
               PROVE  \E d \in y.listed \ (y.calls \cup y.failed) : y.out[k].source = Source(d)
    BY <1>4
  <2>1. CASE k = n + 1
    BY <2>1, <1>4, <1>8, <1>b
  <2>2. CASE k # n + 1
    <3>1. k \in DOMAIN x.out /\ y.out[k] = x.out[k]
      BY <2>2, <1>4
    <3> QED BY <3>1, <1>8 DEF Gathered
  <2> QED BY <2>1, <2>2
<1>12. ~y.late /\ ~x.late
  BY <1>1 DEF Gathered
<1>13. y.listed \ (y.calls \cup y.failed) \subseteq Answered(y)
  BY <1>6, <1>8, <1>12 DEF Gathered
<1>14. Len(y.out) = 1 + Cardinality(Answered(y))
  <2>1. IsFiniteSet(Answered(x))
    BY FS_Subset DEF Answered, WellFormed
  <2>2. Cardinality(Answered(x)) \in Nat
    BY <2>1, FS_CardinalityType
  <2>3. n = 1 + Cardinality(Answered(x))
    BY DEF Gathered, n
  <2> QED BY <2>2, <2>3, <1>4, <1>7
<1>15. Len(y.out) >= 1 /\ y.out[1].source = LocalSource
  BY <1>4 DEF Gathered
<1> QED BY <1>2, <1>4, <1>10, <1>11, <1>12, <1>13, <1>14, <1>15 DEF Gathered

-----------------------------------------------------------------------------
(* Rows and the calls that may still be charged to them *)

OpenIn(f, i) ==
    {p \in Slot \X Remote : \E c \in f[p[1]].calls : c.id = i /\ c.remote = p[2]}
Quota == Cardinality(Slot) * Cardinality(Remote)

\* An enabled row is below the threshold; a disabled one has room left for the
\* calls still open on its id.
Room(row, f, i) ==
    /\ row.enabled => Below(row.failures)
    /\ ~row.enabled =>
         row.failures + Cardinality(OpenIn(f, i)) <= (FAILURE_THRESHOLD - 1) + Quota

RowsOK ==
    /\ peers \in [Id -> Peer \cup {None}]
    /\ \A i, j \in Id : Exists(i) /\ Exists(j) /\ peers[i].url = peers[j].url => i = j
    /\ subs \subseteq (Id \X Remote) /\ \A p \in subs : Exists(p[1])
SearchesOK ==
    /\ search = [s \in Slot |-> search[s]]
    /\ \A s \in Slot : WellFormed(search[s]) /\ (search[s].busy => Gathered(search[s]))
RoomLeft == \A i \in Id : Exists(i) => Room(peers[i], search, i)

FInv == RowsOK /\ SearchesOK /\ RoomLeft

LEMMA NoneIsNoPeer == None \notin Peer
BY FederationAssumption DEF Peer

LEMMA ZeroBelow == Below(0)
BY FederationAssumption DEF Below

LEMMA RowTypes ==
    ASSUME RowsOK, NEW i \in Id, Exists(i)
    PROVE  /\ peers[i] \in Peer /\ peers[i].url \in Url /\ peers[i].enabled \in BOOLEAN
           /\ peers[i].failures \in Nat
BY FederationAssumption DEF RowsOK, Exists, Peer

LEMMA OpenCounts ==
    ASSUME NEW f, NEW i
    PROVE  /\ IsFiniteSet(OpenIn(f, i)) /\ Cardinality(OpenIn(f, i)) \in Nat
           /\ Cardinality(OpenIn(f, i)) <= Quota /\ Quota \in Nat
<1> DEFINE P == Slot \X Remote
<1>1. IsFiniteSet(P) /\ Cardinality(P) = Quota
  BY FS_Product, FederationAssumption DEF Quota
<1>2. OpenIn(f, i) \subseteq P
  BY DEF OpenIn
<1> HIDE DEF P
<1>3. IsFiniteSet(OpenIn(f, i)) /\ Cardinality(OpenIn(f, i)) <= Cardinality(P)
  BY <1>1, <1>2, FS_Subset
<1> QED BY <1>1, <1>3, FS_CardinalityType

LEMMA OpenShrinks ==
    ASSUME NEW f, NEW g, NEW i, OpenIn(g, i) \subseteq OpenIn(f, i)
    PROVE  Cardinality(OpenIn(g, i)) <= Cardinality(OpenIn(f, i))
BY OpenCounts, FS_Subset

\* A row whose count is below the threshold has room whatever is open.
LEMMA BelowHasRoom ==
    ASSUME NEW row, NEW f, NEW i, row.failures \in Nat, Below(row.failures)
    PROVE  Room(row, f, i)
<1>1. row.failures <= FAILURE_THRESHOLD - 1 /\ FAILURE_THRESHOLD \in Nat
  BY FederationAssumption DEF Below
<1>2. Cardinality(OpenIn(f, i)) \in Nat /\ Cardinality(OpenIn(f, i)) <= Quota /\ Quota \in Nat
  BY OpenCounts
<1>3. row.failures + Cardinality(OpenIn(f, i)) <= (FAILURE_THRESHOLD - 1) + Quota
  BY <1>1, <1>2
<1> QED BY <1>3 DEF Room

\* An unchanged row keeps its room when no call is opened on it.
LEMMA RoomKept ==
    ASSUME NEW row, NEW f, NEW g, NEW i, row.failures \in Nat, Room(row, f, i),
           row.enabled \/ OpenIn(g, i) \subseteq OpenIn(f, i)
    PROVE  Room(row, g, i)
<1>1. CASE row.enabled
  BY <1>1 DEF Room
<1>2. CASE ~row.enabled
  <2>1. /\ Cardinality(OpenIn(g, i)) <= Cardinality(OpenIn(f, i))
        /\ Cardinality(OpenIn(g, i)) \in Nat /\ Cardinality(OpenIn(f, i)) \in Nat /\ Quota \in Nat
    BY <1>2, OpenCounts, OpenShrinks
  <2>2. row.failures + Cardinality(OpenIn(f, i)) <= (FAILURE_THRESHOLD - 1) + Quota
    BY <1>2 DEF Room
  <2>3. row.failures + Cardinality(OpenIn(g, i)) <= (FAILURE_THRESHOLD - 1) + Quota
    BY <2>1, <2>2, FederationAssumption
  <2> QED BY <1>2, <2>3 DEF Room
<1> QED BY <1>1, <1>2

\* One failure more and one open call less.
LEMMA RoomUsed ==
    ASSUME NEW row, row.failures \in Nat, row.enabled \in BOOLEAN, NEW f, NEW g, NEW i,
           Room(row, f, i), NEW p \in OpenIn(f, i), OpenIn(g, i) \subseteq OpenIn(f, i) \ {p},
           NEW new, new.failures = row.failures + 1,
           new.enabled = (row.enabled /\ Below(new.failures))
    PROVE  Room(new, g, i)
<1> DEFINE o == Cardinality(OpenIn(f, i))
           q == Cardinality(OpenIn(g, i))
<1>1. o \in Nat /\ q \in Nat /\ o <= Quota /\ Quota \in Nat /\ FAILURE_THRESHOLD \in Nat
  BY OpenCounts, FederationAssumption
<1>2. q <= o - 1
  <2>1. IsFiniteSet(OpenIn(f, i) \ {p}) /\ Cardinality(OpenIn(f, i) \ {p}) = o - 1
    BY OpenCounts, FS_RemoveElement
  <2> QED BY <2>1, FS_Subset
<1>3. CASE row.enabled /\ Below(new.failures)
  BY <1>3 DEF Room
<1>4. CASE row.enabled /\ ~Below(new.failures)
  <2>1. row.failures <= FAILURE_THRESHOLD - 1
    BY <1>1, <1>4 DEF Room, Below
  <2> HIDE DEF o, q
  <2>2. new.failures + q <= (FAILURE_THRESHOLD - 1) + Quota
    BY <1>1, <1>2, <2>1
  <2> QED BY <1>4, <2>2 DEF Room, q
<1>5. CASE ~row.enabled
  <2>1. row.failures + o <= (FAILURE_THRESHOLD - 1) + Quota
    BY <1>5 DEF Room
  <2> HIDE DEF o, q
  <2>2. new.failures + q <= (FAILURE_THRESHOLD - 1) + Quota
    BY <1>1, <1>2, <2>1
  <2> QED BY <1>5, <2>2 DEF Room, q
<1> QED BY <1>3, <1>4, <1>5

-----------------------------------------------------------------------------
(* Every step keeps the invariant *)

LEMMA FInit == Init => FInv
<1> SUFFICES ASSUME Init PROVE FInv
  OBVIOUS
<1>1. \A i \in Id : ~Exists(i)
  BY DEF Init, Exists
<1>2. RowsOK /\ RoomLeft
  BY <1>1 DEF Init, RowsOK, RoomLeft
<1>3. SearchesOK
  <2>1. WellFormed(Idle) /\ ~Idle.busy
    BY FS_EmptySet DEF Idle, WellFormed, Fields
  <2> QED BY <2>1 DEF Init, SearchesOK
<1> QED BY <1>2, <1>3 DEF FInv

\* What the admin and the sweep do to the rows: each row is gone, as it was, or
\* below the threshold, and no URL comes twice.
LEMMA RowStep ==
    ASSUME FInv, UNCHANGED search, RowsOK',
           \A i \in Id : Exists(i)' =>
               \/ Exists(i) /\ peers'[i] = peers[i]
               \/ Below(peers'[i].failures)
               \/ Exists(i) /\ ~peers'[i].enabled /\ peers'[i].failures = peers[i].failures
    PROVE  FInv'
<1>1. SearchesOK'
  BY DEF FInv, SearchesOK
<1>2. ASSUME NEW i \in Id, Exists(i)' PROVE Room(peers'[i], search', i)
  <2>0. peers'[i].failures \in Nat /\ search' = search
    BY <1>2, FederationAssumption DEF RowsOK, Exists, Peer
  <2>1. CASE Exists(i) /\ peers'[i] = peers[i]
    BY <2>0, <2>1 DEF FInv, RoomLeft
  <2>2. CASE Below(peers'[i].failures)
    BY <2>0, <2>2, BelowHasRoom
  <2>3. CASE Exists(i) /\ ~peers'[i].enabled /\ peers'[i].failures = peers[i].failures
    <3>1. Room(peers[i], search, i) /\ peers[i].enabled \in BOOLEAN
      BY <2>3, RowTypes DEF FInv, RoomLeft
    <3>2. CASE peers[i].enabled
      BY <2>0, <2>3, <3>1, <3>2, BelowHasRoom DEF Room
    <3>3. CASE ~peers[i].enabled
      BY <2>0, <2>3, <3>1, <3>3 DEF Room
    <3> QED BY <3>1, <3>2, <3>3
  <2> QED BY <1>2, <2>1, <2>2, <2>3
<1>3. RoomLeft'
  BY <1>2 DEF RoomLeft
<1> QED BY <1>1, <1>3 DEF FInv

LEMMA InsertKeeps ==
    ASSUME FInv, NEW url \in Url, insert_node_peer(url), UNCHANGED <<subs, search>>
    PROVE  FInv'
<1>1. PICK id \in Id :
         peers' = [peers EXCEPT ![id] = [url |-> url, enabled |-> TRUE, failures |-> 0]]
  BY DEF insert_node_peer
<1>0. \A i \in Id : Exists(i) => peers[i].url # url
  BY DEF insert_node_peer
<1> DEFINE new == [url |-> url, enabled |-> TRUE, failures |-> 0]
<1>2. new \in Peer /\ new # None /\ new.url = url /\ Below(new.failures)
  <2>1. new.failures = 0 /\ new.url = url /\ new \in Peer
    BY DEF Peer
  <2> QED BY <2>1, NoneIsNoPeer, ZeroBelow
<1>3. peers' \in [Id -> Peer \cup {None}] /\ peers'[id] = new
      /\ \A i \in Id \ {id} : peers'[i] = peers[i]
  BY <1>1, <1>2 DEF FInv, RowsOK
<1> HIDE DEF new
<1>4. \A i \in Id : Exists(i)' <=> (i = id \/ Exists(i))
  BY <1>2, <1>3 DEF Exists
<1>5. \A i, j \in Id : Exists(i)' /\ Exists(j)' /\ peers'[i].url = peers'[j].url => i = j
  <2> SUFFICES ASSUME NEW i \in Id, NEW j \in Id, Exists(i)', Exists(j)',
                      peers'[i].url = peers'[j].url, i # j
               PROVE  FALSE
    OBVIOUS
  <2>1. CASE i # id /\ j # id
    BY <2>1, <1>3, <1>4 DEF FInv, RowsOK
  <2>2. CASE i = id
    BY <2>2, <1>0, <1>2, <1>3, <1>4
  <2>3. CASE j = id
    BY <2>3, <1>0, <1>2, <1>3, <1>4
  <2> QED BY <2>1, <2>2, <2>3
<1>6. RowsOK'
  BY <1>3, <1>4, <1>5 DEF FInv, RowsOK
<1>7. \A i \in Id : Exists(i)' => (Exists(i) /\ peers'[i] = peers[i]) \/ Below(peers'[i].failures)
  BY <1>2, <1>3, <1>4
<1> QED BY <1>6, <1>7, RowStep

LEMMA DeleteKeeps ==
    ASSUME FInv, NEW id \in Id, DeletePeer(id)
    PROVE  FInv'
<1>1. peers' = [peers EXCEPT ![id] = None] /\ subs' = {p \in subs : p[1] # id} /\ search' = search
  BY DEF DeletePeer, Cascade
<1>2. peers' \in [Id -> Peer \cup {None}] /\ peers'[id] = None
      /\ \A i \in Id \ {id} : peers'[i] = peers[i]
  BY <1>1 DEF FInv, RowsOK
<1>3. \A i \in Id : Exists(i)' <=> (i # id /\ Exists(i))
  BY <1>2 DEF Exists
<1>4. RowsOK'
  BY <1>1, <1>2, <1>3 DEF FInv, RowsOK
<1>5. \A i \in Id : Exists(i)' => (Exists(i) /\ peers'[i] = peers[i])
  BY <1>2, <1>3
<1> QED BY <1>1, <1>4, <1>5, RowStep

\* set_node_peer_enabled, from the handler or from the sweep.
LEMMA SetEnabledKeeps ==
    ASSUME FInv, NEW id \in Id, Exists(id), NEW b \in BOOLEAN, UNCHANGED <<subs, search>>,
           peers' = [peers EXCEPT ![id] = set_node_peer_enabled(@, b)]
    PROVE  FInv'
<1> DEFINE old == peers[id]
           new == set_node_peer_enabled(old, b)
<1>0. old \in Peer
  BY RowTypes DEF FInv
<1>1. /\ new \in Peer /\ new # None /\ new.url = old.url
      /\ Below(new.failures) \/ (~new.enabled /\ new.failures = old.failures)
  <2>1. CASE b
    <3>1. new = [old EXCEPT !.enabled = TRUE, !.failures = 0]
      BY <2>1 DEF set_node_peer_enabled, Enable
    <3>2. old = [url |-> old.url, enabled |-> old.enabled, failures |-> old.failures]
          /\ old.url \in Url
      BY <1>0 DEF Peer
    <3>3. new = [url |-> old.url, enabled |-> TRUE, failures |-> 0]
      BY <3>1, <3>2
    <3> HIDE DEF new
    <3>4. new \in Peer /\ new.url = old.url /\ new.failures = 0
      BY <3>2, <3>3 DEF Peer
    <3> QED BY <3>4, NoneIsNoPeer, ZeroBelow
  <2>2. CASE ~b
    BY <1>0, <2>2, FederationAssumption DEF set_node_peer_enabled, Peer
  <2> QED BY <2>1, <2>2
<1>2. peers' \in [Id -> Peer \cup {None}] /\ peers'[id] = new
      /\ \A i \in Id \ {id} : peers'[i] = peers[i]
  BY <1>1 DEF FInv, RowsOK
<1> HIDE DEF new
<1>3. \A i \in Id : Exists(i)' <=> Exists(i)
  BY <1>1, <1>2 DEF Exists
<1>4. RowsOK'
  BY <1>1, <1>2, <1>3 DEF FInv, RowsOK
<1>5. \A i \in Id : Exists(i)' =>
               \/ Exists(i) /\ peers'[i] = peers[i]
               \/ Below(peers'[i].failures)
               \/ Exists(i) /\ ~peers'[i].enabled /\ peers'[i].failures = peers[i].failures
  BY <1>1, <1>2, <1>3
<1> QED BY <1>4, <1>5, RowStep

\* The calls of a new search: all on enabled rows, told apart by row and
\* collection and, as URLs are unique, by source.
LEMMA ListedCalls ==
    ASSUME RowsOK, NEW L, L = ActiveCollectionPeers \/ L = {}
    PROVE  /\ L \subseteq Call /\ IsFiniteSet(L)
           /\ \A c \in L : Exists(c.id) /\ peers[c.id].enabled
           /\ \A c, d \in L : c.id = d.id /\ c.remote = d.remote => c = d
           /\ \A c, d \in L : Source(c) = Source(d) => c = d
<1>0. CASE L = {}
  BY <1>0, FS_EmptySet
<1>1. CASE L = ActiveCollectionPeers
  <2> DEFINE Q == {q \in subs : peers[q[1]].enabled}
             rec(q) == [id |-> q[1], url |-> peers[q[1]].url, remote |-> q[2]]
  <2>1. L = {rec(q) : q \in Q}
    BY <1>1 DEF ActiveCollectionPeers
  <2>2. \A q \in Q : q = <<q[1], q[2]>> /\ q[1] \in Id /\ q[2] \in Remote /\ Exists(q[1]) /\ peers[q[1]].enabled
    BY DEF RowsOK
  <2>3. ASSUME NEW q \in Q
        PROVE  /\ rec(q) \in Call /\ rec(q).id = q[1] /\ rec(q).remote = q[2]
               /\ rec(q).url = peers[q[1]].url
    BY <2>2, RowTypes DEF Call
  <2>4. IsFiniteSet(L)
    <3>1. IsFiniteSet(Id \X Remote)
      <4>1. IsFiniteSet(Id)
        BY FS_Interval, FederationAssumption DEF Id
      <4> QED BY <4>1, FS_Product, FederationAssumption
    <3>2. Q \subseteq Id \X Remote
      BY DEF RowsOK
    <3>3. IsFiniteSet(Q)
      <4> HIDE DEF Q
      <4> QED BY <3>1, <3>2, FS_Subset
    <3> DEFINE f == [q \in Q |-> rec(q)]
    <3>4. f \in Surjection(Q, L)
      BY <2>1 DEF Surjection
    <3> HIDE DEF f
    <3> QED BY <3>3, <3>4, FS_Surjection
  <2> HIDE DEF Q, rec
  <2>5. L \subseteq Call /\ \A c \in L : Exists(c.id) /\ peers[c.id].enabled
    BY <2>1, <2>2, <2>3
  <2>6. ASSUME NEW c \in L, NEW d \in L, c.id = d.id, c.remote = d.remote PROVE c = d
    <3>1. PICK q \in Q : c = rec(q)
      BY <2>1
    <3>2. PICK r \in Q : d = rec(r)
      BY <2>1
    <3>3. q[1] = r[1] /\ q[2] = r[2]
      BY <2>3, <2>6, <3>1, <3>2
    <3>4. q = r
      BY <2>2, <3>3
    <3> QED BY <3>1, <3>2, <3>4
  <2>7. ASSUME NEW c \in L, NEW d \in L, Source(c) = Source(d) PROVE c = d
    <3>1. PICK q \in Q : c = rec(q)
      BY <2>1
    <3>2. PICK r \in Q : d = rec(r)
      BY <2>1
    <3>3. c.url = d.url /\ c.remote = d.remote
      BY <2>7 DEF Source
    <3>4. q[1] = r[1]
      BY <2>2, <2>3, <3>1, <3>2, <3>3 DEF RowsOK
    <3>5. c.id = d.id
      BY <2>3, <3>1, <3>2, <3>4
    <3> QED BY <2>6, <3>3, <3>5
  <2> QED BY <2>4, <2>5, <2>6, <2>7
<1> QED BY <1>0, <1>1

\* A step of one search that leaves the rows as they are and opens calls on
\* enabled rows only.
LEMMA SlotStep ==
    ASSUME FInv, NEW s \in Slot, NEW y, search' = [search EXCEPT ![s] = y], UNCHANGED tables,
           WellFormed(y), y.busy => Gathered(y),
           \A c \in y.calls : c \in search[s].calls \/ (Exists(c.id) /\ peers[c.id].enabled)
    PROVE  FInv'
<1>1. peers' = peers /\ subs' = subs
  BY DEF tables
<1>2. RowsOK'
  BY <1>1 DEF FInv, RowsOK, Exists
<1>3. search'[s] = y /\ \A t \in Slot \ {s} : search'[t] = search[t]
  BY DEF FInv, SearchesOK
<1>4. SearchesOK'
  <2>1. search' = [t \in Slot |-> search'[t]]
    BY DEF FInv, SearchesOK
  <2>2. ASSUME NEW t \in Slot
        PROVE  WellFormed(search'[t]) /\ (search'[t].busy => Gathered(search'[t]))
    BY <1>3 DEF FInv, SearchesOK
  <2> QED BY <2>1, <2>2 DEF SearchesOK
<1>5. ASSUME NEW i \in Id, Exists(i)' PROVE Room(peers'[i], search', i)
  <2>1. Exists(i) /\ Room(peers[i], search, i) /\ peers[i].failures \in Nat /\ peers[i].enabled \in BOOLEAN
    BY <1>1, <1>5, RowTypes DEF FInv, RoomLeft, Exists
  <2>2. peers[i].enabled \/ OpenIn(search', i) \subseteq OpenIn(search, i)
    <3> SUFFICES ASSUME ~peers[i].enabled, NEW t \in Slot, NEW r \in Remote,
                        NEW c \in search'[t].calls, c.id = i, c.remote = r
                 PROVE  c \in search[t].calls
      BY DEF OpenIn
    <3> QED BY <1>3
  <2>3. Room(peers[i], search', i)
    BY <2>1, <2>2, RoomKept
  <2> QED BY <1>1, <2>3
<1>6. RoomLeft'
  BY <1>5 DEF RoomLeft
<1> QED BY <1>2, <1>4, <1>6 DEF FInv

LEMMA IdleWellFormed == WellFormed(Idle) /\ ~Idle.busy /\ Idle.calls = {}
BY FS_EmptySet DEF Idle, WellFormed, Fields

LEMMA SearchKeeps ==
    ASSUME FInv, NEW s \in Slot, NEW rq \in Request, Search(s, rq)
    PROVE  FInv'
<1> DEFINE L == IF DepthOf(rq) > 0 THEN ActiveCollectionPeers ELSE {}
           b == Batch(LocalSource, LocalResults(rq))
           y == [busy |-> TRUE, json |-> wants_json(rq), calls |-> L, out |-> <<b>>,
                 listed |-> L, failed |-> {}, late |-> FALSE]
<1>1. search' = [search EXCEPT ![s] = y] /\ UNCHANGED tables
  BY DEF Search
<1>2. /\ L \subseteq Call /\ IsFiniteSet(L)
      /\ \A c \in L : Exists(c.id) /\ peers[c.id].enabled
      /\ \A c, d \in L : c.id = d.id /\ c.remote = d.remote => c = d
      /\ \A c, d \in L : Source(c) = Source(d) => c = d
  <2>1. L = ActiveCollectionPeers \/ L = {}
    OBVIOUS
  <2> HIDE DEF L
  <2> QED BY <2>1, ListedCalls DEF FInv
<1>3. b.source = LocalSource
  BY DEF Batch
<1>4. wants_json(rq) \in BOOLEAN
  BY DEF wants_json
<1> HIDE DEF L, b
<1>5. /\ y.busy /\ y.json = wants_json(rq) /\ y.calls = L /\ y.out = <<b>> /\ y.listed = L
      /\ y.failed = {} /\ ~y.late /\ y.late \in BOOLEAN /\ y.busy \in BOOLEAN /\ Fields(y)
  BY DEF Fields
<1> HIDE DEF y
<1>6. WellFormed(y)
  BY <1>2, <1>4, <1>5 DEF WellFormed
<1>7. Gathered(y)
  <2>1. y.out \in Seq({b}) /\ Len(y.out) = 1 /\ DOMAIN y.out = 1..1 /\ y.out[1] = b
    BY <1>5
  <2>2. Answered(y) = {}
    <3> SUFFICES ASSUME NEW c \in L, NEW k \in 1..1, y.out[k].source = Source(c) PROVE FALSE
      BY <1>5, <2>1 DEF Answered
    <3> QED BY <1>2, <1>3, <2>1, SourceIsRemote
  <2>3. Cardinality(Answered(y)) = 0
    BY <2>2, FS_EmptySet
  <2>4. y.listed \ (y.calls \cup y.failed) = {}
    BY <1>5
  <2>5. \E S : y.out \in Seq(S)
    BY <2>1
  <2>6. /\ \A j, k \in DOMAIN y.out : j = k
        /\ \A k \in DOMAIN y.out : k = 1
    BY <2>1
  <2> QED BY <1>3, <1>5, <2>1, <2>3, <2>4, <2>5, <2>6 DEF Gathered
<1>8. \A c \in y.calls : Exists(c.id) /\ peers[c.id].enabled
  BY <1>2, <1>5
<1> QED BY <1>1, <1>6, <1>7, <1>8, SlotStep

LEMMA FinishKeeps ==
    ASSUME FInv, NEW s \in Slot, Finish(s)
    PROVE  FInv'
BY IdleWellFormed, SlotStep DEF Finish

LEMMA DeadlineKeeps ==
    ASSUME FInv, NEW s \in Slot, Deadline(s)
    PROVE  FInv'
<1> DEFINE x == search[s]
           y == [busy |-> x.busy, json |-> x.json, calls |-> {}, out |-> x.out,
                 listed |-> x.listed, failed |-> x.failed, late |-> TRUE]
<1>1. WellFormed(x) /\ (x.busy => Gathered(x)) /\ x.json
  BY DEF FInv, SearchesOK, Deadline
<1>2. search' = [search EXCEPT ![s] = y] /\ UNCHANGED tables
  <2>1. [x EXCEPT !.calls = {}, !.late = TRUE] = y
    <3>1. Fields(x)
      BY <1>1 DEF WellFormed
    <3> QED BY <3>1, DeadlineFields
  <2>2. search' = [search EXCEPT ![s] = [x EXCEPT !.calls = {}, !.late = TRUE]]
    BY DEF Deadline
  <2> QED BY <2>1, <2>2 DEF Deadline
<1>3. /\ y.busy = x.busy /\ y.json = x.json /\ y.calls = {} /\ y.out = x.out /\ y.late = TRUE
      /\ y.listed = x.listed /\ y.failed = x.failed /\ Fields(y)
  BY DEF Fields
<1> HIDE DEF y, x
<1>4. WellFormed(y)
  BY <1>1, <1>3 DEF WellFormed
<1>5. ASSUME y.busy PROVE Gathered(y)
  <2>1. Gathered(x)
    BY <1>1, <1>3, <1>5
  <2>2. Answered(y) = Answered(x)
    BY <1>3 DEF Answered
  <2>3. x.listed \ (x.calls \cup x.failed) \subseteq y.listed \ (y.calls \cup y.failed)
    BY <1>3
  <2> QED BY <1>1, <1>3, <2>1, <2>2, <2>3 DEF Gathered
<1>6. \A c \in y.calls : FALSE
  BY <1>3
<1> QED BY <1>2, <1>4, <1>5, <1>6, SlotStep

\* The outcome of a call: the search is one call further, and the row named by
\* the call's id, if there is one, has the outcome on its count.
LEMMA OutcomeKeeps ==
    ASSUME FInv, NEW s \in Slot, NEW c \in search[s].calls, NEW ok \in BOOLEAN, Outcome(s, c, ok)
    PROVE  FInv'
<1> DEFINE x == search[s]
           y == [busy |-> x.busy, json |-> x.json, calls |-> x.calls \ {c},
                 out |-> IF ok THEN Append(x.out, Batch(Source(c), PeerResults(c))) ELSE x.out,
                 listed |-> x.listed, failed |-> IF ok THEN x.failed ELSE x.failed \cup {c},
                 late |-> x.late]
<1>1. WellFormed(x) /\ (x.busy => Gathered(x)) /\ x.busy
  BY DEF FInv, SearchesOK, WellFormed
<1>2. search' = [search EXCEPT ![s] = y] /\ UNCHANGED subs
  <2> DEFINE o == IF ok THEN Append(x.out, Batch(Source(c), PeerResults(c))) ELSE x.out
             f == IF ok THEN x.failed ELSE x.failed \cup {c}
             k == x.calls \ {c}
  <2>1. search' = [search EXCEPT ![s] = [x EXCEPT !.calls = k, !.failed = f, !.out = o]]
    <3>1. CASE ok
      BY <3>1 DEF Outcome, CallsAfter
    <3>2. CASE ~ok
      BY <3>2 DEF Outcome, CallsAfter
    <3> QED BY <3>1, <3>2
  <2>2. Fields(x)
    BY <1>1 DEF WellFormed
  <2>3. y = [busy |-> x.busy, json |-> x.json, calls |-> k, out |-> o,
             listed |-> x.listed, failed |-> f, late |-> x.late]
    OBVIOUS
  <2> HIDE DEF o, f, k, y, x
  <2>4. [x EXCEPT !.calls = k, !.failed = f, !.out = o] = y
    <3> DEFINE w == [x EXCEPT !.calls = k, !.failed = f, !.out = o]
    <3>1. w = [x EXCEPT !.calls = k, !.failed = f, !.out = o]
      OBVIOUS
    <3> HIDE DEF w
    <3>2. w = [busy |-> x.busy, json |-> x.json, calls |-> k, out |-> o,
               listed |-> x.listed, failed |-> f, late |-> x.late]
      BY <2>2, <3>1 DEF Fields
    <3> QED BY <2>3, <3>2 DEF w
  <2> QED BY <2>1, <2>4 DEF Outcome
<1>3. /\ y.busy = x.busy /\ y.json = x.json /\ y.calls = x.calls \ {c} /\ y.late = x.late
      /\ y.listed = x.listed /\ Fields(y)
      /\ ok => y.failed = x.failed /\ y.out = Append(x.out, Batch(Source(c), PeerResults(c)))
      /\ ~ok => y.failed = x.failed \cup {c} /\ y.out = x.out
  BY DEF Fields
<1>c. c \in x.calls /\ x = search[s]
  OBVIOUS
<1> HIDE DEF x, y
<1>4. WellFormed(y) /\ Gathered(y)
  <2>1. CASE ok
    BY <1>1, <1>3, <1>c, <2>1, CallAnswered
  <2>2. CASE ~ok
    BY <1>1, <1>3, <1>c, <2>2, CallFails
  <2> QED BY <2>1, <2>2
<1>5. search'[s] = y /\ \A t \in Slot \ {s} : search'[t] = search[t]
  BY <1>2 DEF FInv, SearchesOK
<1>6. SearchesOK'
  <2>1. search' = [t \in Slot |-> search'[t]]
    BY <1>2 DEF FInv, SearchesOK
  <2>2. ASSUME NEW t \in Slot
        PROVE  WellFormed(search'[t]) /\ (search'[t].busy => Gathered(search'[t]))
    BY <1>4, <1>5 DEF FInv, SearchesOK
  <2> QED BY <2>1, <2>2 DEF SearchesOK
<1>7. \A i : OpenIn(search', i) \subseteq OpenIn(search, i)
  <2> SUFFICES ASSUME NEW i, NEW t \in Slot, NEW r \in Remote,
                      NEW d \in search'[t].calls, d.id = i, d.remote = r
               PROVE  d \in search[t].calls
    BY DEF OpenIn
  <2> QED BY <1>3, <1>5, <1>c
<1>8. c \in Call /\ c.id \in Id /\ c.remote \in Remote
  BY <1>1, <1>c DEF WellFormed, Call
<1>9. CASE ~Exists(c.id)
  <2>1. peers' = peers /\ subs' = subs
    BY <1>2, <1>9 DEF Outcome, RecordResult
  <2>2. RowsOK'
    BY <2>1 DEF FInv, RowsOK, Exists
  <2>3. ASSUME NEW i \in Id, Exists(i)' PROVE Room(peers'[i], search', i)
    <3>1. Exists(i) /\ Room(peers[i], search, i) /\ peers[i].failures \in Nat
      BY <2>1, <2>3, RowTypes DEF FInv, RoomLeft, Exists
    <3> QED BY <3>1, <2>1, <1>7, RoomKept
  <2> QED BY <1>6, <2>2, <2>3 DEF FInv, RoomLeft
<1>10. CASE Exists(c.id)
  <2> DEFINE old == peers[c.id]
             new == Recorded(old, ok)
  <2>0. old \in Peer /\ old.url \in Url /\ old.enabled \in BOOLEAN /\ old.failures \in Nat
    BY <1>8, <1>10, RowTypes DEF FInv
  <2>1. /\ new \in Peer /\ new.url = old.url
        /\ ok => new.failures = 0
        /\ ~ok => new.failures = old.failures + 1 /\ new.enabled = (old.enabled /\ Below(new.failures))
    <3>1. old = [url |-> old.url, enabled |-> old.enabled, failures |-> old.failures]
      BY <2>0 DEF Peer
    <3>2. CASE ok
      <4>1. new = [old EXCEPT !.failures = 0]
        BY <3>2 DEF Recorded
      <4>2. new = [url |-> old.url, enabled |-> old.enabled, failures |-> 0]
        BY <3>1, <4>1
      <4> HIDE DEF new, old
      <4> QED BY <2>0, <3>2, <4>2 DEF Peer
    <3>3. CASE ~ok
      <4> DEFINE n == old.failures + 1
                 e == old.enabled /\ Below(n)
      <4>1. new = [old EXCEPT !.failures = n, !.enabled = e]
        BY <3>3 DEF Recorded
      <4>2. n \in Nat /\ e \in BOOLEAN
        BY <2>0
      <4> HIDE DEF n, e
      <4>3. new = [url |-> old.url, enabled |-> e, failures |-> n]
        BY <3>1, <4>1
      <4> HIDE DEF new, old
      <4>4. new \in Peer /\ new.url = old.url /\ new.failures = n /\ new.enabled = e
        BY <2>0, <4>2, <4>3 DEF Peer
      <4> QED BY <3>3, <4>4 DEF n, e
    <3> QED BY <3>2, <3>3
  <2>2. peers' = [peers EXCEPT ![c.id] = new]
    BY <1>10 DEF Outcome, RecordResult
  <2>3. peers' \in [Id -> Peer \cup {None}] /\ peers'[c.id] = new
        /\ \A i \in Id \ {c.id} : peers'[i] = peers[i]
    BY <1>8, <2>1, <2>2 DEF FInv, RowsOK
  <2> HIDE DEF new
  <2>4. \A i \in Id : Exists(i)' <=> Exists(i)
    BY <1>10, <2>1, <2>3, NoneIsNoPeer DEF Exists
  <2>5. RowsOK'
    BY <1>2, <2>1, <2>3, <2>4 DEF FInv, RowsOK
  <2>6. ASSUME NEW i \in Id, Exists(i)' PROVE Room(peers'[i], search', i)
    <3>1. Exists(i) /\ Room(peers[i], search, i) /\ peers[i].failures \in Nat
          /\ peers[i].enabled \in BOOLEAN
      BY <2>4, <2>6, RowTypes DEF FInv, RoomLeft
    <3>2. CASE i # c.id
      BY <3>1, <3>2, <2>3, <1>7, RoomKept
    <3>3. CASE i = c.id /\ ok
      BY <3>3, <2>1, <2>3, ZeroBelow, BelowHasRoom
    <3>4. CASE i = c.id /\ ~ok
      <4> DEFINE p == <<s, c.remote>>
      <4>1. p \in OpenIn(search, i)
        BY <1>8, <1>c, <3>4 DEF OpenIn
      <4>2. p \notin OpenIn(search', i)
        <5> SUFFICES ASSUME NEW d \in search'[s].calls, d.id = c.id, d.remote = c.remote
                     PROVE  FALSE
          BY <3>4 DEF OpenIn
        <5>1. d \in x.calls \ {c}
          BY <1>3, <1>5
        <5> QED BY <5>1, <1>1, <1>c DEF WellFormed
      <4>3. OpenIn(search', i) \subseteq OpenIn(search, i) \ {p}
        BY <4>2, <1>7
      <4> HIDE DEF p, old
      <4>4. Room(new, search', i)
        <5>1. peers[i] = old
          BY <3>4 DEF old
        <5> QED BY <3>1, <3>4, <4>1, <4>3, <5>1, <2>1, RoomUsed
      <4> QED BY <3>4, <4>4, <2>3
    <3> QED BY <3>2, <3>3, <3>4
  <2> QED BY <1>6, <2>5, <2>6 DEF FInv, RoomLeft
<1> QED BY <1>9, <1>10

LEMMA AdminKeeps == FInv /\ Admin => FInv'
<1> SUFFICES ASSUME FInv, Admin PROVE FInv'
  OBVIOUS
<1>1. ASSUME NEW u \in Url, AddPeer(u) \/ PromoteDiscovered(u) PROVE FInv'
  BY <1>1, InsertKeeps DEF AddPeer, PromoteDiscovered
<1>2. ASSUME NEW i \in Id, DeletePeer(i) PROVE FInv'
  BY <1>2, DeleteKeeps
<1>3. ASSUME NEW i \in Id, NEW b \in BOOLEAN, UpdatePeer(i, b) PROVE FInv'
  BY <1>3, SetEnabledKeeps DEF UpdatePeer
<1>4. ASSUME NEW i \in Id, NEW r \in Remote, Subscribe(i, r) PROVE FInv'
  <2>1. peers' = peers /\ search' = search /\ subs' = subs \cup {<<i, r>>} /\ Exists(i)
    BY <1>4 DEF Subscribe
  <2>2. RowsOK'
    BY <2>1 DEF FInv, RowsOK, Exists
  <2> QED BY <2>1, <2>2, RowStep DEF Exists
<1>5. ASSUME NEW p \in subs, Unsubscribe(p) PROVE FInv'
  <2>1. peers' = peers /\ search' = search /\ subs' = subs \ {p}
    BY <1>5 DEF Unsubscribe
  <2>2. RowsOK'
    BY <2>1 DEF FInv, RowsOK, Exists
  <2> QED BY <2>1, <2>2, RowStep DEF Exists
<1> QED BY <1>1, <1>2, <1>3, <1>4, <1>5 DEF Admin

\* A step that changes neither rows nor searches.
LEMMA StutterKeeps == FInv /\ UNCHANGED <<tables, search>> => FInv'
<1> SUFFICES ASSUME FInv, UNCHANGED <<tables, search>> PROVE FInv'
  OBVIOUS
<1>1. peers' = peers /\ subs' = subs /\ search' = search
  BY DEF tables
<1>2. RowsOK'
  BY <1>1 DEF FInv, RowsOK, Exists
<1> QED BY <1>1, <1>2, RowStep DEF Exists

\* The sweep enables rows by id, whoever has the id by now.
LEMMA SweepKeeps == FInv /\ SweepStep => FInv'
<1> SUFFICES ASSUME FInv, SweepStep PROVE FInv'
  OBVIOUS
<1>1. CASE SweepStart \/ SweepEnd
  BY <1>1, StutterKeeps DEF SweepStart, SweepEnd
<1>2. CASE SweepProbe
  <2> DEFINE e == Head(sweep)
  <2>1. CASE health_check(e.url) /\ Exists(e.id)
    <3>1. peers' = [peers EXCEPT ![e.id] = set_node_peer_enabled(@, TRUE)]
          /\ UNCHANGED <<subs, search>> /\ e.id \in Id
      BY <1>2, <2>1 DEF SweepProbe, Exists
    <3> QED BY <2>1, <3>1, SetEnabledKeeps
  <2>2. CASE ~(health_check(e.url) /\ Exists(e.id))
    <3>1. UNCHANGED <<peers, subs, search>>
      BY <1>2, <2>2 DEF SweepProbe
    <3> QED BY <3>1, StutterKeeps DEF tables
  <2> QED BY <2>1, <2>2
<1> QED BY <1>1, <1>2 DEF SweepStep

LEMMA RestartKeeps == FInv /\ Restart => FInv'
<1> SUFFICES ASSUME FInv, Restart PROVE FInv'
  OBVIOUS
<1>1. peers' = peers /\ subs' = subs /\ search' = [s \in Slot |-> Idle]
  BY DEF Restart, tables
<1>2. RowsOK'
  BY <1>1 DEF FInv, RowsOK, Exists
<1>3. SearchesOK'
  BY <1>1, IdleWellFormed DEF SearchesOK
<1>4. ASSUME NEW i \in Id, Exists(i)' PROVE Room(peers'[i], search', i)
  <2>1. Exists(i) /\ Room(peers[i], search, i) /\ peers[i].failures \in Nat
    BY <1>1, <1>4, RowTypes DEF FInv, RoomLeft, Exists
  <2>2. OpenIn(search', i) \subseteq OpenIn(search, i)
    BY <1>1, IdleWellFormed DEF OpenIn
  <2> QED BY <1>1, <2>1, <2>2, RoomKept
<1> QED BY <1>2, <1>3, <1>4 DEF FInv, RoomLeft

\* FInv is an invariant: rows have one URL each, every search is well formed,
\* and the count of every row leaves room for the calls open on its id.
THEOREM FederationInvariance == Spec => []FInv
<1>1. FInv /\ [Next]_vars => FInv'
  <2> SUFFICES ASSUME FInv, [Next]_vars PROVE FInv'
    OBVIOUS
  <2>1. CASE Admin \/ SweepStep
    BY <2>1, AdminKeeps, SweepKeeps
  <2>2. ASSUME NEW s \in Slot, NEW rq \in Request, Search(s, rq) PROVE FInv'
    BY <2>2, SearchKeeps
  <2>3. ASSUME NEW s \in Slot, SearchStep(s) PROVE FInv'
    BY <2>3, OutcomeKeeps, DeadlineKeeps, FinishKeeps DEF SearchStep
  <2>4. CASE (\E u \in Url : Flip(u)) \/ UNCHANGED vars
    BY <2>4, StutterKeeps DEF Flip, vars
  <2>5. CASE Restart
    BY <2>5, RestartKeeps
  <2> QED BY <2>1, <2>2, <2>3, <2>4, <2>5 DEF Next
<1> QED BY FInit, <1>1, PTL DEF Spec

\* Rows, subscriptions and searches have their types, URLs of peers are unique,
\* and a subscription belongs to a peer that exists.
THEOREM FederationTypeCorrect == Spec => []TypeOK
<1> DEFINE UpOK == up \subseteq Url
<1>1. FInv /\ UpOK => TypeOK
  BY DEF FInv, RowsOK, SearchesOK, WellFormed, TypeOK
<1>2. Init => UpOK
  BY DEF Init
<1>3. UpOK /\ [Next]_vars => UpOK'
  <2> SUFFICES ASSUME UpOK, [Next]_vars, up' # up PROVE UpOK'
    OBVIOUS
  <2>1. ~(Admin \/ SweepStep \/ Restart \/ UNCHANGED vars)
    BY DEF Admin, AddPeer, PromoteDiscovered, DeletePeer, UpdatePeer, Subscribe, Unsubscribe,
           SweepStep, SweepStart, SweepProbe, SweepEnd, Restart, vars
  <2>2. \A s \in Slot : ~SearchStep(s) /\ \A rq \in Request : ~Search(s, rq)
    BY DEF SearchStep, Outcome, Deadline, Finish, Search
  <2>3. PICK u \in Url : Flip(u)
    BY <2>1, <2>2 DEF Next
  <2> QED BY <2>3 DEF Flip
<1>4. Spec => []UpOK
  BY <1>2, <1>3, PTL DEF Spec
<1> QED BY <1>1, <1>4, FederationInvariance, PTL

\* A peer that is searched is below the threshold, for any threshold; a disabled
\* one is charged for the calls that were open when it was disabled and for no
\* others, even when its id has passed to another peer meanwhile.
THEOREM OnlyOpenCallsAreCharged == Spec => []ChargedForOpenCalls
<1>1. FInv => ChargedForOpenCalls
  <2> SUFFICES ASSUME FInv, NEW i \in Id, Exists(i)
               PROVE  peers[i].failures <= (FAILURE_THRESHOLD - 1)
                                             + (IF peers[i].enabled THEN 0 ELSE Quota)
    BY DEF ChargedForOpenCalls, Quota
  <2>1. Room(peers[i], search, i) /\ peers[i].failures \in Nat /\ peers[i].enabled \in BOOLEAN
    BY RowTypes DEF FInv, RoomLeft
  <2>2. Cardinality(OpenIn(search, i)) \in Nat /\ Quota \in Nat /\ FAILURE_THRESHOLD \in Nat
    BY OpenCounts, FederationAssumption
  <2>3. CASE peers[i].enabled
    BY <2>1, <2>2, <2>3 DEF Room, Below
  <2>4. CASE ~peers[i].enabled
    BY <2>1, <2>2, <2>4 DEF Room
  <2> QED BY <2>3, <2>4
<1> QED BY <1>1, FederationInvariance, PTL

\* A finished search has heard every peer it listed, once, or knows that it
\* failed, for any set of peers and any order of outcomes; only a JSON search may
\* have run out of time.
THEOREM PeersAreHeard == Spec => []EveryPeerHeard
<1>1. FInv => EveryPeerHeard
  <2> SUFFICES ASSUME FInv, NEW s \in Slot, Done(s)
               PROVE  LET out == search[s].out
                          ok == {c \in search[s].listed : \E k \in DOMAIN out : out[k].source = Source(c)}
                      IN  /\ out[1].source = LocalSource
                          /\ \A j, k \in DOMAIN out : out[j].source = out[k].source => j = k
                          /\ Len(out) = 1 + Cardinality(ok) /\ ok \cap search[s].failed = {}
                          /\ ~search[s].late => ok \cup search[s].failed = search[s].listed
                          /\ search[s].late => search[s].json
    BY DEF EveryPeerHeard
  <2> DEFINE x == search[s]
  <2>1. WellFormed(x) /\ Gathered(x) /\ x.calls = {}
    BY DEF FInv, SearchesOK, Done
  <2>2. Answered(x) = {c \in x.listed : \E k \in DOMAIN x.out : x.out[k].source = Source(c)}
    BY DEF Answered
  <2>3. Answered(x) \cap x.failed = {}
    BY <2>1, OpenNotAnswered
  <2>4. Answered(x) \subseteq x.listed /\ x.failed \subseteq x.listed
    BY <2>1 DEF Answered, WellFormed
  <2>5. ~x.late => Answered(x) \cup x.failed = x.listed
    BY <2>1, <2>4 DEF Gathered
  <2>6. /\ x.out[1].source = LocalSource /\ (x.late => x.json)
        /\ \A j, k \in DOMAIN x.out : x.out[j].source = x.out[k].source => j = k
        /\ Len(x.out) = 1 + Cardinality(Answered(x))
    BY <2>1 DEF Gathered
  <2> QED BY <2>2, <2>3, <2>5, <2>6
<1> QED BY <1>1, FederationInvariance, PTL

-----------------------------------------------------------------------------
(* The order of a list of scores *)

\* Scores to be ordered: a finite set of places, a score for each.
Scores(D, f) == D \subseteq Nat /\ IsFiniteSet(D) /\ f \in [D -> Int]

\* The order is total, and a place comes after those before it.
LEMMA BeforeFacts ==
    ASSUME NEW D, NEW f, Scores(D, f)
    PROVE  /\ \A i, j \in D : i = j \/ Before(f, i, j) \/ Before(f, j, i)
           /\ \A i \in D : ~Before(f, i, i)
           /\ \A i, j, k \in D : Before(f, i, j) /\ Before(f, j, k) => Before(f, i, k)
<1>1. \A i \in D : i \in Int /\ f[i] \in Int
  BY DEF Scores
<1> QED BY <1>1 DEF Before

\* Ranks are 1..n and follow the order.
LEMMA RankFacts ==
    ASSUME NEW D, NEW f, Scores(D, f)
    PROVE  /\ Cardinality(D) \in Nat
           /\ \A i \in D : Rank(f, i) \in 1..Cardinality(D)
           /\ \A i, j \in D : Before(f, i, j) => Rank(f, i) < Rank(f, j)
<1> DEFINE P(i) == {j \in D : Before(f, j, i)}
<1>1. DOMAIN f = D /\ IsFiniteSet(D) /\ Cardinality(D) \in Nat
  BY FS_CardinalityType DEF Scores
<1>2. ASSUME NEW i \in D
      PROVE  /\ Rank(f, i) = 1 + Cardinality(P(i)) /\ IsFiniteSet(P(i))
             /\ Cardinality(P(i)) \in Nat /\ Cardinality(P(i)) < Cardinality(D)
  <2>1. Rank(f, i) = 1 + Cardinality(P(i))
    BY <1>1 DEF Rank
  <2>2. P(i) \in SUBSET D /\ i \notin P(i)
    BY BeforeFacts
  <2> HIDE DEF P
  <2>3. IsFiniteSet(P(i)) /\ Cardinality(P(i)) <= Cardinality(D) /\ Cardinality(P(i)) # Cardinality(D)
    BY <1>1, <2>2, FS_Subset
  <2>4. Cardinality(P(i)) \in Nat
    BY <2>3, FS_CardinalityType
  <2> QED BY <1>1, <2>1, <2>3, <2>4
<1>3. ASSUME NEW i \in D, NEW j \in D, Before(f, i, j) PROVE Cardinality(P(i)) < Cardinality(P(j))
  <2>1. P(i) \in SUBSET P(j) /\ i \in P(j) /\ i \notin P(i)
    BY <1>3, BeforeFacts
  <2> HIDE DEF P
  <2>2. Cardinality(P(i)) <= Cardinality(P(j)) /\ Cardinality(P(i)) # Cardinality(P(j))
    BY <1>2, <2>1, FS_Subset
  <2> QED BY <1>2, <2>2
<1> HIDE DEF P
<1> QED BY <1>1, <1>2, <1>3

\* The ordered places are a permutation of the places, best first.
LEMMA OrderedFacts ==
    ASSUME NEW D, NEW f, Scores(D, f), NEW n, n = Cardinality(D)
    PROVE  LET o == Ordered(f)
           IN  /\ n \in Nat /\ o \in Seq(D) /\ Len(o) = n /\ o \in [1..n -> D]
               /\ \A k \in 1..n : o[k] \in D
               /\ \A j, k \in 1..n : Before(f, o[j], o[k]) <=> j < k
               /\ \A j, k \in 1..n : o[j] = o[k] => j = k
               /\ \A i \in D : \E k \in 1..n : o[k] = i
<1> DEFINE r == [i \in D |-> Rank(f, i)]
           o == Ordered(f)
<1>1. /\ DOMAIN f = D /\ IsFiniteSet(D) /\ n \in Nat /\ r \in [D -> 1..n]
      /\ \A i, j \in D : Before(f, i, j) => r[i] < r[j]
  BY RankFacts DEF Scores
<1>2. \A i, j \in D : r[i] = r[j] => i = j
  BY <1>1, BeforeFacts
<1>3. \A k \in 1..n : \E i \in D : r[i] = k
  <2> HIDE DEF r
  <2>1. r \in Injection(D, 1..n)
    BY <1>1, <1>2 DEF Injection, IsInjective
  <2>2. IsFiniteSet(1..n) /\ Cardinality(1..n) = n
    BY <1>1, FS_Interval
  <2>3. r \in Surjection(D, 1..n)
    BY <2>1, <2>2, FS_Injection
  <2> QED BY <2>3 DEF Surjection
<1>4. o = [k \in 1..n |-> CHOOSE i \in D : Rank(f, i) = k]
  BY <1>1 DEF Ordered
<1>5. \A k \in 1..n : o[k] \in D /\ r[o[k]] = k
  BY <1>3, <1>4
<1>6. o \in [1..n -> D] /\ DOMAIN o = 1..n
  BY <1>4, <1>5
<1>7. o \in Seq(D) /\ Len(o) = n
  <2> HIDE DEF o
  <2> QED BY <1>1, <1>6
<1>8. \A i \in D : \E k \in 1..n : o[k] = i
  <2> HIDE DEF o, r
  <2> QED BY <1>1, <1>2, <1>5
<1> HIDE DEF o, r
<1>9. ASSUME NEW j \in 1..n, NEW k \in 1..n PROVE Before(f, o[j], o[k]) <=> j < k
  BY <1>1, <1>5, BeforeFacts
<1>10. \A j, k \in 1..n : o[j] = o[k] => j = k
  BY <1>5
<1> QED BY <1>1, <1>5, <1>6, <1>7, <1>8, <1>9, <1>10 DEF o

\* A list cut at n keeps its front.
LEMMA TruncateFacts ==
    ASSUME NEW S, NEW s \in Seq(S), NEW n \in Nat
    PROVE  LET t == Truncate(s, n)
           IN  /\ t \in Seq(S) /\ Len(t) \in Nat /\ DOMAIN t = 1..Len(t)
               /\ Len(t) = (IF Len(s) < n THEN Len(s) ELSE n) /\ Len(t) <= Len(s) /\ Len(t) <= n
               /\ \A k \in 1..Len(t) : t[k] = s[k]
<1> DEFINE m == IF Len(s) < n THEN Len(s) ELSE n
<1>1. m \in Nat /\ m <= Len(s) /\ m <= n /\ Truncate(s, n) = SubSeq(s, 1, m)
  BY DEF Truncate
<1>2. m = IF Len(s) < n THEN Len(s) ELSE n
  OBVIOUS
<1> HIDE DEF m
<1> QED BY <1>1, <1>2

\* b holds the n elements of s, at the places p, in the order of their scores and,
\* of equal scores, in the order they had.
Sorts(b, s, p, n) ==
    /\ p \in [1..n -> 1..n] /\ \A k \in 1..n : p[k] \in 1..n /\ b[k] = s[p[k]]
    /\ \A i \in 1..n : \E k \in 1..n : p[k] = i
    /\ \A j, k \in 1..n : p[j] = p[k] => j = k
    /\ \A j, k \in 1..n : j < k =>
         \/ s[p[j]].score > s[p[k]].score
         \/ s[p[j]].score = s[p[k]].score /\ p[j] < p[k]

LEMMA ByScoreFacts ==
    ASSUME NEW S, NEW s \in Seq(S), NEW n, n = Len(s), \A k \in 1..n : s[k].score \in Int
    PROVE  /\ ByScore(s) \in Seq(S) /\ Len(ByScore(s)) = n
           /\ \E p : Sorts(ByScore(s), s, p, n)
<1> DEFINE f == [k \in 1..n |-> s[k].score]
           p == Ordered(f)
           b == ByScore(s)
<1>1. n \in Nat /\ DOMAIN s = 1..n
  OBVIOUS
<1>2. Cardinality(1..n) = n /\ IsFiniteSet(1..n)
  BY ONLY <1>1, FS_Interval
<1>3. Scores(1..n, f)
  BY <1>1, <1>2 DEF Scores
<1>4. b = [k \in 1..n |-> s[p[k]]]
  BY <1>1 DEF ByScore
<1>5. \A k \in 1..n : f[k] = s[k].score
  OBVIOUS
<1> HIDE DEF f, p, b
<1>6. /\ p \in [1..n -> 1..n] /\ \A k \in 1..n : p[k] \in 1..n
      /\ \A j, k \in 1..n : Before(f, p[j], p[k]) <=> j < k
      /\ \A j, k \in 1..n : p[j] = p[k] => j = k
      /\ \A i \in 1..n : \E k \in 1..n : p[k] = i
  <2> QED BY ONLY <1>2, <1>3, OrderedFacts DEF p
<1>8. b \in Seq(S) /\ Len(b) = n /\ \A k \in 1..n : b[k] = s[p[k]]
  <2>1. b \in [1..n -> S]
    BY <1>1, <1>4, <1>6
  <2> QED BY <1>1, <1>4, <2>1
<1>9. ASSUME NEW j \in 1..n, NEW k \in 1..n, j < k
      PROVE  \/ s[p[j]].score > s[p[k]].score
             \/ s[p[j]].score = s[p[k]].score /\ p[j] < p[k]
  <2>1. Before(f, p[j], p[k]) /\ p[j] \in 1..n /\ p[k] \in 1..n
    BY <1>6, <1>9
  <2>2. f[p[j]] = s[p[j]].score /\ f[p[k]] = s[p[k]].score
    BY <1>5, <2>1
  <2> QED BY <2>1, <2>2 DEF Before
<1> QED BY <1>6, <1>8, <1>9 DEF b, Sorts

-----------------------------------------------------------------------------
\* Age only lowers the freshness factor, and a date in the future counts as now.
LEMMA FactorFacts ==
    ASSUME NEW age \in Int, NEW half_life \in Int
    PROVE  /\ FreshnessFactor(age, half_life) \in Nat
           /\ FreshnessFactor(age, half_life) <= FreshnessFactor(0, half_life)
<1> DEFINE a == (IF age < 0 THEN 0 ELSE age) \div half_life
<1>1. \A n \in Nat : Halved(n) \in Nat /\ Halved(n) <= Halved(0) /\ Halved(0) = UNIT
  BY DEF Halved, UNIT
<1>2. CASE half_life <= 0
  BY <1>2 DEF FreshnessFactor, UNIT
<1>3. CASE half_life > 0
  <2>1. a \in Nat /\ 0 \div half_life = 0
    BY <1>3
  <2>2. FreshnessFactor(age, half_life) = Halved(a) /\ FreshnessFactor(0, half_life) = Halved(0)
    BY <1>3, <2>1 DEF FreshnessFactor
  <2> HIDE DEF a
  <2> QED BY <1>1, <2>1, <2>2
<1> QED BY <1>2, <1>3

Config(Dom) == [half_life : Int, weight : Nat, boost : SUBSET Dom]
AnyHit(Dom, Coll) == Hit(Nat, Int, Dom, Coll)

\* Scores are whole numbers, and highest at age zero.
LEMMA ScoreFacts ==
    ASSUME NEW Dom, NEW Coll, NEW h \in AnyHit(Dom, Coll), NEW cfg \in Config(Dom)
    PROVE  Score(h, cfg) \in Nat /\ Score(h, cfg) <= Score([h EXCEPT !.age = 0], cfg)
<1> DEFINE g == [h EXCEPT !.age = 0]
           F == FreshnessFactor(h.age, cfg.half_life)
           F0 == FreshnessFactor(0, cfg.half_life)
           B == IF h.domain \in cfg.boost THEN 3 ELSE 1
           w == cfg.weight
           m == h.bm25
<1>1. m \in Nat /\ w \in Nat /\ B \in Nat /\ h.age \in Int /\ cfg.half_life \in Int
  BY DEF Config, AnyHit, Hit
<1>2. g.age = 0 /\ g.bm25 = m /\ g.domain = h.domain
  BY DEF AnyHit, Hit
<1>3. F \in Nat /\ F <= F0 /\ F0 \in Nat
  <2>1. h.age \in Int /\ cfg.half_life \in Int /\ 0 \in Int
    BY <1>1
  <2> QED BY ONLY <2>1, FactorFacts
<1>4. Score(h, cfg) = m * w * F * B /\ Score(g, cfg) = m * w * F0 * B
  BY <1>2 DEF Score
<1> HIDE DEF g, F, F0, B, w, m
<1>5. ASSUME NEW a \in Nat, NEW x \in Nat, NEW y \in Nat, NEW b \in Nat, x <= y
      PROVE  a * x * b \in Nat /\ a * x * b <= a * y * b
  BY <1>5
<1>6. m * w \in Nat
  BY <1>1
<1> QED BY <1>1, <1>3, <1>4, <1>5, <1>6 DEF g

Values(f, n) == {f[k] : k \in 1..n}
OneToOne(f, n) == \A j, k \in 1..n : f[j] = f[k] => j = k

\* Distinct values at the places 1..n are n values.
LEMMA DistinctCount ==
    ASSUME NEW n \in Nat, NEW T, NEW f \in [1..n -> T], OneToOne(f, n)
    PROVE  Cardinality(Values(f, n)) = n /\ IsFiniteSet(Values(f, n))
<1> DEFINE R == Values(f, n)
<1>1. f \in Bijection(1..n, R)
  BY DEF OneToOne, Values, Bijection, Injection, IsInjective, Surjection
<1>2. ExistsBijection(1..n, R)
  BY <1>1 DEF ExistsBijection
<1>3. Cardinality(R) = n
  BY <1>2, FS_CountingElements
<1>4. IsFiniteSet(R)
  BY <1>2, FS_NatBijection
<1> QED BY <1>3, <1>4

\* The places local_search shows: among the r best matches o[1..r], in the order p
\* of their scores, the first t.
Shows(index, coll, cfg, limit, o, p, r, t) ==
    LET match == Matches(index, coll)
        m == Cardinality(match)
        res == LocalSearch(index, coll, cfg, limit)
        score(k) == Score(index[o[k]], cfg)
    IN  /\ IsFiniteSet(match) /\ m \in Nat /\ r \in Nat /\ t \in Nat
        /\ r = (IF m < 4 * limit THEN m ELSE 4 * limit) /\ r <= m
        /\ t = (IF m < limit THEN m ELSE limit) /\ t <= r
        /\ o \in [1..m -> match] /\ p \in [1..r -> 1..r]
        /\ \A k \in 1..m : o[k] \in match
        /\ \A k \in 1..r : p[k] \in 1..r
        /\ \A j, k \in 1..m : o[j] = o[k] => j = k
        /\ \A j, k \in 1..m : j < k => index[o[j]].bm25 >= index[o[k]].bm25
        /\ \A i \in match : \E k \in 1..m : o[k] = i
        /\ \A j, k \in 1..r : p[j] = p[k] => j = k
        /\ \A i \in 1..r : \E k \in 1..r : p[k] = i
        /\ \A j, k \in 1..r : j < k => score(p[j]) >= score(p[k])
        /\ Len(res) = t /\ DOMAIN res = 1..t /\ res \in Seq([doc : match, score : Int])
        /\ \A k \in 1..t : res[k] = [doc |-> o[p[k]], score |-> score(p[k])]

\* The matches of a query, with their scores, can be ordered.
LEMMA MatchScores ==
    ASSUME NEW Dom, NEW Coll, NEW index \in Seq(AnyHit(Dom, Coll)), NEW coll
    PROVE  /\ IsFiniteSet(Matches(index, coll)) /\ Matches(index, coll) \subseteq DOMAIN index
           /\ \A i \in Matches(index, coll) : index[i] \in AnyHit(Dom, Coll) /\ index[i].bm25 \in Nat
           /\ Scores(Matches(index, coll), [i \in Matches(index, coll) |-> index[i].bm25])
<1> DEFINE M == Matches(index, coll)
<1>1. M \in SUBSET (1..Len(index)) /\ Len(index) \in Nat /\ DOMAIN index = 1..Len(index)
  BY DEF Matches
<1>2. IsFiniteSet(1..Len(index))
  BY <1>1, FS_Interval
<1>3. IsFiniteSet(M)
  BY <1>1, <1>2, FS_Subset
<1>4. \A i \in M : index[i] \in AnyHit(Dom, Coll)
  BY <1>1
<1>5. \A i \in M : index[i].bm25 \in Nat
  BY <1>4 DEF AnyHit, Hit
<1> HIDE DEF M
<1>6. M \subseteq Nat
  BY <1>1
<1>7. Scores(M, [i \in M |-> index[i].bm25])
  BY <1>3, <1>5, <1>6 DEF Scores
<1> QED BY <1>1, <1>3, <1>4, <1>5, <1>7 DEF M

\* What local_search returns: cut, scored, sorted, and cut again.
LEMMA LocalSearchShows ==
    ASSUME NEW Dom, NEW Coll, NEW index \in Seq(AnyHit(Dom, Coll)), NEW coll,
           NEW cfg \in Config(Dom), NEW limit \in Nat
    PROVE  \E o, p, r, t : Shows(index, coll, cfg, limit, o, p, r, t)
<1> DEFINE M == Matches(index, coll)
           m == Cardinality(M)
           f == [i \in M |-> index[i].bm25]
           o == Ordered(f)
           raw == Truncate(o, 4 * limit)
           r == Len(raw)
           scored == [k \in DOMAIN raw |-> [doc |-> raw[k], score |-> Score(index[raw[k]], cfg)]]
           b == ByScore(scored)
           res == Truncate(b, limit)
           t == Len(res)
           R == [doc : M, score : Int]
           sc(k) == Score(index[o[k]], cfg)
<1>1. /\ IsFiniteSet(M) /\ Scores(M, f)
      /\ \A i \in M : index[i] \in AnyHit(Dom, Coll) /\ f[i] = index[i].bm25 /\ f[i] \in Int
  BY MatchScores
<1>2. LocalSearch(index, coll, cfg, limit) = res
  BY DEF LocalSearch, SearchWithSnippets
<1> HIDE DEF M, f
<1>3. /\ m \in Nat /\ o \in Seq(M) /\ Len(o) = m /\ o \in [1..m -> M]
      /\ \A k \in 1..m : o[k] \in M
      /\ \A j, k \in 1..m : Before(f, o[j], o[k]) <=> j < k
      /\ \A j, k \in 1..m : o[j] = o[k] => j = k
      /\ \A i \in M : \E k \in 1..m : o[k] = i
  BY <1>1, OrderedFacts
<1> HIDE DEF o, m
<1>4. \A j, k \in 1..m : j < k => index[o[j]].bm25 >= index[o[k]].bm25
  <2> SUFFICES ASSUME NEW j \in 1..m, NEW k \in 1..m, j < k
               PROVE  index[o[j]].bm25 >= index[o[k]].bm25
    OBVIOUS
  <2>1. Before(f, o[j], o[k]) /\ o[j] \in M /\ o[k] \in M
    BY <1>3
  <2>2. f[o[j]] >= f[o[k]]
    BY <1>1, <2>1 DEF Before
  <2> QED BY <1>1, <2>1, <2>2
<1>5. /\ raw \in Seq(M) /\ r \in Nat /\ DOMAIN raw = 1..r
      /\ r = (IF m < 4 * limit THEN m ELSE 4 * limit) /\ r <= m
      /\ \A k \in 1..r : raw[k] = o[k]
  <2>1. 4 * limit \in Nat
    OBVIOUS
  <2> QED BY <1>3, <2>1, TruncateFacts
<1> HIDE DEF raw, r
<1>6. \A k \in 1..r : o[k] \in M /\ sc(k) \in Int
  <2> SUFFICES ASSUME NEW k \in 1..r PROVE o[k] \in M /\ sc(k) \in Int
    OBVIOUS
  <2>1. o[k] \in M
    BY <1>3, <1>5
  <2>2. Score(index[o[k]], cfg) \in Nat
    BY <1>1, <2>1, ScoreFacts
  <2> QED BY <2>1, <2>2
<1>7. \A k \in 1..r : scored[k] = [doc |-> o[k], score |-> sc(k)]
  BY <1>5
<1> HIDE DEF sc
<1>71. \A k \in 1..r : scored[k] \in R /\ scored[k].score = sc(k) /\ scored[k].score \in Int
  <2> HIDE DEF scored
  <2>1. \A d \in M, x \in Int : LET v == [doc |-> d, score |-> x] IN v \in R /\ v.score = x
    OBVIOUS
  <2> HIDE DEF R
  <2> QED BY <1>6, <1>7, <2>1
<1>8. scored \in Seq(R) /\ Len(scored) = r
  <2>1. scored \in [1..r -> R]
    BY <1>5, <1>71
  <2> HIDE DEF scored, R
  <2> QED BY <1>5, <2>1
<1> HIDE DEF scored, R
<1>9. b \in Seq(R) /\ Len(b) = r /\ \E q : Sorts(b, scored, q, r)
  BY <1>71, <1>8, ByScoreFacts
<1>p. PICK p : Sorts(b, scored, p, r)
  BY <1>9
<1> HIDE DEF b
<1>10. /\ res \in Seq(R) /\ t \in Nat /\ DOMAIN res = 1..t
       /\ t = (IF r < limit THEN r ELSE limit) /\ t <= r
       /\ \A k \in 1..t : res[k] = b[k]
  BY <1>9, TruncateFacts
<1> HIDE DEF res
<1>11. t = IF m < limit THEN m ELSE limit
  <2> HIDE DEF t
  <2> QED BY <1>3, <1>5, <1>10
<1>12. /\ p \in [1..r -> 1..r] /\ \A k \in 1..r : p[k] \in 1..r /\ b[k] = scored[p[k]]
       /\ \A i \in 1..r : \E k \in 1..r : p[k] = i
       /\ \A j, k \in 1..r : p[j] = p[k] => j = k
  BY <1>p DEF Sorts
<1>13. \A j, k \in 1..r : j < k => sc(p[j]) >= sc(p[k])
  <2> SUFFICES ASSUME NEW j \in 1..r, NEW k \in 1..r, j < k PROVE sc(p[j]) >= sc(p[k])
    OBVIOUS
  <2>1. \/ scored[p[j]].score > scored[p[k]].score
        \/ scored[p[j]].score = scored[p[k]].score
    BY <1>p DEF Sorts
  <2>2. p[j] \in 1..r /\ p[k] \in 1..r
    BY <1>12
  <2>3. /\ scored[p[j]].score = sc(p[j]) /\ scored[p[k]].score = sc(p[k])
        /\ sc(p[j]) \in Int /\ sc(p[k]) \in Int
    BY <1>6, <1>71, <2>2
  <2> QED BY <2>1, <2>3
<1>14. \A k \in 1..t : res[k] = [doc |-> o[p[k]], score |-> sc(p[k])]
  <2> SUFFICES ASSUME NEW k \in 1..t PROVE res[k] = [doc |-> o[p[k]], score |-> sc(p[k])]
    OBVIOUS
  <2>1. k \in 1..r
    BY <1>5, <1>10
  <2>2. p[k] \in 1..r /\ b[k] = scored[p[k]]
    BY <1>12, <2>1
  <2>3. scored[p[k]] = [doc |-> o[p[k]], score |-> sc(p[k])]
    BY <1>7, <2>2
  <2> QED BY <1>10, <2>2, <2>3
<1> HIDE DEF t
<1>15. Shows(index, coll, cfg, limit, o, p, r, t)
  BY <1>1, <1>2, <1>3, <1>4, <1>5, <1>10, <1>11, <1>12, <1>13, <1>14 DEF Shows, M, m, R, t, sc
<1> QED BY <1>15

\* The list the engine shows is ranked well, for every index, collection,
\* configuration and limit.
THEOREM RankedForAll ==
    ASSUME NEW Dom, NEW Coll, NEW index \in Seq(AnyHit(Dom, Coll)), NEW coll,
           NEW cfg \in Config(Dom), NEW limit \in Nat
    PROVE  RankedWell(index, coll, cfg, limit)
<1> DEFINE M == Matches(index, coll)
           m == Cardinality(M)
           res == LocalSearch(index, coll, cfg, limit)
           shown == {res[k].doc : k \in DOMAIN res}
           atLeast(i) == {j \in M \ {i} : index[j].bm25 >= index[i].bm25}
           now(i) == [index[i] EXCEPT !.age = 0]
<1>0. PICK o, p, r, t : Shows(index, coll, cfg, limit, o, p, r, t)
  BY LocalSearchShows
<1> DEFINE sc(k) == Score(index[o[k]], cfg)
<1>1. /\ IsFiniteSet(M) /\ m \in Nat /\ r \in Nat /\ t \in Nat
      /\ r = (IF m < 4 * limit THEN m ELSE 4 * limit) /\ r <= m
      /\ t = (IF m < limit THEN m ELSE limit) /\ t <= r
  BY <1>0 DEF Shows
<1>2. /\ o \in [1..m -> M] /\ \A k \in 1..m : o[k] \in M
      /\ \A j, k \in 1..m : o[j] = o[k] => j = k
      /\ \A j, k \in 1..m : j < k => index[o[j]].bm25 >= index[o[k]].bm25
      /\ \A i \in M : \E k \in 1..m : o[k] = i
  BY <1>0 DEF Shows
<1>3. /\ \A k \in 1..r : p[k] \in 1..r
      /\ \A j, k \in 1..r : p[j] = p[k] => j = k
      /\ \A i \in 1..r : \E k \in 1..r : p[k] = i
      /\ \A j, k \in 1..r : j < k => sc(p[j]) >= sc(p[k])
  BY <1>0 DEF Shows
<1>4. Len(res) = t /\ DOMAIN res = 1..t
  BY <1>0 DEF Shows
<1>5. \A k \in 1..t : res[k].doc = o[p[k]] /\ res[k].score = sc(p[k])
  <2>1. \A k \in 1..t : res[k] = [doc |-> o[p[k]], score |-> sc(p[k])]
    BY <1>0 DEF Shows
  <2>2. ASSUME NEW v, NEW a, NEW b, v = [doc |-> a, score |-> b] PROVE v.doc = a /\ v.score = b
    BY <2>2
  <2> HIDE DEF res, sc
  <2> SUFFICES ASSUME NEW k \in 1..t PROVE res[k].doc = o[p[k]] /\ res[k].score = sc(p[k])
    OBVIOUS
  <2>3. res[k] = [doc |-> o[p[k]], score |-> sc(p[k])]
    BY <2>1
  <2> QED BY ONLY <2>2, <2>3
<1>6. \A k \in 1..t : k \in 1..r /\ p[k] \in 1..m /\ o[p[k]] \in M
  <2> SUFFICES ASSUME NEW k \in 1..t PROVE k \in 1..r /\ p[k] \in 1..m /\ o[p[k]] \in M
    OBVIOUS
  <2>1. k \in 1..r
    BY <1>1
  <2>2. p[k] \in 1..r
    BY <1>3, <2>1
  <2>3. p[k] \in 1..m
    BY <1>1, <2>2
  <2> QED BY <1>2, <2>1, <2>3
<1>7. \A i \in M : index[i] \in AnyHit(Dom, Coll) /\ index[i].bm25 \in Nat
  BY MatchScores
<1> DEFINE d == [k \in 1..t |-> o[p[k]]]
<1>8. shown = {d[k] : k \in 1..t} /\ shown = Values(d, t)
  BY <1>4, <1>5 DEF Values
<1>9. shown \subseteq M
  BY <1>6, <1>8
<1>10. Cardinality(shown) = Len(res)
  <2>1. d \in [1..t -> M]
    BY <1>6
  <2>2. ASSUME NEW j \in 1..t, NEW k \in 1..t, d[j] = d[k] PROVE j = k
    <3>1. o[p[j]] = o[p[k]]
      BY <2>2
    <3>2. p[j] = p[k]
      BY <3>1, <1>2, <1>6
    <3> QED BY <3>2, <1>3, <1>6
  <2> HIDE DEF d, shown, M
  <2>3. Cardinality(shown) = t
    <3>1. OneToOne(d, t)
      BY <2>2 DEF OneToOne
    <3> QED BY <1>1, <1>8, <2>1, <3>1, DistinctCount
  <2> QED BY <1>4, <2>3
<1>11. Len(res) = IF Cardinality(M) < limit THEN Cardinality(M) ELSE limit
  BY <1>1, <1>4
<1>12. ASSUME NEW i \in M \ shown, NEW k \in DOMAIN res, Score(index[i], cfg) > res[k].score
       PROVE  Cardinality(atLeast(i)) >= 4 * limit
  <2>1. PICK q \in 1..m : o[q] = i
    BY <1>2
  <2>2. k \in 1..t /\ k \in 1..r /\ res[k].score = sc(p[k])
    BY <1>4, <1>5, <1>6
  <2>3. CASE q <= r
    <3>1. q \in 1..r
      BY <1>1, <2>3
    <3>2. PICK j \in 1..r : p[j] = q
      BY <1>3, <3>1
    <3>3. j \notin 1..t
      <4> SUFFICES ASSUME j \in 1..t PROVE FALSE
        OBVIOUS
      <4>1. d[j] = i
        BY <2>1, <3>2
      <4> HIDE DEF d, shown
      <4> QED BY <1>8, <4>1
    <3>4. k < j
      BY <1>1, <2>2, <3>3
    <3>5. sc(p[k]) >= sc(p[j])
      BY <1>3, <2>2, <3>4
    <3>6. sc(p[j]) = Score(index[i], cfg)
      BY <2>1, <3>2
    <3>7. Score(index[i], cfg) \in Nat
      BY <1>7, ScoreFacts
    <3>8. sc(p[k]) \in Nat
      <4>1. o[p[k]] \in M
        BY <1>6, <2>2
      <4> QED BY <1>7, <4>1, ScoreFacts
    <3> HIDE DEF sc, res
    <3> QED BY <1>12, <2>2, <3>5, <3>6, <3>7, <3>8
  <2>4. CASE q > r
    <3> DEFINE e == [a \in 1..r |-> o[a]]
               E == {e[a] : a \in 1..r}
    <3>1. \A a \in 1..r : a \in 1..m
      BY <1>1
    <3>2. e \in [1..r -> M] /\ \A a, b \in 1..r : e[a] = e[b] => a = b
      BY <1>2, <3>1
    <3>3. Cardinality(E) = r
      <4>1. E = Values(e, r) /\ OneToOne(e, r)
        BY <3>2 DEF Values, OneToOne
      <4> HIDE DEF e, E, M
      <4> QED BY <1>1, <3>2, <4>1, DistinctCount
    <3>4. ASSUME NEW a \in 1..r PROVE e[a] \in atLeast(i)
      <4>1. a < q /\ a \in 1..m /\ e[a] = o[a]
        BY <1>1, <2>4, <3>1
      <4>2. o[a] \in M /\ o[a] # i /\ index[o[a]].bm25 >= index[i].bm25
        BY <1>2, <2>1, <4>1
      <4> QED BY <4>1, <4>2
    <3>5. E \in SUBSET atLeast(i)
      <4> HIDE DEF e, atLeast
      <4> QED BY <3>4
    <3>6. atLeast(i) \in SUBSET M
      OBVIOUS
    <3> HIDE DEF E, e, atLeast
    <3>7. IsFiniteSet(atLeast(i))
      BY <1>1, <3>6, FS_Subset
    <3>8. Cardinality(E) <= Cardinality(atLeast(i)) /\ Cardinality(atLeast(i)) \in Nat
      BY <3>5, <3>7, FS_Subset, FS_CardinalityType
    <3>9. r = 4 * limit
      BY <1>1, <2>4
    <3> QED BY <1>1, <3>3, <3>8, <3>9
  <2> QED BY <1>1, <2>3, <2>4
<1>13. \A i \in M : Score(index[i], cfg) <= Score(now(i), cfg)
  BY <1>7, ScoreFacts
<1> QED BY <1>9, <1>10, <1>11, <1>12, <1>13 DEF RankedWell

-----------------------------------------------------------------------------
(* Lists made of batches *)

\* Induction over the naturals, as the absence of a least counterexample.
LEMMA NatInd ==
    ASSUME NEW S, 0 \in S, \A n \in Nat : n \in S => n + 1 \in S
    PROVE  Nat \subseteq S
<1> SUFFICES ASSUME Nat \ S # {} PROVE FALSE
  OBVIOUS
<1> DEFINE R == OpToRel(<, Nat)
<1>1. IsWellFoundedOn(R, Nat)
  BY NatLessThanWellFounded
<1> HIDE DEF R
<1>2. PICK x \in Nat \ S : \A y \in Nat \ S : <<y, x>> \notin R
  <2>1. Nat \ S \subseteq Nat
    OBVIOUS
  <2> QED BY <1>1, <2>1, WFMin, Zenon
<1>3. x - 1 \in Nat /\ x - 1 < x
  BY <1>2
<1>4. <<x - 1, x>> \in R
  BY <1>3 DEF R, OpToRel
<1>5. x - 1 \in S
  BY <1>2, <1>3, <1>4
<1> QED BY <1>2, <1>3, <1>5

\* Induction over sequences, for a set of them.
LEMMA SeqInd ==
    ASSUME NEW S, NEW W, <<>> \in W, \A s \in Seq(S), x \in S : s \in W => Append(s, x) \in W
    PROVE  Seq(S) \subseteq W
<1> DEFINE N == {n \in Nat : \A s \in Seq(S) : Len(s) = n => s \in W}
<1>1. 0 \in N
  OBVIOUS
<1>2. ASSUME NEW n \in Nat, n \in N PROVE n + 1 \in N
  <2> SUFFICES ASSUME NEW s \in Seq(S), Len(s) = n + 1 PROVE s \in W
    OBVIOUS
  <2> DEFINE front == SubSeq(s, 1, n)
  <2>1. front \in Seq(S) /\ Len(front) = n /\ s[n + 1] \in S
    OBVIOUS
  <2>2. s = Append(front, s[n + 1])
    <3>1. /\ Append(front, s[n + 1]) \in Seq(S) /\ Len(Append(front, s[n + 1])) = n + 1
          /\ \A i \in 1..(n + 1) : Append(front, s[n + 1])[i] = s[i]
      BY <2>1
    <3> QED BY <3>1
  <2>3. front \in W
    BY <1>2, <2>1
  <2> HIDE DEF front
  <2> QED BY <2>1, <2>2, <2>3
<1> HIDE DEF N
<1>3. Nat \subseteq N
  BY <1>1, <1>2, NatInd
<1> SUFFICES ASSUME NEW s \in Seq(S) PROVE s \in W
  OBVIOUS
<1>4. Len(s) \in N
  BY <1>3
<1> QED BY <1>4 DEF N

\* The recursive definition inside FlattenSeq defines a function.
Flattens(f, s) == f = [i \in 1..Len(s) |-> IF i = 1 THEN s[i] ELSE f[i - 1] \o s[i]]

LEMMA FlattenRec ==
    ASSUME NEW S, NEW s \in Seq(S), s # <<>>
    PROVE  \E f : Flattens(f, s) /\ FlattenSeq(s) = f[Len(s)]
<1> DEFINE Join(v, i) == v \o s[i]
           Def(f, m) == f = [i \in 1..m |-> IF i = 1 THEN s[i] ELSE Join(f[i - 1], i)]
           M == {m \in Nat : \E f : Def(f, m)}
<1> HIDE DEF Join
<1>1. 0 \in M
  <2>1. Def([i \in 1..0 |-> s[i]], 0)
    OBVIOUS
  <2> QED BY <2>1
<1>2. ASSUME NEW m \in Nat, m \in M PROVE m + 1 \in M
  <2>1. PICK f : Def(f, m)
    BY <1>2
  <2> DEFINE g == [i \in 1..(m + 1) |-> IF i <= m THEN f[i] ELSE IF i = 1 THEN s[i] ELSE Join(f[m], i)]
  <2>2. ASSUME NEW i \in 1..(m + 1) PROVE g[i] = IF i = 1 THEN s[i] ELSE Join(g[i - 1], i)
    <3>1. CASE i = 1
      BY <2>1, <3>1
    <3>2. CASE i # 1 /\ i <= m
      <4>1. g[i] = f[i] /\ g[i - 1] = f[i - 1]
        BY <3>2
      <4>2. f[i] = Join(f[i - 1], i)
        BY <2>1, <3>2
      <4> HIDE DEF g
      <4> QED BY <3>2, <4>1, <4>2
    <3>3. CASE i # 1 /\ i = m + 1
      <4>1. g[i] = Join(f[m], i) /\ g[i - 1] = f[m]
        BY <3>3
      <4> HIDE DEF g
      <4> QED BY <3>3, <4>1
    <3> QED BY <3>1, <3>2, <3>3
  <2>3. Def(g, m + 1)
    BY <2>2
  <2>4. \E h : Def(h, m + 1)
    <3> HIDE DEF g, Def
    <3> QED BY <2>3
  <2> HIDE DEF Def
  <2> QED BY <2>4
<1> HIDE DEF M
<1>3. Nat \subseteq M
  BY <1>1, <1>2, NatInd
<1>4. \E f : Def(f, Len(s))
  <2> HIDE DEF Def
  <2>1. Len(s) \in Nat
    OBVIOUS
  <2> QED BY <1>3, <2>1 DEF M
<1>5. Len(s) # 0
  OBVIOUS
<1> QED BY <1>4, <1>5 DEF FlattenSeq, Flattens, Join

\* What FlattenSeq computes.
LEMMA FlattenFacts ==
    ASSUME NEW S
    PROVE  /\ FlattenSeq(<<>>) = <<>>
           /\ \A s \in Seq(Seq(S)) : FlattenSeq(s) \in Seq(S)
           /\ \A s \in Seq(Seq(S)), x \in Seq(S) : FlattenSeq(Append(s, x)) = FlattenSeq(s) \o x
<1>1. FlattenSeq(<<>>) = <<>>
  BY DEF FlattenSeq
<1>2. ASSUME NEW s \in Seq(Seq(S)), NEW x \in Seq(S)
      PROVE  FlattenSeq(Append(s, x)) = FlattenSeq(s) \o x
  <2> DEFINE t == Append(s, x)
             n == Len(s)
  <2>1. /\ n \in Nat /\ t \in Seq(Seq(S)) /\ Len(t) = n + 1 /\ t[n + 1] = x /\ t # <<>>
        /\ \A i \in 1..n : t[i] = s[i]
    OBVIOUS
  <2> HIDE DEF t
  <2>2. PICK g : Flattens(g, t) /\ FlattenSeq(t) = g[n + 1]
    BY <2>1, FlattenRec
  <2>3. CASE n = 0
    <3>1. s = <<>> /\ FlattenSeq(s) = <<>>
      BY <1>1, <2>3
    <3>2. g[n + 1] = x
      BY <2>1, <2>2, <2>3 DEF Flattens
    <3>3. <<>> \o x = x
      OBVIOUS
    <3> QED BY <2>2, <3>1, <3>2, <3>3 DEF t
  <2>4. CASE n # 0
    <3>1. s # <<>>
      BY <2>4
    <3>2. PICK f : Flattens(f, s) /\ FlattenSeq(s) = f[n]
      BY <3>1, FlattenRec
    <3> DEFINE A == {i \in Nat : i + 1 \in 1..n => f[i + 1] = g[i + 1]}
    <3>3. 0 \in A
      <4>1. f[1] = s[1] /\ g[1] = t[1]
        BY <2>1, <2>2, <2>4, <3>2 DEF Flattens
      <4> QED BY <2>1, <2>4, <4>1
    <3>4. ASSUME NEW i \in Nat, i \in A PROVE i + 1 \in A
      <4> SUFFICES ASSUME i + 1 + 1 \in 1..n PROVE f[i + 1 + 1] = g[i + 1 + 1]
        OBVIOUS
      <4>0. i + 1 \in 1..n /\ i + 1 + 1 # 1 /\ (i + 1 + 1) - 1 = i + 1 /\ i + 1 + 1 \in 1..(n + 1)
        BY <2>1
      <4>1. f[i + 1 + 1] = f[i + 1] \o s[i + 1 + 1]
        BY <3>2, <4>0 DEF Flattens
      <4>2. g[i + 1 + 1] = g[i + 1] \o t[i + 1 + 1]
        BY <2>1, <2>2, <4>0 DEF Flattens
      <4> QED BY <2>1, <3>4, <4>0, <4>1, <4>2
    <3> HIDE DEF A
    <3>5. Nat \subseteq A
      BY <3>3, <3>4, NatInd
    <3>6. n - 1 \in A /\ (n - 1) + 1 = n /\ n \in 1..n
      BY <2>1, <2>4, <3>5
    <3>7. f[n] = g[n]
      BY <3>6 DEF A
    <3>8. g[n + 1] = g[n] \o x
      <4>1. n + 1 \in 1..(n + 1) /\ n + 1 # 1 /\ (n + 1) - 1 = n
        BY <2>1, <2>4
      <4> QED BY <2>1, <2>2, <4>1 DEF Flattens
    <3> QED BY <2>2, <3>2, <3>7, <3>8 DEF t
  <2> QED BY <2>3, <2>4
<1>3. ASSUME NEW s \in Seq(Seq(S)) PROVE FlattenSeq(s) \in Seq(S)
  <2> DEFINE W == {r \in Seq(Seq(S)) : FlattenSeq(r) \in Seq(S)}
  <2>1. <<>> \in W
    <3>1. <<>> \in Seq(Seq(S)) /\ <<>> \in Seq(S)
      OBVIOUS
    <3> QED BY <1>1, <3>1
  <2>2. ASSUME NEW r \in Seq(Seq(S)), NEW x \in Seq(S), r \in W PROVE Append(r, x) \in W
    <3>1. FlattenSeq(Append(r, x)) = FlattenSeq(r) \o x /\ FlattenSeq(r) \in Seq(S)
      BY <1>2, <2>2
    <3>2. FlattenSeq(r) \o x \in Seq(S)
      BY <3>1
    <3>3. Append(r, x) \in Seq(Seq(S))
      OBVIOUS
    <3> QED BY <3>1, <3>2, <3>3
  <2> HIDE DEF W
  <2>3. Seq(Seq(S)) \subseteq W
    BY <2>1, <2>2, SeqInd
  <2> QED BY <2>3 DEF W
<1> QED BY <1>1, <1>2, <1>3

\* No element occurs twice, within a batch or in two of them.
Apart(bs) ==
    \A j, k \in DOMAIN bs : \A x \in DOMAIN bs[j], y \in DOMAIN bs[k] :
        bs[j][x] = bs[k][y] => j = k /\ x = y

\* Both halves of a concatenation keep their elements in their order.
LEMMA ConcatFacts ==
    ASSUME NEW S, NEW u \in Seq(S), NEW v \in Seq(S)
    PROVE  /\ u \o v \in Seq(S) /\ Len(u \o v) = Len(u) + Len(v)
           /\ \A k \in 1..Len(u) : (u \o v)[k] = u[k]
           /\ \A k \in 1..(Len(u) + Len(v)) : k > Len(u) => (u \o v)[k] = v[k - Len(u)]
OBVIOUS

\* Batches that are apart make one list without repetition, of their elements.
LEMMA FlattenApart ==
    ASSUME NEW S, NEW bs \in Seq(Seq(S)), Apart(bs)
    PROVE  /\ FlattenSeq(bs) \in Seq(S) /\ OneToOne(FlattenSeq(bs), Len(FlattenSeq(bs)))
<1> DEFINE T == Seq(S)
           F(b) == FlattenSeq(b)
           From(b) == \A i \in 1..Len(F(b)) : \E k \in DOMAIN b : \E y \in DOMAIN b[k] : F(b)[i] = b[k][y]
           W == {b \in Seq(T) : Apart(b) => OneToOne(F(b), Len(F(b))) /\ From(b)}
<1>0. /\ F(<<>>) = <<>>
      /\ \A s \in Seq(T) : F(s) \in Seq(S)
      /\ \A s \in Seq(T), x \in T : F(Append(s, x)) = F(s) \o x
  BY FlattenFacts
<1>1. <<>> \in W
  <2>1. <<>> \in Seq(T) /\ Len(F(<<>>)) = 0
    BY <1>0
  <2> QED BY <2>1 DEF OneToOne
<1>2. ASSUME NEW b \in Seq(T), NEW x \in T, b \in W PROVE Append(b, x) \in W
  <2> DEFINE c == Append(b, x)
             n == Len(b)
             u == F(b)
             w == u \o x
  <2>1. /\ n \in Nat /\ c \in Seq(T) /\ DOMAIN b = 1..n /\ DOMAIN c = 1..(n + 1)
        /\ c[n + 1] = x /\ \A k \in 1..n : c[k] = b[k]
    <3> HIDE DEF T
    <3> QED OBVIOUS
  <2>2. u \in Seq(S) /\ x \in Seq(S) /\ F(c) = w
    BY <1>0
  <2> HIDE DEF T, c, F
  <2> SUFFICES ASSUME Apart(c) PROVE OneToOne(F(c), Len(F(c))) /\ From(c)
    BY <2>1 DEF c
  <2>3. Apart(b)
    <3> SUFFICES ASSUME NEW j \in 1..n, NEW k \in 1..n, NEW p \in DOMAIN b[j], NEW q \in DOMAIN b[k],
                        b[j][p] = b[k][q]
                 PROVE  j = k /\ p = q
      BY <2>1 DEF Apart
    <3>1. j \in DOMAIN c /\ k \in DOMAIN c /\ c[j] = b[j] /\ c[k] = b[k]
      BY <2>1
    <3> QED BY <3>1 DEF Apart
  <2>4. OneToOne(u, Len(u)) /\ From(b)
    BY <1>2, <2>3
  <2>5. /\ w \in Seq(S) /\ Len(w) = Len(u) + Len(x) /\ Len(u) \in Nat /\ Len(x) \in Nat
        /\ \A k \in 1..Len(u) : w[k] = u[k]
        /\ \A k \in 1..(Len(u) + Len(x)) : k > Len(u) => w[k] = x[k - Len(u)]
        /\ DOMAIN x = 1..Len(x)
    BY <2>2, ConcatFacts
  <2> HIDE DEF w, u, n
  <2>6. ASSUME NEW i \in 1..Len(u)
        PROVE  \E k \in 1..n : \E y \in DOMAIN c[k] : w[i] = c[k][y]
    <3>1. PICK k \in DOMAIN b : \E y \in DOMAIN b[k] : u[i] = b[k][y]
      BY <2>4 DEF u
    <3> QED BY <2>1, <2>5, <3>1
  <2>7. ASSUME NEW i \in 1..Len(w), i > Len(u)
        PROVE  i - Len(u) \in DOMAIN x /\ w[i] = x[i - Len(u)]
    BY <2>5, <2>7
  <2>8. ASSUME NEW i \in 1..Len(w) PROVE \E k \in DOMAIN c : \E y \in DOMAIN c[k] : w[i] = c[k][y]
    <3>1. CASE i <= Len(u)
      <4>1. i \in 1..Len(u)
        BY <2>5, <3>1
      <4>2. PICK k \in 1..n : \E y \in DOMAIN c[k] : w[i] = c[k][y]
        BY <2>6, <4>1
      <4>3. k \in DOMAIN c
        BY <2>1
      <4> QED BY <4>2, <4>3
    <3>2. CASE i > Len(u)
      <4>1. n + 1 \in DOMAIN c /\ c[n + 1] = x
        BY <2>1
      <4> QED BY <2>7, <3>2, <4>1
    <3> QED BY <2>5, <3>1, <3>2
  <2>9. ASSUME NEW i \in 1..Len(w), NEW j \in 1..Len(w), w[i] = w[j], i <= Len(u), j > Len(u)
        PROVE  FALSE
    <3>1. i \in 1..Len(u)
      BY <2>5, <2>9
    <3>2. PICK k \in 1..n : \E y \in DOMAIN c[k] : w[i] = c[k][y]
      BY <2>6, <3>1
    <3>3. PICK y \in DOMAIN c[k] : w[i] = c[k][y]
      BY <3>2
    <3> DEFINE z == j - Len(u)
    <3>4. z \in DOMAIN x /\ w[j] = x[z]
      BY <2>7, <2>9
    <3>5. n + 1 \in DOMAIN c /\ k \in DOMAIN c /\ k # n + 1 /\ c[n + 1] = x
      BY <2>1
    <3> HIDE DEF z
    <3>6. c[k][y] = c[n + 1][z] /\ z \in DOMAIN c[n + 1]
      BY <2>9, <3>3, <3>4, <3>5
    <3>7. k = n + 1
      BY ONLY Apart(c), <3>5, <3>6, y \in DOMAIN c[k] DEF Apart
    <3> QED BY <3>5, <3>7
  <2>10. ASSUME NEW i \in 1..Len(w), NEW j \in 1..Len(w), w[i] = w[j] PROVE i = j
    <3>1. CASE i <= Len(u) /\ j <= Len(u)
      <4>1. i \in 1..Len(u) /\ j \in 1..Len(u)
        BY <2>5, <3>1
      <4>2. u[i] = u[j]
        BY <2>5, <2>10, <4>1
      <4> QED BY <2>4, <4>1, <4>2 DEF OneToOne
    <3>2. CASE i > Len(u) /\ j > Len(u)
      <4> DEFINE p == i - Len(u)
                 q == j - Len(u)
      <4>1. p \in DOMAIN x /\ q \in DOMAIN x /\ x[p] = x[q]
        BY <2>7, <2>10, <3>2
      <4>2. n + 1 \in DOMAIN c /\ c[n + 1] = x
        BY <2>1
      <4>3. p = q
        <5> HIDE DEF p, q
        <5> QED BY <4>1, <4>2 DEF Apart
      <4> QED BY <2>5, <4>3
    <3>3. CASE i <= Len(u) /\ j > Len(u)
      BY <2>9, <2>10, <3>3
    <3>4. CASE j <= Len(u) /\ i > Len(u)
      BY <2>9, <2>10, <3>4
    <3> QED BY <2>5, <3>1, <3>2, <3>3, <3>4
  <2> QED BY <2>2, <2>8, <2>10 DEF OneToOne
<1> HIDE DEF W
<1>3. Seq(T) \subseteq W
  <2> HIDE DEF T
  <2> QED BY <1>1, <1>2, SeqInd
<1>4. bs \in W
  BY <1>3
<1> QED BY <1>0, <1>4 DEF W

-----------------------------------------------------------------------------
(* Answers *)

\* The results of a batch carry its source, and none is there twice.
Result == [source : {LocalSource} \cup (Url \X Remote), doc : Nat, score : Int]
GoodBatch(b) ==
    /\ b.results \in Seq(Result) /\ OneToOne(b.results, Len(b.results))
    /\ \A k \in 1..Len(b.results) : b.results[k].source = b.source
ResultsOK == \A s \in Slot : \A k \in DOMAIN search[s].out : GoodBatch(search[s].out[k])

\* Results with distinct documents make a good batch under any source.
LEMMA TaggedGood ==
    ASSUME NEW src \in {LocalSource} \cup (Url \X Remote), NEW rs, NEW n \in Nat, DOMAIN rs = 1..n,
           \A k \in 1..n : rs[k].doc \in Nat /\ rs[k].score \in Int,
           \A j, k \in 1..n : rs[j].doc = rs[k].doc => j = k
    PROVE  GoodBatch(Batch(src, Tagged(src, rs)))
<1> DEFINE t == Tagged(src, rs)
           b == Batch(src, t)
<1>1. b.source = src /\ b.results = t
  BY DEF Batch
<1>2. t = [k \in 1..n |-> [source |-> src, doc |-> rs[k].doc, score |-> rs[k].score]]
  BY DEF Tagged
<1>3. ASSUME NEW k \in 1..n
      PROVE  t[k] \in Result /\ t[k].source = src /\ t[k].doc = rs[k].doc
  <2> DEFINE d == rs[k].doc
             x == rs[k].score
  <2>1. t[k] = [source |-> src, doc |-> d, score |-> x] /\ d \in Nat /\ x \in Int
    BY <1>2
  <2> HIDE DEF d, x, t
  <2>2. t[k] \in Result /\ t[k].source = src /\ t[k].doc = d
    BY <2>1 DEF Result
  <2> QED BY <2>2 DEF d
<1>4. t \in [1..n -> Result]
  BY <1>2, <1>3
<1> HIDE DEF t, b
<1>5. t \in Seq(Result) /\ Len(t) = n
  BY <1>4
<1>6. OneToOne(t, n)
  BY <1>3 DEF OneToOne
<1> QED BY <1>1, <1>3, <1>5, <1>6 DEF GoodBatch, b, t

\* The engine's own results are a good batch, those of a refused query included.
LEMMA LocalGood ==
    ASSUME NEW rq \in Request
    PROVE  GoodBatch(Batch(LocalSource, LocalResults(rq)))
<1>1. CASE rq.query = "fine"
  <2>1. Index \in Seq(AnyHit(STRING, STRING)) /\ SEARCH_LIMIT \in Nat
    BY ResultsAssumption DEF AnyHit
  <2>2. ConfigFor \in Config(STRING)
    BY DEF ConfigFor, DefaultFor, Config
  <2> DEFINE M == Matches(Index, "any")
             m == Cardinality(M)
  <2>3. PICK o, p, r, t : Shows(Index, "any", ConfigFor, SEARCH_LIMIT, o, p, r, t)
    BY <2>1, <2>2, LocalSearchShows
  <2>4. /\ M \subseteq Nat /\ m \in Nat /\ r \in Nat /\ t \in Nat /\ r <= m /\ t <= r
    <3>1. M \subseteq Nat
      BY <2>1, MatchScores DEF Scores
    <3> QED BY <2>3, <3>1 DEF Shows
  <2>5. /\ DOMAIN LocalHits = 1..t /\ LocalHits \in Seq([doc : M, score : Int]) /\ Len(LocalHits) = t
        /\ \A k \in 1..t : LocalHits[k] = [doc |-> o[p[k]], score |-> Score(Index[o[p[k]]], ConfigFor)]
    BY <2>3 DEF Shows, LocalHits
  <2>6. /\ \A k \in 1..r : p[k] \in 1..r
        /\ \A j, k \in 1..m : o[j] = o[k] => j = k
        /\ \A j, k \in 1..r : p[j] = p[k] => j = k
    BY <2>3 DEF Shows
  <2> HIDE DEF M, m
  <2>7. \A k \in 1..t : LocalHits[k] \in [doc : M, score : Int]
    BY <2>5
  <2>8. \A k \in 1..t : LocalHits[k].doc \in Nat /\ LocalHits[k].score \in Int
    BY <2>4, <2>7
  <2>9. ASSUME NEW j \in 1..t, NEW k \in 1..t, LocalHits[j].doc = LocalHits[k].doc PROVE j = k
    <3>1. LocalHits[j].doc = o[p[j]] /\ LocalHits[k].doc = o[p[k]]
      BY <2>5
    <3>2. j \in 1..r /\ k \in 1..r
      BY <2>4
    <3>3. p[j] \in 1..r /\ p[k] \in 1..r
      BY <2>6, <3>2
    <3>4. p[j] \in 1..m /\ p[k] \in 1..m
      BY <2>4, <3>3
    <3>5. p[j] = p[k]
      BY <2>6, <2>9, <3>1, <3>4
    <3> QED BY <2>6, <3>2, <3>5
  <2>10. GoodBatch(Batch(LocalSource, Tagged(LocalSource, LocalHits)))
    BY <2>4, <2>5, <2>8, <2>9, TaggedGood
  <2> QED BY <1>1, <2>10 DEF LocalResults
<1>2. CASE rq.query # "fine"
  <2>1. LocalResults(rq) = <<>>
    BY <1>2 DEF LocalResults
  <2>2. <<>> \in Seq(Result) /\ Len(<<>>) = 0
    OBVIOUS
  <2> QED BY <2>1, <2>2 DEF GoodBatch, Batch, OneToOne
<1> QED BY <1>1, <1>2

\* So is the answer of a peer.
LEMMA PeerGood ==
    ASSUME NEW c \in Call
    PROVE  GoodBatch(Batch(Source(c), PeerResults(c)))
<1> DEFINE ps == PeerScores[c.url]
           w == Weight[c.url]
           n == Len(ps)
           rs == [k \in DOMAIN ps |-> [doc |-> k, score |-> ps[k] * w]]
<1>1. c.url \in Url /\ c.remote \in Remote
  BY DEF Call
<1>2. ps \in Seq(Int) /\ w \in Int
  BY <1>1, ResultsAssumption
<1>3. Source(c) \in {LocalSource} \cup (Url \X Remote)
  BY <1>1 DEF Source
<1>4. PeerResults(c) = Tagged(Source(c), rs)
  BY DEF PeerResults
<1> HIDE DEF ps, w
<1>5. n \in Nat /\ DOMAIN ps = 1..n /\ \A k \in 1..n : ps[k] \in Int
  BY <1>2
<1>6. \A k \in 1..n : ps[k] * w \in Int
  BY <1>2, <1>5
<1> HIDE DEF n
<1>7. DOMAIN rs = 1..n /\ \A k \in 1..n : rs[k].doc = k /\ rs[k].score = ps[k] * w
  BY <1>5
<1> HIDE DEF rs
<1>8. \A k \in 1..n : rs[k].doc \in Nat /\ rs[k].score \in Int
  BY <1>5, <1>6, <1>7
<1> QED BY <1>3, <1>4, <1>5, <1>7, <1>8, TaggedGood

\* A step of one search that leaves good batches in its output.
LEMMA SlotResults ==
    ASSUME FInv, ResultsOK, NEW s \in Slot, NEW y, search' = [search EXCEPT ![s] = y],
           \A k \in DOMAIN y.out : GoodBatch(y.out[k])
    PROVE  ResultsOK'
<1>1. search'[s] = y /\ \A t \in Slot \ {s} : search'[t] = search[t]
  BY DEF FInv, SearchesOK
<1>2. ASSUME NEW t \in Slot, NEW k \in DOMAIN search'[t].out PROVE GoodBatch(search'[t].out[k])
  BY <1>1 DEF ResultsOK
<1> QED BY <1>2 DEF ResultsOK

LEMMA IdleHasNothing == DOMAIN Idle.out = {}
BY DEF Idle

\* A new search has the local batch only.
LEMMA SearchResults ==
    ASSUME FInv, ResultsOK, NEW s \in Slot, NEW rq \in Request, Search(s, rq)
    PROVE  ResultsOK'
<1> DEFINE L == IF DepthOf(rq) > 0 THEN ActiveCollectionPeers ELSE {}
           b == Batch(LocalSource, LocalResults(rq))
           y == [busy |-> TRUE, json |-> wants_json(rq), calls |-> L, out |-> <<b>>,
                 listed |-> L, failed |-> {}, late |-> FALSE]
<1>1. search' = [search EXCEPT ![s] = y]
  BY DEF Search
<1>2. GoodBatch(b)
  BY LocalGood
<1> HIDE DEF b, L
<1>3. y.out = <<b>>
  OBVIOUS
<1> HIDE DEF y
<1>4. \A k \in DOMAIN y.out : y.out[k] = b
  BY <1>3
<1> QED BY <1>1, <1>2, <1>4, SlotResults

\* An outcome adds the batch of one peer or nothing.
LEMMA OutcomeResults ==
    ASSUME FInv, ResultsOK, NEW s \in Slot, NEW c \in search[s].calls, NEW ok \in BOOLEAN,
           Outcome(s, c, ok)
    PROVE  ResultsOK'
<1> DEFINE x == search[s]
           b == Batch(Source(c), PeerResults(c))
           o == IF ok THEN Append(x.out, b) ELSE x.out
           f == IF ok THEN x.failed ELSE x.failed \cup {c}
           y == [x EXCEPT !.calls = CallsAfter(s, c, ok), !.failed = f, !.out = o]
<1>1. search' = [search EXCEPT ![s] = y]
  BY DEF Outcome
<1>2. WellFormed(x) /\ x.busy /\ Gathered(x)
  BY DEF FInv, SearchesOK, WellFormed
<1>3. GoodBatch(b)
  <2>1. c \in Call
    BY <1>2 DEF WellFormed
  <2> QED BY <2>1, PeerGood
<1>4. \A k \in DOMAIN x.out : GoodBatch(x.out[k])
  BY DEF ResultsOK
<1>5. PICK S : x.out \in Seq(S)
  BY <1>2 DEF Gathered
<1>6. Fields(x)
  BY <1>2 DEF WellFormed
<1> HIDE DEF b, x
<1>7. \A k \in DOMAIN o : GoodBatch(o[k])
  <2>1. CASE ok
    <3> DEFINE w == Append(x.out, b)
    <3>1. x.out \in Seq(S \cup {b}) /\ b \in S \cup {b}
      BY <1>5
    <3>2. /\ Len(x.out) \in Nat /\ DOMAIN x.out = 1..Len(x.out)
          /\ DOMAIN w = 1..(Len(x.out) + 1) /\ w[Len(x.out) + 1] = b
          /\ \A k \in 1..Len(x.out) : w[k] = x.out[k]
      BY <3>1
    <3>3. o = w
      BY <2>1
    <3> HIDE DEF w, o
    <3>4. ASSUME NEW k \in DOMAIN w PROVE GoodBatch(w[k])
      BY <1>3, <1>4, <3>2
    <3> QED BY <3>3, <3>4
  <2>2. CASE ~ok
    BY <1>4, <2>2
  <2> QED BY <2>1, <2>2
<1> HIDE DEF o, f
<1>8. y.out = o
  <2>1. x = [busy |-> x.busy, json |-> x.json, calls |-> x.calls, out |-> x.out,
             listed |-> x.listed, failed |-> x.failed, late |-> x.late]
    BY <1>6 DEF Fields
  <2>2. "out" \in DOMAIN x
    BY <2>1
  <2> QED BY <2>2
<1> HIDE DEF y
<1> QED BY <1>1, <1>7, <1>8, SlotResults

LEMMA DeadlineResults ==
    ASSUME FInv, ResultsOK, NEW s \in Slot, Deadline(s)
    PROVE  ResultsOK'
<1> DEFINE x == search[s]
           y == [x EXCEPT !.calls = {}, !.late = TRUE]
<1>1. search' = [search EXCEPT ![s] = y]
  BY DEF Deadline
<1>2. Fields(x)
  BY DEF FInv, SearchesOK, WellFormed
<1>3. \A k \in DOMAIN x.out : GoodBatch(x.out[k])
  BY DEF ResultsOK
<1> HIDE DEF x
<1>4. y = [busy |-> x.busy, json |-> x.json, calls |-> {}, out |-> x.out,
           listed |-> x.listed, failed |-> x.failed, late |-> TRUE]
  BY <1>2, DeadlineFields
<1> HIDE DEF y
<1>5. y.out = x.out
  BY <1>4
<1> QED BY <1>1, <1>3, <1>5, SlotResults

\* Every batch of a search is a list of results of its source.
LEMMA ResultsInvariance == Spec => []ResultsOK
<1>1. Init => ResultsOK
  BY IdleHasNothing DEF Init, ResultsOK
<1>2. FInv /\ ResultsOK /\ [Next]_vars => ResultsOK'
  <2> SUFFICES ASSUME FInv, ResultsOK, [Next]_vars PROVE ResultsOK'
    OBVIOUS
  <2>1. CASE UNCHANGED search
    BY <2>1 DEF ResultsOK
  <2>2. ASSUME NEW s \in Slot, NEW rq \in Request, Search(s, rq) PROVE ResultsOK'
    BY <2>2, SearchResults
  <2>3. ASSUME NEW s \in Slot, SearchStep(s) PROVE ResultsOK'
    <3>1. CASE Finish(s)
      BY <3>1, IdleHasNothing, SlotResults DEF Finish
    <3> QED BY <2>3, <3>1, OutcomeResults, DeadlineResults DEF SearchStep
  <2>4. CASE Restart
    BY <2>4, IdleHasNothing DEF Restart, ResultsOK
  <2>5. Admin \/ SweepStep \/ (\E u \in Url : Flip(u)) \/ UNCHANGED vars => UNCHANGED search
    BY DEF Admin, AddPeer, PromoteDiscovered, DeletePeer, UpdatePeer, Subscribe, Unsubscribe,
           SweepStep, SweepStart, SweepProbe, SweepEnd, Flip, vars
  <2> QED BY <2>1, <2>2, <2>3, <2>4, <2>5 DEF Next
<1> QED BY <1>1, <1>2, FederationInvariance, PTL DEF Spec

\* The batches of a search make one list, in which nothing is twice.
LEMMA GatheredApart ==
    ASSUME NEW x, Gathered(x), \A k \in DOMAIN x.out : GoodBatch(x.out[k]),
           NEW bs, bs = [k \in DOMAIN x.out |-> x.out[k].results]
    PROVE  bs \in Seq(Seq(Result)) /\ Apart(bs)
<1> DEFINE n == Len(x.out)
           T == Seq(Result)
<1>1. n \in Nat /\ DOMAIN x.out = 1..n
  BY DEF Gathered
<1>2. \A k \in 1..n : bs[k] = x.out[k].results /\ bs[k] \in T
  BY <1>1 DEF GoodBatch
<1>3. DOMAIN bs = 1..n
  BY <1>1
<1>4. bs \in Seq(T)
  <2> HIDE DEF T, n
  <2>1. bs \in [1..n -> T]
    BY <1>1, <1>2, <1>3
  <2> QED BY <1>1, <2>1
<1>5. ASSUME NEW j \in 1..n, NEW k \in 1..n, NEW p \in DOMAIN bs[j], NEW q \in DOMAIN bs[k],
             bs[j][p] = bs[k][q]
      PROVE  j = k /\ p = q
  <2>1. GoodBatch(x.out[j]) /\ GoodBatch(x.out[k])
    BY <1>1
  <2>2. p \in 1..Len(bs[j]) /\ q \in 1..Len(bs[k])
    <3>1. DOMAIN bs[j] = 1..Len(bs[j]) /\ DOMAIN bs[k] = 1..Len(bs[k])
      BY <1>2
    <3> QED BY <3>1
  <2>3. bs[j][p].source = x.out[j].source /\ bs[k][q].source = x.out[k].source
    BY <1>2, <2>1, <2>2 DEF GoodBatch
  <2>4. j = k
    BY <1>1, <1>5, <2>3 DEF Gathered
  <2>5. OneToOne(bs[j], Len(bs[j]))
    BY <1>2, <2>1 DEF GoodBatch
  <2> QED BY <1>5, <2>2, <2>4, <2>5 DEF OneToOne
<1> HIDE DEF n
<1>6. Apart(bs)
  BY ONLY <1>3, <1>5 DEF Apart
<1> QED BY <1>4, <1>6

\* The list a is the list all, best score first, ties in the order of all.
Place(all, r) == CHOOSE k \in DOMAIN all : all[k] = r
RankedList(a, all) ==
    /\ Len(a) = Len(all) /\ Range(a) = Range(all)
    /\ \A i, j \in DOMAIN a : i < j =>
         \/ a[i].score > a[j].score
         \/ a[i].score = a[j].score /\ Place(all, a[i]) < Place(all, a[j])

\* Sorting a list without repetition makes such a list.
LEMMA AnswerSorted ==
    ASSUME NEW S, NEW all \in Seq(S), \A k \in 1..Len(all) : all[k].score \in Int,
           OneToOne(all, Len(all)), NEW a, a = ByScore(all)
    PROVE  RankedList(a, all)
<1> DEFINE n == Len(all)
           place(r) == Place(all, r)
<1>1. n \in Nat /\ DOMAIN all = 1..n
  OBVIOUS
<1>2. a \in Seq(S) /\ Len(a) = n /\ \E q : Sorts(a, all, q, n)
  BY ByScoreFacts
<1>3. PICK p : Sorts(a, all, p, n)
  BY <1>2
<1>4. DOMAIN a = 1..n
  BY <1>2
<1>5. \A k \in 1..n : p[k] \in 1..n /\ a[k] = all[p[k]]
  BY <1>3 DEF Sorts
<1>6. \A i \in 1..n : \E k \in 1..n : p[k] = i
  BY <1>3 DEF Sorts
<1>7. Range(a) = Range(all)
  <2> HIDE DEF n
  <2>1. ASSUME NEW k \in 1..n PROVE a[k] \in {all[i] : i \in 1..n}
    BY ONLY <1>5, k \in 1..n
  <2>2. ASSUME NEW i \in 1..n PROVE all[i] \in {a[k] : k \in 1..n}
    BY ONLY <1>5, <1>6, i \in 1..n
  <2> QED BY ONLY <1>1, <1>4, <2>1, <2>2 DEF Range
<1>8. ASSUME NEW k \in 1..n PROVE place(a[k]) = p[k]
  <2>1. p[k] \in DOMAIN all /\ all[p[k]] = a[k]
    BY <1>1, <1>5
  <2>2. place(a[k]) \in DOMAIN all /\ all[place(a[k])] = a[k]
    BY <2>1 DEF Place
  <2> HIDE DEF place
  <2> QED BY <1>1, <2>1, <2>2 DEF OneToOne
<1> HIDE DEF place
<1>9. ASSUME NEW i \in 1..n, NEW j \in 1..n, i < j
      PROVE  a[i].score > a[j].score \/ (a[i].score = a[j].score /\ place(a[i]) < place(a[j]))
  <2>1. \/ all[p[i]].score > all[p[j]].score
        \/ all[p[i]].score = all[p[j]].score /\ p[i] < p[j]
    BY <1>3, <1>9 DEF Sorts
  <2> QED BY <1>5, <1>8, <2>1
<1> HIDE DEF n
<1>10. \A i, j \in DOMAIN a : i < j =>
         a[i].score > a[j].score \/ (a[i].score = a[j].score /\ place(a[i]) < place(a[j]))
  BY ONLY <1>4, <1>9
<1> QED BY ONLY <1>2, <1>7, <1>10 DEF RankedList, place, n

\* The indexes and configurations of RankedAlways are among those of RankedForAll.
LEMMA SmallIsRanked == RankedAlways
<1> SUFFICES ASSUME NEW index \in [1..5 -> SmallHits], NEW cfg \in SmallConfigs,
                    NEW coll \in {"any", "c"}
             PROVE  RankedWell(index, coll, cfg, 1)
  BY DEF RankedAlways
<1> DEFINE D == {"d", "e"}
           C == {"c", "o"}
<1>1. SmallHits \subseteq AnyHit(D, C)
  BY DEF SmallHits, AnyHit, Hit
<1>2. index \in Seq(AnyHit(D, C))
  <2>1. index \in [1..5 -> AnyHit(D, C)]
    BY <1>1
  <2>2. ASSUME NEW S, NEW n \in Nat, NEW f \in [1..n -> S] PROVE f \in Seq(S)
    OBVIOUS
  <2> HIDE DEF D, C
  <2>3. 5 \in Nat
    OBVIOUS
  <2> QED BY ONLY <2>1, <2>2, <2>3
<1>3. cfg \in Config(D)
  BY DEF SmallConfigs, Config
<1> QED BY <1>2, <1>3, RankedForAll

\* The JSON answer is one ranked list of everything gathered, with ties in the
\* order of arrival and the engine's own first, for any index, any peers and any
\* scores and weights, in whatever order the outcomes came in.
THEOREM AnswersAreRanked == Spec => []AnswerRanked
<1>1. FInv /\ ResultsOK => AnswerRanked
  <2> SUFFICES ASSUME FInv, ResultsOK, NEW s \in Slot, Done(s)
               PROVE  LET a == Answer(s)
                          all == FlattenSeq([k \in DOMAIN search[s].out |-> search[s].out[k].results])
                          place(r) == CHOOSE k \in DOMAIN all : all[k] = r
                      IN  /\ Len(a) = Len(all) /\ Range(a) = Range(all)
                          /\ \A i, j \in DOMAIN a : i < j =>
                               \/ a[i].score > a[j].score
                               \/ a[i].score = a[j].score /\ place(a[i]) < place(a[j])
    BY SmallIsRanked DEF AnswerRanked
  <2> DEFINE x == search[s]
             bs == [k \in DOMAIN x.out |-> x.out[k].results]
             all == FlattenSeq(bs)
  <2>1. Gathered(x) /\ \A k \in DOMAIN x.out : GoodBatch(x.out[k])
    BY DEF FInv, SearchesOK, ResultsOK, Done
  <2>2. bs \in Seq(Seq(Result)) /\ Apart(bs)
    BY <2>1, GatheredApart
  <2>3. Answer(s) = ByScore(all)
    BY DEF Answer
  <2> HIDE DEF bs
  <2>4. all \in Seq(Result) /\ OneToOne(all, Len(all))
    BY <2>2, FlattenApart
  <2> HIDE DEF all
  <2>5. \A k \in 1..Len(all) : all[k] \in Result
    BY <2>4
  <2>6. \A k \in 1..Len(all) : all[k].score \in Int
    BY <2>5 DEF Result
  <2>7. RankedList(Answer(s), all)
    BY <2>3, <2>4, <2>6, AnswerSorted
  <2> QED BY <2>7 DEF RankedList, Place, all, bs
<1> QED BY <1>1, FederationInvariance, ResultsInvariance, PTL

=============================================================================
