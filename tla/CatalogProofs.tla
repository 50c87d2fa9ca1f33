--------------------------- MODULE CatalogProofs ---------------------------
(***************************************************************************)
(* The catalogue stays sound for any names, prefixes, pages, hosts, peers  *)
(* and archives.                                                           *)
(*                                                                         *)
(* The argument is about databases: Good(d) says that the tables of d have *)
(* the constraints of the schema, every operation of Catalog makes a good  *)
(* database of a good one, and so does an import, by induction over the    *)
(* collections of the archive.  The same induction shows that an import    *)
(* only extends the database (Extends) and that its jobs cover the pages   *)
(* it brings.  None of it needs the foreign keys during an import; all of  *)
(* it needs them on again after it (CInv).                                 *)
(***************************************************************************)
EXTENDS Catalog, FiniteSetTheorems, WellFoundedInduction, TLAPS

-----------------------------------------------------------------------------
(* Induction, maxima, sequences of finite sets *)

\* Induction over the naturals, as the absence of a least counterexample.
LEMMA NatInd ==
    ASSUME NEW S, 0 \in S, \A n \in Nat : n \in S => n + 1 \in S
    PROVE  Nat \subseteq S
<1> SUFFICES ASSUME Nat \ S # {} PROVE FALSE
  OBVIOUS
<1> DEFINE R == OpToRel(<, Nat)
<1>1. IsWellFoundedOn(R, Nat)
  BY NatLessThanWellFounded
<1> HIDE DEF R
<1>2. PICK x \in Nat \ S : \A y \in Nat \ S : <<y, x>> \notin R
  <2>1. Nat \ S \subseteq Nat
    OBVIOUS
  <2> QED BY <1>1, <2>1, WFMin, Zenon
<1>3. x - 1 \in Nat /\ x - 1 < x
  BY <1>2
<1>4. <<x - 1, x>> \in R
  BY <1>3 DEF R, OpToRel
<1>5. x - 1 \in S
  BY <1>2, <1>3, <1>4
<1> QED BY <1>2, <1>3, <1>5

\* A finite set of numbers that is not empty has a greatest element, by induction
\* on its size.
LEMMA MaxExists ==
    ASSUME NEW S \in SUBSET Nat, IsFiniteSet(S), S # {}
    PROVE  \E x \in S : \A y \in S : x >= y
<1> DEFINE Top(T) == \E x \in T : \A y \in T : x >= y
           Small(T, n) == T \subseteq Nat /\ IsFiniteSet(T) /\ T # {} /\ Cardinality(T) = n
           N == {n \in Nat : \A T : Small(T, n) => Top(T)}
<1>1. 0 \in N
  <2> SUFFICES ASSUME NEW T, Small(T, 0) PROVE FALSE
    OBVIOUS
  <2> QED BY FS_EmptySet
<1>2. ASSUME NEW n \in Nat, n \in N PROVE n + 1 \in N
  <2> SUFFICES ASSUME NEW T, Small(T, n + 1) PROVE Top(T)
    OBVIOUS
  <2>1. PICK z \in T : TRUE
    OBVIOUS
  <2>2. IsFiniteSet(T \ {z}) /\ Cardinality(T \ {z}) = n /\ z \in Nat
    <3>1. /\ IsFiniteSet(T \ {z})
          /\ Cardinality(T \ {z}) = IF z \in T THEN Cardinality(T) - 1 ELSE Cardinality(T)
      BY FS_RemoveElement, Zenon
    <3> QED BY <2>1, <3>1
  <2>3. CASE T \ {z} = {}
    BY <2>1, <2>2, <2>3
  <2>4. CASE T \ {z} # {}
    <3>1. Small(T \ {z}, n)
      BY <2>2, <2>4
    <3>2. Top(T \ {z})
      <4> HIDE DEF Small, Top
      <4> QED BY <1>2, <3>1
    <3>3. PICK x \in T \ {z} : \A y \in T \ {z} : x >= y
      BY <3>2
    <3>4. x \in Nat /\ \A y \in T : y \in Nat
      BY <3>3
    <3>5. CASE x >= z
      BY <3>3, <3>5
    <3>6. CASE ~(x >= z)
      <4>1. \A y \in T : z >= y
        BY <2>2, <3>3, <3>4, <3>6
      <4> QED BY <2>1, <4>1
    <3> QED BY <3>5, <3>6
  <2> QED BY <2>3, <2>4
<1> HIDE DEF N
<1>3. Nat \subseteq N
  BY <1>1, <1>2, NatInd
<1>4. Cardinality(S) \in Nat
  BY FS_CardinalityType
<1> QED BY <1>3, <1>4 DEF N

\* SetToSeq lists a finite set: its elements and all of them.
LEMMA SetToSeqFacts ==
    ASSUME NEW S, IsFiniteSet(S)
    PROVE  /\ SetToSeq(S) \in Seq(S)
           /\ \A x \in S : \E k \in 1..Len(SetToSeq(S)) : SetToSeq(S)[k] = x
<1> DEFINE n == Cardinality(S)
           f == SetToSeq(S)
<1>1. n \in Nat /\ ExistsBijection(1..n, S)
  BY FS_CardinalityType
<1>2. \E g \in [1..n -> S] : IsInjective(g)
  BY <1>1 DEF ExistsBijection, Bijection, Injection
<1>3. f \in [1..n -> S] /\ IsInjective(f)
  BY <1>2 DEF SetToSeq
<1> HIDE DEF f
<1>4. f \in Injection(1..n, S)
  BY <1>3 DEF Injection
<1>5. f \in Surjection(1..n, S)
  <2>1. Cardinality(1..n) = n
    BY <1>1, FS_Interval
  <2> QED BY <1>4, <2>1, FS_Injection
<1>6. \A x \in S : \E k \in 1..n : f[k] = x
  BY <1>5 DEF Surjection
<1>7. f \in Seq(S) /\ Len(f) = n
  BY <1>1, <1>3
<1> QED BY <1>6, <1>7 DEF f

-----------------------------------------------------------------------------
(* Databases *)

Tables == {"coll", "tgt", "page", "rank", "outl", "peers", "subs", "next"}

CollRows(d) ==
    /\ IsFiniteSet(d.coll) /\ d.next \in Nat \ {0}
    /\ \A c \in d.coll : /\ {"row", "id", "name"} \subseteq DOMAIN c
                         /\ c.row \in Nat /\ c.id \in 1..(d.next - 1) /\ c.name \in Name
    /\ Unique(d.coll, LAMBDA c : c.name) /\ Unique(d.coll, LAMBDA c : c.row)

TgtRows(d) ==
    /\ \A t \in d.tgt : /\ {"coll", "prefix", "every", "delay"} \subseteq DOMAIN t
                        /\ t.coll \in IdsOf(d)
    /\ Unique(d.tgt, LAMBDA t : <<t.coll, t.prefix>>)

PageRows(d) ==
    /\ \A p \in d.page : /\ {"coll", "prefix", "url", "hash", "indexed"} \subseteq DOMAIN p
                         /\ \E t \in d.tgt : t.coll = p.coll /\ t.prefix = p.prefix
    /\ Unique(d.page, LAMBDA p : <<p.coll, p.url>>)

RankRows(d) == Unique(d.rank, LAMBDA k : k.row) /\ \A k \in d.rank : k.cfg # None

Verdict(o) == o.status \in Status /\ o.examples \in Seq(Example) /\ Len(o.examples) <= MAX_EXAMPLES

OutlRows(d) ==
    /\ \A o \in d.outl : /\ {"coll", "host", "count", "examples", "status"} \subseteq DOMAIN o
                         /\ o.coll \in IdsOf(d) /\ Verdict(o)
    /\ Unique(d.outl, LAMBDA o : <<o.coll, o.host>>)

PeerRows(d) ==
    /\ Unique(d.peers, LAMBDA p : p.url)
    /\ \A s \in d.subs : s.url \in PeerUrls(d)

IsDb(d) == DOMAIN d = Tables /\ d = [table \in Tables |-> d[table]]

Good(d) ==
    /\ IsDb(d)
    /\ CollRows(d) /\ TgtRows(d) /\ PageRows(d) /\ RankRows(d) /\ OutlRows(d) /\ PeerRows(d)

\* Each part depends on few tables.
LEMMA Frames ==
    ASSUME NEW d, NEW s, Good(d)
    PROVE  /\ s.coll = d.coll /\ s.next = d.next => CollRows(s)
           /\ s.tgt = d.tgt /\ IdsOf(d) \subseteq IdsOf(s) => TgtRows(s)
           /\ s.page = d.page /\ d.tgt \subseteq s.tgt => PageRows(s)
           /\ s.rank = d.rank => RankRows(s)
           /\ s.outl = d.outl /\ IdsOf(d) \subseteq IdsOf(s) => OutlRows(s)
           /\ s.peers = d.peers /\ s.subs = d.subs => PeerRows(s)
           /\ s.coll = d.coll => IdsOf(s) = IdsOf(d)
<1>1. s.coll = d.coll /\ s.next = d.next => CollRows(s)
  BY DEF Good, CollRows
<1>2. s.tgt = d.tgt /\ IdsOf(d) \subseteq IdsOf(s) => TgtRows(s)
  BY DEF Good, TgtRows
<1>3. s.page = d.page /\ d.tgt \subseteq s.tgt => PageRows(s)
  BY DEF Good, PageRows
<1>4. s.rank = d.rank => RankRows(s)
  BY DEF Good, RankRows
<1>5. s.outl = d.outl /\ IdsOf(d) \subseteq IdsOf(s) => OutlRows(s)
  BY DEF Good, OutlRows
<1>6. s.peers = d.peers /\ s.subs = d.subs => PeerRows(s)
  BY DEF Good, PeerRows, PeerUrls
<1>7. s.coll = d.coll => IdsOf(s) = IdsOf(d)
  BY DEF IdsOf
<1> QED BY <1>1, <1>2, <1>3, <1>4, <1>5, <1>6, <1>7

\* The rowid of the next collection is not in use.
LEMMA NextRowidFresh ==
    ASSUME NEW d, CollRows(d)
    PROVE  NextRowid(d) \in Nat /\ \A c \in d.coll : c.row # NextRowid(d)
<1> DEFINE S == {c.row : c \in d.coll}
<1>1. CASE d.coll = {}
  BY <1>1 DEF NextRowid
<1>2. CASE d.coll # {}
  <2>1. S \in SUBSET Nat /\ S # {}
    BY <1>2 DEF CollRows
  <2>2. IsFiniteSet(S)
    <3> DEFINE f == [c \in d.coll |-> c.row]
    <3>1. f \in Surjection(d.coll, S)
      BY DEF Surjection
    <3> QED BY <3>1, FS_Surjection DEF CollRows
  <2>3. \E x \in S : \A y \in S : x >= y
    BY <2>1, <2>2, MaxExists
  <2>4. Max(S) \in S /\ \A y \in S : Max(S) >= y
    BY <2>3 DEF Max
  <2>5. NextRowid(d) = 1 + Max(S)
    BY <1>2 DEF NextRowid
  <2>6. \A c \in d.coll : c.row \in S
    OBVIOUS
  <2> HIDE DEF S
  <2>7. Max(S) \in Nat /\ \A y \in S : y \in Nat
    BY <2>1, <2>4
  <2> QED BY <2>4, <2>5, <2>6, <2>7
<1> QED BY <1>1, <1>2

\* A collection of the next rowid and uuid, with a name nobody has.
LEMMA InsertGood ==
    ASSUME NEW d, Good(d), NEW name \in Name, name \notin NamesOf(d)
    PROVE  LET s == InsertCollection(d, name)
           IN  /\ Good(s)
               /\ s = [d EXCEPT !.coll = s.coll, !.next = s.next]
               /\ s.coll = d.coll \cup {[row |-> NextRowid(d), id |-> d.next, name |-> name]}
               /\ s.next = d.next + 1
               /\ IdsOf(s) = IdsOf(d) \cup {d.next} /\ d.next \notin IdsOf(d)
<1> DEFINE s == InsertCollection(d, name)
           new == [row |-> NextRowid(d), id |-> d.next, name |-> name]
<1>0. NextRowid(d) \in Nat /\ \A c \in d.coll : c.row # NextRowid(d)
  BY NextRowidFresh DEF Good
<1>1. /\ IsDb(s) /\ s.coll = d.coll \cup {new} /\ s.next = d.next + 1
      /\ s.tgt = d.tgt /\ s.page = d.page /\ s.rank = d.rank /\ s.outl = d.outl
      /\ s.peers = d.peers /\ s.subs = d.subs
      /\ s = [d EXCEPT !.coll = s.coll, !.next = s.next]
  BY DEF InsertCollection, Good, IsDb, Tables
<1>2. new.row = NextRowid(d) /\ new.id = d.next /\ new.name = name
      /\ {"row", "id", "name"} \subseteq DOMAIN new
  OBVIOUS
<1> HIDE DEF s, new
<1>3. /\ IsFiniteSet(d.coll) /\ d.next \in Nat \ {0}
      /\ \A c \in d.coll : /\ {"row", "id", "name"} \subseteq DOMAIN c
                           /\ c.row \in Nat /\ c.id \in 1..(d.next - 1) /\ c.name \in Name
      /\ Unique(d.coll, LAMBDA c : c.name) /\ Unique(d.coll, LAMBDA c : c.row)
  BY DEF Good, CollRows
<1>4. CollRows(s)
  <2>1. IsFiniteSet(d.coll \cup {new})
    BY <1>3, FS_AddElement, Zenon
  <2>2. \A c \in s.coll : /\ {"row", "id", "name"} \subseteq DOMAIN c
                          /\ c.row \in Nat /\ c.id \in 1..(s.next - 1) /\ c.name \in Name
    BY <1>0, <1>1, <1>2, <1>3
  <2>3. Unique(s.coll, LAMBDA c : c.name) /\ Unique(s.coll, LAMBDA c : c.row)
    BY <1>0, <1>1, <1>2, <1>3 DEF Unique, NamesOf
  <2> QED BY <1>1, <1>3, <2>1, <2>2, <2>3 DEF CollRows
<1>5. IdsOf(s) = IdsOf(d) \cup {d.next}
  BY <1>1, <1>2 DEF IdsOf
<1>6. d.next \notin IdsOf(d)
  BY <1>3 DEF IdsOf
<1>7. TgtRows(s) /\ PageRows(s) /\ RankRows(s) /\ OutlRows(s) /\ PeerRows(s)
  BY <1>1, <1>5, Frames
<1> QED BY <1>1, <1>4, <1>5, <1>6, <1>7 DEF Good, s, new

\* RenameCollection: rowid and uuid stay, so every reference does.
LEMMA RenameGood ==
    ASSUME NEW d, Good(d), NEW c \in d.coll, NEW name \in Name, name \notin NamesOf(d)
    PROVE  Good(update_item(d, c, name)) /\ update_item(d, c, name).outl = d.outl
           /\ update_item(d, c, name).page = d.page
<1> DEFINE s == update_item(d, c, name)
           new == [c EXCEPT !.name = name]
<1>1. /\ IsDb(s) /\ s.coll = (d.coll \ {c}) \cup {new} /\ s.next = d.next
      /\ s.tgt = d.tgt /\ s.page = d.page /\ s.rank = d.rank /\ s.outl = d.outl
      /\ s.peers = d.peers /\ s.subs = d.subs
  BY DEF update_item, Changed, Good, IsDb, Tables
<1>2. {"row", "id", "name"} \subseteq DOMAIN c
  BY DEF Good, CollRows
<1>3. new.row = c.row /\ new.id = c.id /\ new.name = name
      /\ {"row", "id", "name"} \subseteq DOMAIN new
  BY <1>2
<1> HIDE DEF s, new
<1>4. /\ IsFiniteSet(d.coll) /\ d.next \in Nat \ {0}
      /\ \A b \in d.coll : /\ {"row", "id", "name"} \subseteq DOMAIN b
                           /\ b.row \in Nat /\ b.id \in 1..(d.next - 1) /\ b.name \in Name
      /\ Unique(d.coll, LAMBDA b : b.name) /\ Unique(d.coll, LAMBDA b : b.row)
  BY DEF Good, CollRows
<1>5. CollRows(s)
  <2>1. IsFiniteSet(d.coll \ {c})
    BY <1>4, FS_RemoveElement, Zenon
  <2>2. IsFiniteSet((d.coll \ {c}) \cup {new})
    BY <2>1, FS_AddElement, Zenon
  <2>3. \A b \in s.coll : /\ {"row", "id", "name"} \subseteq DOMAIN b
                          /\ b.row \in Nat /\ b.id \in 1..(s.next - 1) /\ b.name \in Name
    BY <1>1, <1>3, <1>4
  <2>4. Unique(s.coll, LAMBDA b : b.name) /\ Unique(s.coll, LAMBDA b : b.row)
    BY <1>1, <1>3, <1>4 DEF Unique, NamesOf
  <2> QED BY <1>1, <1>4, <2>2, <2>3, <2>4 DEF CollRows
<1>6. IdsOf(d) \subseteq IdsOf(s)
  BY <1>1, <1>3 DEF IdsOf
<1>7. TgtRows(s) /\ PageRows(s) /\ RankRows(s) /\ OutlRows(s) /\ PeerRows(s)
  BY <1>1, <1>6, Frames
<1> QED BY <1>1, <1>5, <1>7 DEF Good, s

\* DeleteCollection with the foreign keys on: what refers to it goes.
LEMMA DeleteGood ==
    ASSUME NEW d, Good(d), NEW c \in d.coll, fk
    PROVE  /\ Good(delete_item(d, c)) /\ delete_item(d, c).outl \subseteq d.outl
           /\ delete_item(d, c).page \subseteq d.page
<1> DEFINE s == delete_item(d, c)
<1>1. /\ IsDb(s) /\ s.coll = d.coll \ {c} /\ s.next = d.next
      /\ s.tgt = {x \in d.tgt : x.coll # c.id} /\ s.page = {x \in d.page : x.coll # c.id}
      /\ s.outl = {x \in d.outl : x.coll # c.id} /\ s.rank = d.rank
      /\ s.peers = d.peers /\ s.subs = d.subs
  BY DEF delete_item, Good, IsDb, Tables
<1> HIDE DEF s
<1>2. CollRows(s)
  <2>1. IsFiniteSet(d.coll \ {c})
    BY FS_RemoveElement, Zenon DEF Good, CollRows
  <2>2. /\ d.next \in Nat \ {0}
        /\ \A b \in d.coll : /\ {"row", "id", "name"} \subseteq DOMAIN b
                             /\ b.row \in Nat /\ b.id \in 1..(d.next - 1) /\ b.name \in Name
        /\ Unique(d.coll, LAMBDA b : b.name) /\ Unique(d.coll, LAMBDA b : b.row)
    BY DEF Good, CollRows
  <2>3. Unique(s.coll, LAMBDA b : b.name) /\ Unique(s.coll, LAMBDA b : b.row)
    BY <1>1, <2>2 DEF Unique
  <2> QED BY <1>1, <2>1, <2>2, <2>3 DEF CollRows
<1>3. \A i \in IdsOf(d) : i # c.id => i \in IdsOf(s)
  BY <1>1 DEF IdsOf
<1>4. TgtRows(s)
  BY <1>1, <1>3 DEF Good, TgtRows, Unique
<1>5. PageRows(s)
  BY <1>1 DEF Good, PageRows, Unique
<1>6. OutlRows(s)
  BY <1>1, <1>3 DEF Good, OutlRows, Unique
<1>7. RankRows(s) /\ PeerRows(s)
  BY <1>1, Frames
<1> QED BY <1>1, <1>2, <1>4, <1>5, <1>6, <1>7 DEF Good, s

LEMMA RankingGood ==
    ASSUME NEW d, Good(d), NEW row, NEW cfg, cfg # None
    PROVE  /\ Good(upsert_ranking(d, row, cfg)) /\ upsert_ranking(d, row, cfg).outl = d.outl
           /\ upsert_ranking(d, row, cfg).page = d.page
<1> DEFINE s == upsert_ranking(d, row, cfg)
<1>1. /\ IsDb(s) /\ s.coll = d.coll /\ s.next = d.next
      /\ s.tgt = d.tgt /\ s.page = d.page /\ s.outl = d.outl
      /\ s.rank = {k \in d.rank : k.row # row} \cup {[row |-> row, cfg |-> cfg]}
      /\ s.peers = d.peers /\ s.subs = d.subs
  BY DEF upsert_ranking, Good, IsDb, Tables
<1> HIDE DEF s
<1>2. RankRows(s)
  BY <1>1 DEF Good, RankRows, Unique
<1>3. CollRows(s) /\ TgtRows(s) /\ PageRows(s) /\ OutlRows(s) /\ PeerRows(s)
  BY <1>1, Frames
<1> QED BY <1>1, <1>2, <1>3 DEF Good, s

\* crawl_targets::add for a collection that exists and has no such target.
LEMMA AddTargetGood ==
    ASSUME NEW d, Good(d), NEW id \in IdsOf(d), NEW prefix, NEW every,
           ~\E t \in d.tgt : t.coll = id /\ t.prefix = prefix
    PROVE  LET s == AddTargetRow(d, id, prefix, every)
           IN  Good(s) /\ s.outl = d.outl /\ s.page = d.page /\ s.coll = d.coll
<1> DEFINE s == AddTargetRow(d, id, prefix, every)
           new == [coll |-> id, prefix |-> prefix, every |-> every, delay |-> None]
<1>1. /\ IsDb(s) /\ s.coll = d.coll /\ s.next = d.next
      /\ s.tgt = d.tgt \cup {new} /\ s.page = d.page /\ s.outl = d.outl /\ s.rank = d.rank
      /\ s.peers = d.peers /\ s.subs = d.subs
  BY DEF AddTargetRow, Good, IsDb, Tables
<1>2. new.coll = id /\ new.prefix = prefix
      /\ {"coll", "prefix", "every", "delay"} \subseteq DOMAIN new
  OBVIOUS
<1> HIDE DEF s, new
<1>3. IdsOf(s) = IdsOf(d)
  BY <1>1, Frames
<1>4. TgtRows(s)
  <2>1. \A t \in s.tgt : /\ {"coll", "prefix", "every", "delay"} \subseteq DOMAIN t
                         /\ t.coll \in IdsOf(s)
    BY <1>1, <1>2, <1>3 DEF Good, TgtRows
  <2>2. Unique(s.tgt, LAMBDA t : <<t.coll, t.prefix>>)
    BY <1>1, <1>2 DEF Good, TgtRows, Unique
  <2> QED BY <2>1, <2>2 DEF TgtRows
<1>5. CollRows(s) /\ PageRows(s) /\ RankRows(s) /\ OutlRows(s) /\ PeerRows(s)
  BY <1>1, <1>3, Frames
<1> QED BY <1>1, <1>4, <1>5 DEF Good, s

\* crawl_targets::remove with the foreign keys on: the target's pages go.
LEMMA RemoveGood ==
    ASSUME NEW d, Good(d), NEW t \in d.tgt, fk
    PROVE  Good(remove(d, t)) /\ remove(d, t).outl = d.outl /\ remove(d, t).page \subseteq d.page
<1> DEFINE s == remove(d, t)
<1>1. /\ IsDb(s) /\ s.coll = d.coll /\ s.next = d.next
      /\ s.tgt = d.tgt \ {t} /\ s.page = d.page \ PagesUnder(d, t) /\ s.outl = d.outl
      /\ s.rank = d.rank /\ s.peers = d.peers /\ s.subs = d.subs
  BY DEF remove, Good, IsDb, Tables
<1> HIDE DEF s
<1>2. IdsOf(s) = IdsOf(d)
  BY <1>1, Frames
<1>3. TgtRows(s)
  BY <1>1, <1>2 DEF Good, TgtRows, Unique
<1>4. PageRows(s)
  <2>1. \A p \in s.page : /\ {"coll", "prefix", "url", "hash", "indexed"} \subseteq DOMAIN p
                          /\ \E u \in s.tgt : u.coll = p.coll /\ u.prefix = p.prefix
    BY <1>1 DEF Good, PageRows, PagesUnder
  <2>2. Unique(s.page, LAMBDA p : <<p.coll, p.url>>)
    BY <1>1 DEF Good, PageRows, Unique
  <2> QED BY <2>1, <2>2 DEF PageRows
<1>5. CollRows(s) /\ RankRows(s) /\ OutlRows(s) /\ PeerRows(s)
  BY <1>1, <1>2, Frames
<1> QED BY <1>1, <1>3, <1>4, <1>5 DEF Good, s

\* A target whose key stays may change otherwise.
LEMMA RetuneGood ==
    ASSUME NEW d, Good(d), NEW t \in d.tgt, NEW new,
           new.coll = t.coll, new.prefix = t.prefix, DOMAIN new = DOMAIN t,
           NEW s, s = [d EXCEPT !.tgt = Changed(@, t, new)]
    PROVE  Good(s) /\ s.outl = d.outl /\ s.page = d.page
<1>1. /\ IsDb(s) /\ s.coll = d.coll /\ s.next = d.next
      /\ s.tgt = (d.tgt \ {t}) \cup {new} /\ s.page = d.page /\ s.outl = d.outl
      /\ s.rank = d.rank /\ s.peers = d.peers /\ s.subs = d.subs
  BY DEF Changed, Good, IsDb, Tables
<1>2. IdsOf(s) = IdsOf(d)
  BY <1>1, Frames
<1>3. TgtRows(s)
  <2>1. \A u \in s.tgt : /\ {"coll", "prefix", "every", "delay"} \subseteq DOMAIN u
                         /\ u.coll \in IdsOf(s)
    BY <1>1, <1>2 DEF Good, TgtRows
  <2>2. Unique(s.tgt, LAMBDA u : <<u.coll, u.prefix>>)
    BY <1>1 DEF Good, TgtRows, Unique
  <2> QED BY <2>1, <2>2 DEF TgtRows
<1>4. PageRows(s)
  <2>1. \A p \in s.page : /\ {"coll", "prefix", "url", "hash", "indexed"} \subseteq DOMAIN p
                          /\ \E u \in s.tgt : u.coll = p.coll /\ u.prefix = p.prefix
    BY <1>1 DEF Good, PageRows
  <2> QED BY <1>1, <2>1 DEF Good, PageRows
<1>5. CollRows(s) /\ RankRows(s) /\ OutlRows(s) /\ PeerRows(s)
  BY <1>1, <1>2, Frames
<1> QED BY <1>1, <1>3, <1>4, <1>5 DEF Good

\* A settled row is left as it is; a pending one keeps its key and gains at most
\* one example, and none past MAX_EXAMPLES.
LEMMA SeenFacts ==
    ASSUME NEW o, {"coll", "host", "count", "examples", "status"} \subseteq DOMAIN o,
           Verdict(o), NEW e \in Example
    PROVE  LET n == Seen(o, e)
           IN  /\ n.coll = o.coll /\ n.host = o.host /\ n.status = o.status
               /\ {"coll", "host", "count", "examples", "status"} \subseteq DOMAIN n
               /\ Verdict(n)
               /\ o.status # "pending" => n = o
<1>1. CASE o.status # "pending"
  BY <1>1 DEF Seen
<1>2. CASE o.status = "pending"
  <2> DEFINE n == Seen(o, e)
  <2>1. n = [o EXCEPT !.count = @ + 1, !.examples = Merged(@, e)]
    BY <1>2 DEF Seen
  <2>2. /\ n.coll = o.coll /\ n.host = o.host /\ n.status = o.status
        /\ n.examples = Merged(o.examples, e) /\ DOMAIN n = DOMAIN o
    BY <2>1
  <2> HIDE DEF n
  <2>3. o.examples \in Seq(Example) /\ Len(o.examples) <= MAX_EXAMPLES
    BY DEF Verdict
  <2>4. Merged(o.examples, e) \in Seq(Example) /\ Len(Merged(o.examples, e)) <= MAX_EXAMPLES
    BY <2>3, CatalogAssumption DEF Merged
  <2> QED BY <1>2, <2>2, <2>4 DEF Verdict, n
<1> QED BY <1>1, <1>2

\* record_hit keeps the table, and every settled row in it.
LEMMA HitGood ==
    ASSUME NEW d, Good(d), NEW id \in IdsOf(d), NEW host, NEW e \in Example
    PROVE  LET out == record_hit(d.outl, id, host, e)
           IN  /\ \A o \in out : /\ {"coll", "host", "count", "examples", "status"} \subseteq DOMAIN o
                                 /\ o.coll \in IdsOf(d) /\ Verdict(o)
               /\ \A o, p \in out : o.coll = p.coll /\ o.host = p.host => o = p
               /\ \A o \in d.outl : o.status # "pending" =>
                    \A n \in out : n.coll = o.coll /\ n.host = o.host => n = o
<1> DEFINE old == {o \in d.outl : o.coll = id /\ o.host = host}
           new == [coll |-> id, host |-> host, count |-> 1, examples |-> <<e>>, status |-> "pending"]
           out == record_hit(d.outl, id, host, e)
<1>1. /\ \A o \in d.outl : /\ {"coll", "host", "count", "examples", "status"} \subseteq DOMAIN o
                           /\ o.coll \in IdsOf(d) /\ Verdict(o)
      /\ \A o, p \in d.outl : o.coll = p.coll /\ o.host = p.host => o = p
  BY DEF Good, OutlRows, Unique
<1>2. CASE old = {}
  <2>1. out = d.outl \cup {new}
    BY <1>2 DEF record_hit
  <2>2. /\ new.coll = id /\ new.host = host
        /\ {"coll", "host", "count", "examples", "status"} \subseteq DOMAIN new
    OBVIOUS
  <2>3. Verdict(new)
    <3>1. new.status \in Status /\ new.examples = <<e>>
      BY DEF Status
    <3>2. <<e>> \in Seq(Example) /\ Len(<<e>>) <= MAX_EXAMPLES
      BY CatalogAssumption
    <3> QED BY <3>1, <3>2 DEF Verdict
  <2>4. \A o \in d.outl : ~(o.coll = id /\ o.host = host)
    BY <1>2
  <2> HIDE DEF new, out, old
  <2>5. \A o \in out : /\ {"coll", "host", "count", "examples", "status"} \subseteq DOMAIN o
                       /\ o.coll \in IdsOf(d) /\ Verdict(o)
    BY <1>1, <2>1, <2>2, <2>3
  <2>6. \A o, p \in out : o.coll = p.coll /\ o.host = p.host => o = p
    BY <1>1, <2>1, <2>2, <2>4
  <2>7. \A o \in d.outl : o.status # "pending" =>
          \A n \in out : n.coll = o.coll /\ n.host = o.host => n = o
    BY <2>1, <2>6
  <2> QED BY <2>5, <2>6, <2>7 DEF out
<1>3. CASE old # {}
  <2>1. PICK o1 \in d.outl : o1.coll = id /\ o1.host = host
    BY <1>3
  <2>2. old = {o1}
    BY <1>1, <2>1
  <2>3. out = (d.outl \ {o1}) \cup {Seen(o1, e)}
    BY <2>2 DEF record_hit
  <2> DEFINE n1 == Seen(o1, e)
  <2>4. /\ n1.coll = id /\ n1.host = host
        /\ {"coll", "host", "count", "examples", "status"} \subseteq DOMAIN n1
        /\ Verdict(n1) /\ (o1.status # "pending" => n1 = o1)
    BY <1>1, <2>1, SeenFacts
  <2> HIDE DEF n1, out, old
  <2>5. out = (d.outl \ {o1}) \cup {n1}
    BY <2>3 DEF n1
  <2>6. \A o \in out : /\ {"coll", "host", "count", "examples", "status"} \subseteq DOMAIN o
                       /\ o.coll \in IdsOf(d) /\ Verdict(o)
    BY <1>1, <2>4, <2>5
  <2>7. \A o, p \in out : o.coll = p.coll /\ o.host = p.host => o = p
    BY <1>1, <2>1, <2>4, <2>5
  <2>8. \A o \in d.outl : o.status # "pending" =>
          \A n \in out : n.coll = o.coll /\ n.host = o.host => n = o
    BY <1>1, <2>1, <2>4, <2>5
  <2> QED BY <2>6, <2>7, <2>8 DEF out
<1> QED BY <1>2, <1>3

\* The admin's verdict: key, count and examples stay.
Settled(d, o, status) == [d EXCEPT !.outl = Changed(@, o, [o EXCEPT !.status = status])]

LEMMA SettleGood ==
    ASSUME NEW d, Good(d), NEW o \in d.outl, NEW status \in {"promoted", "dismissed"},
           NEW s, s = Settled(d, o, status)
    PROVE  /\ Good(s) /\ s.page = d.page
           /\ \A n \in s.outl : n \in d.outl \/
                (/\ n.coll = o.coll /\ n.host = o.host /\ n.status # "pending"
                 /\ n.count = o.count /\ n.examples = o.examples)
<1> DEFINE new == [o EXCEPT !.status = status]
<1>1. /\ IsDb(s) /\ s.coll = d.coll /\ s.next = d.next
      /\ s.tgt = d.tgt /\ s.page = d.page /\ s.outl = (d.outl \ {o}) \cup {new}
      /\ s.rank = d.rank /\ s.peers = d.peers /\ s.subs = d.subs
  BY DEF Settled, Changed, Good, IsDb, Tables
<1>2. /\ {"coll", "host", "count", "examples", "status"} \subseteq DOMAIN o /\ Verdict(o)
      /\ o.coll \in IdsOf(d)
  BY DEF Good, OutlRows
<1>3. /\ new.coll = o.coll /\ new.host = o.host /\ new.status = status
      /\ new.count = o.count /\ new.examples = o.examples /\ DOMAIN new = DOMAIN o
  BY <1>2
<1> HIDE DEF new
<1>4. IdsOf(s) = IdsOf(d)
  BY <1>1, Frames
<1>5. OutlRows(s)
  <2>1. Verdict(new)
    BY <1>2, <1>3 DEF Verdict, Status
  <2>2. \A n \in s.outl : /\ {"coll", "host", "count", "examples", "status"} \subseteq DOMAIN n
                          /\ n.coll \in IdsOf(s) /\ Verdict(n)
    BY <1>1, <1>2, <1>3, <1>4, <2>1 DEF Good, OutlRows
  <2>3. \A m, n \in d.outl : m.coll = n.coll /\ m.host = n.host => m = n
    BY DEF Good, OutlRows, Unique
  <2>4. \A m, n \in s.outl : m.coll = n.coll /\ m.host = n.host => m = n
    BY <1>1, <1>3, <2>3
  <2>5. Unique(s.outl, LAMBDA n : <<n.coll, n.host>>)
    BY <2>4 DEF Unique
  <2> QED BY <2>2, <2>5 DEF OutlRows
<1>6. CollRows(s) /\ TgtRows(s) /\ PageRows(s) /\ RankRows(s) /\ PeerRows(s)
  BY <1>1, <1>4, Frames
<1> QED BY <1>1, <1>3, <1>5, <1>6 DEF Good

\* A page of a target, in place of the row its key had, with a hit on a host.
Prior(d, t, url) == {p \in d.page : p.coll = t.coll /\ p.url = url}
Row(t, url, hash, indexed) ==
    [coll |-> t.coll, prefix |-> t.prefix, url |-> url, hash |-> hash, indexed |-> indexed]
Crawled(d, t, url, hash, indexed, host, e) ==
    [d EXCEPT !.page = (@ \ Prior(d, t, url)) \cup {Row(t, url, hash, indexed)},
              !.outl = record_hit(@, t.coll, host, e)]

LEMMA CrawlGood ==
    ASSUME NEW d, Good(d), NEW t \in d.tgt, NEW url, NEW hash, NEW indexed,
           NEW host, NEW e \in Example,
           NEW s, s = Crawled(d, t, url, hash, indexed, host, e)
    PROVE  Good(s) /\ s.outl = record_hit(d.outl, t.coll, host, e)
           /\ s.page = (d.page \ Prior(d, t, url)) \cup {Row(t, url, hash, indexed)}
<1> DEFINE new == Row(t, url, hash, indexed)
           prior == Prior(d, t, url)
           out == record_hit(d.outl, t.coll, host, e)
<1>1. /\ IsDb(s) /\ s.coll = d.coll /\ s.next = d.next
      /\ s.tgt = d.tgt /\ s.page = (d.page \ prior) \cup {new} /\ s.outl = out
      /\ s.rank = d.rank /\ s.peers = d.peers /\ s.subs = d.subs
  BY DEF Crawled, Good, IsDb, Tables
<1>2. /\ new.coll = t.coll /\ new.prefix = t.prefix /\ new.url = url
      /\ {"coll", "prefix", "url", "hash", "indexed"} \subseteq DOMAIN new
  BY DEF Row
<1>3. t.coll \in IdsOf(d) /\ IdsOf(s) = IdsOf(d)
  BY <1>1, Frames DEF Good, TgtRows
<1>4. /\ \A o \in out : /\ {"coll", "host", "count", "examples", "status"} \subseteq DOMAIN o
                        /\ o.coll \in IdsOf(d) /\ Verdict(o)
      /\ \A o, p \in out : o.coll = p.coll /\ o.host = p.host => o = p
  BY <1>3, HitGood
<1> HIDE DEF new, out
<1>5. OutlRows(s)
  <2>1. Unique(s.outl, LAMBDA o : <<o.coll, o.host>>)
    BY <1>1, <1>4 DEF Unique
  <2> QED BY <1>1, <1>3, <1>4, <2>1 DEF OutlRows
<1>6. PageRows(s)
  <2>1. \A p \in s.page : /\ {"coll", "prefix", "url", "hash", "indexed"} \subseteq DOMAIN p
                          /\ \E u \in s.tgt : u.coll = p.coll /\ u.prefix = p.prefix
    BY <1>1, <1>2 DEF Good, PageRows
  <2>2. \A p, q \in d.page : p.coll = q.coll /\ p.url = q.url => p = q
    BY DEF Good, PageRows, Unique
  <2>3. \A p, q \in s.page : p.coll = q.coll /\ p.url = q.url => p = q
    BY <1>1, <1>2, <2>2 DEF Prior
  <2>4. Unique(s.page, LAMBDA p : <<p.coll, p.url>>)
    BY <2>3 DEF Unique
  <2> QED BY <2>1, <2>4 DEF PageRows
<1>7. CollRows(s) /\ TgtRows(s) /\ RankRows(s) /\ PeerRows(s)
  BY <1>1, <1>3, Frames
<1> QED BY <1>1, <1>5, <1>6, <1>7 DEF Good, new, out

\* mark_indexed_batch: rows keep everything but their journal.
Marked(d, rows, hash) ==
    [d EXCEPT !.page = (@ \ rows) \cup {[p EXCEPT !.indexed = hash] : p \in rows}]

LEMMA MarkGood ==
    ASSUME NEW d, Good(d), NEW rows, rows \subseteq d.page, NEW hash,
           NEW s, s = Marked(d, rows, hash)
    PROVE  /\ Good(s) /\ s.outl = d.outl
           /\ \A p \in s.page : \/ p \in d.page \ rows
                                \/ p.indexed = hash /\ \E q \in rows : p.coll = q.coll /\ p.url = q.url
<1>1. /\ IsDb(s) /\ s.coll = d.coll /\ s.next = d.next
      /\ s.tgt = d.tgt /\ s.outl = d.outl
      /\ s.page = (d.page \ rows) \cup {[p EXCEPT !.indexed = hash] : p \in rows}
      /\ s.rank = d.rank /\ s.peers = d.peers /\ s.subs = d.subs
  BY DEF Marked, Good, IsDb, Tables
<1>2. IdsOf(s) = IdsOf(d)
  BY <1>1, Frames
<1>3. ASSUME NEW p \in rows
      PROVE  LET m == [p EXCEPT !.indexed = hash]
             IN  /\ m.coll = p.coll /\ m.prefix = p.prefix /\ m.url = p.url /\ m.indexed = hash
                 /\ {"coll", "prefix", "url", "hash", "indexed"} \subseteq DOMAIN m
  <2>1. {"coll", "prefix", "url", "hash", "indexed"} \subseteq DOMAIN p
    BY DEF Good, PageRows
  <2> QED BY <2>1
<1>4. ASSUME NEW p \in s.page
      PROVE  \/ p \in d.page \ rows
             \/ \E q \in rows : /\ p = [q EXCEPT !.indexed = hash]
                                /\ p.coll = q.coll /\ p.prefix = q.prefix /\ p.url = q.url
                                /\ p.indexed = hash
                                /\ {"coll", "prefix", "url", "hash", "indexed"} \subseteq DOMAIN p
  BY <1>1, <1>3
<1>5. PageRows(s)
  <2>1. ASSUME NEW p \in s.page
        PROVE  /\ {"coll", "prefix", "url", "hash", "indexed"} \subseteq DOMAIN p
               /\ \E u \in s.tgt : u.coll = p.coll /\ u.prefix = p.prefix
    <3>1. \A q \in d.page : /\ {"coll", "prefix", "url", "hash", "indexed"} \subseteq DOMAIN q
                            /\ \E u \in s.tgt : u.coll = q.coll /\ u.prefix = q.prefix
      BY <1>1 DEF Good, PageRows
    <3>2. CASE p \in d.page \ rows
      BY <3>1, <3>2
    <3>3. CASE p \notin d.page \ rows
      <4>1. PICK q \in rows : /\ p.coll = q.coll /\ p.prefix = q.prefix
                              /\ {"coll", "prefix", "url", "hash", "indexed"} \subseteq DOMAIN p
        BY <1>4, <3>3
      <4> QED BY <3>1, <4>1
    <3> QED BY <3>2, <3>3
  <2>2. \A p, q \in d.page : p.coll = q.coll /\ p.url = q.url => p = q
    BY DEF Good, PageRows, Unique
  <2>3. ASSUME NEW p \in s.page, NEW q \in s.page, p.coll = q.coll, p.url = q.url PROVE p = q
    BY <1>4, <2>2, <2>3
  <2>4. Unique(s.page, LAMBDA p : <<p.coll, p.url>>)
    BY <2>3 DEF Unique
  <2> QED BY <2>1, <2>4 DEF PageRows
<1>6. CollRows(s) /\ TgtRows(s) /\ RankRows(s) /\ OutlRows(s) /\ PeerRows(s)
  BY <1>1, <1>2, Frames
<1> QED BY <1>1, <1>4, <1>5, <1>6 DEF Good

\* AddPeer, DeletePeer, Subscribe: the peers and their subscriptions.
Peered(d, peers, subs) == [d EXCEPT !.peers = peers, !.subs = subs]

LEMMA PeersGood ==
    ASSUME NEW d, Good(d), NEW peers, NEW subs,
           \A p, q \in peers : p.url = q.url => p = q,
           \A x \in subs : \E p \in peers : p.url = x.url,
           NEW s, s = Peered(d, peers, subs)
    PROVE  Good(s) /\ s.outl = d.outl /\ s.page = d.page
<1>1. /\ IsDb(s) /\ s.coll = d.coll /\ s.next = d.next
      /\ s.tgt = d.tgt /\ s.page = d.page /\ s.outl = d.outl
      /\ s.rank = d.rank /\ s.peers = peers /\ s.subs = subs
  BY DEF Peered, Good, IsDb, Tables
<1>2. IdsOf(s) = IdsOf(d)
  BY <1>1, Frames
<1>3. PeerRows(s)
  <2>1. Unique(s.peers, LAMBDA p : p.url)
    BY <1>1 DEF Unique
  <2>2. \A x \in s.subs : x.url \in PeerUrls(s)
    BY <1>1 DEF PeerUrls
  <2> QED BY <2>1, <2>2 DEF PeerRows
<1>4. CollRows(s) /\ TgtRows(s) /\ PageRows(s) /\ RankRows(s) /\ OutlRows(s)
  BY <1>1, <1>2, Frames
<1> QED BY <1>1, <1>3, <1>4 DEF Good

-----------------------------------------------------------------------------
(* An import *)

Job == [name : Name, url : Url, coll : Nat, body : Body, hash : {"page", "body"} \X Body]

\* A collection of an archive, see ArchiveAssumption, and one that holds a
\* document for each of its pages.
Archived(c) ==
    /\ c.name \in Name
    /\ IsFiniteSet(c.docs) /\ c.docs \subseteq [url : Url, body : Body]
    /\ \A o \in c.outlinks : Verdict(o)
Whole(c) == \A t \in c.targets : \A p \in t.pages : \E x \in c.docs : x.url = p.url

\* s has all of d, and nothing new under a collection of d.
Extends(d, s) ==
    /\ d.coll \subseteq s.coll /\ d.tgt \subseteq s.tgt /\ d.page \subseteq s.page
    /\ d.rank \subseteq s.rank /\ d.outl \subseteq s.outl /\ d.peers \subseteq s.peers
    /\ d.subs \subseteq s.subs
    /\ \A x \in s.tgt \ d.tgt : x.coll \notin IdsOf(d)
    /\ \A x \in s.page \ d.page : x.coll \notin IdsOf(d)
    /\ \A x \in s.outl \ d.outl : x.coll \notin IdsOf(d)
    /\ \A k \in s.rank \ d.rank : \A c \in d.coll : c.row # k.row

\* The jobs hold a document for every page that is not marked indexed.
Covered(pages, js) ==
    \A p \in pages : p.indexed = None => \E k \in 1..Len(js) : js[k].coll = p.coll /\ js[k].url = p.url

LEMMA ExtendsTransitive ==
    ASSUME NEW d, NEW s, NEW u, Extends(d, s), Extends(s, u)
    PROVE  Extends(d, u)
<1>1. IdsOf(d) \subseteq IdsOf(s)
  BY DEF Extends, IdsOf
<1> QED BY <1>1 DEF Extends

\* What a round of the loop makes of the database.
Rounded(d, c) == [InsertCollection(d, c.name) EXCEPT
                    !.tgt = @ \cup NewTargets(c, d.next),
                    !.page = @ \cup NewPages(c, d.next),
                    !.rank = ImportRanking(d, NextRowid(d), c).rank,
                    !.outl = @ \cup NewOutlinks(c, d.next)]

\* One round of the loop that is not refused.
LEMMA RoundGood ==
    ASSUME NEW d, Good(d), NEW c, Archived(c), ~Skipped(d, c), Accepted(c),
           ImportRanking(d, NextRowid(d), c).ok,
           NEW s, s = Rounded(d, c)
    PROVE  /\ Good(s) /\ Extends(d, s) /\ s.peers = d.peers /\ s.subs = d.subs
           /\ s.coll = d.coll \cup {[row |-> NextRowid(d), id |-> d.next, name |-> c.name]}
           /\ s.next = d.next + 1
           /\ s.tgt = d.tgt \cup NewTargets(c, d.next)
           /\ s.page = d.page \cup NewPages(c, d.next)
           /\ s.rank = ImportRanking(d, NextRowid(d), c).rank
           /\ s.outl = d.outl \cup NewOutlinks(c, d.next)
<1> DEFINE id == d.next
           ins == InsertCollection(d, c.name)
<1>1. /\ Good(ins) /\ ins = [d EXCEPT !.coll = ins.coll, !.next = ins.next]
      /\ ins.coll = d.coll \cup {[row |-> NextRowid(d), id |-> id, name |-> c.name]}
      /\ ins.next = d.next + 1
      /\ IdsOf(ins) = IdsOf(d) \cup {id} /\ id \notin IdsOf(d)
  BY InsertGood DEF Skipped, Archived
<1>2. /\ ins.tgt = d.tgt /\ ins.page = d.page /\ ins.rank = d.rank /\ ins.outl = d.outl
      /\ ins.peers = d.peers /\ ins.subs = d.subs
  BY <1>1 DEF Good, IsDb, Tables
<1>3. /\ IsDb(s) /\ s.coll = ins.coll /\ s.next = ins.next
      /\ s.tgt = d.tgt \cup NewTargets(c, id) /\ s.page = d.page \cup NewPages(c, id)
      /\ s.rank = ImportRanking(d, NextRowid(d), c).rank
      /\ s.outl = d.outl \cup NewOutlinks(c, id)
      /\ s.peers = d.peers /\ s.subs = d.subs
  BY <1>1, <1>2 DEF Rounded, Good, IsDb, Tables
<1>4. id \in Nat \ {0}
  BY DEF Good, CollRows
<1> HIDE DEF ins, id
<1>5. CollRows(s) /\ PeerRows(s) /\ IdsOf(s) = IdsOf(ins)
  BY <1>1, <1>2, <1>3, Frames
<1>6. \A t \in NewTargets(c, id) :
        /\ {"coll", "prefix", "every", "delay"} \subseteq DOMAIN t /\ t.coll = id
        /\ \E u \in c.targets : t = [coll |-> id, prefix |-> u.prefix, every |-> u.every,
                                     delay |-> u.delay]
  BY DEF NewTargets
<1>7. TgtRows(s)
  <2>1. \A t \in d.tgt : /\ {"coll", "prefix", "every", "delay"} \subseteq DOMAIN t
                         /\ t.coll \in IdsOf(d)
    BY DEF Good, TgtRows
  <2>2. \A t \in s.tgt : /\ {"coll", "prefix", "every", "delay"} \subseteq DOMAIN t
                         /\ t.coll \in IdsOf(s)
    BY <1>1, <1>3, <1>5, <1>6, <2>1
  <2>3. \A t, u \in d.tgt : t.coll = u.coll /\ t.prefix = u.prefix => t = u
    BY DEF Good, TgtRows, Unique
  <2>4. \A t, u \in NewTargets(c, id) : t.prefix = u.prefix => t = u
    <3>1. \A t, u \in c.targets : t.prefix = u.prefix => t = u
      BY DEF Accepted, Unique
    <3> QED BY <3>1 DEF NewTargets
  <2>5. \A t, u \in s.tgt : t.coll = u.coll /\ t.prefix = u.prefix => t = u
    BY <1>1, <1>3, <1>6, <2>1, <2>3, <2>4
  <2>6. Unique(s.tgt, LAMBDA t : <<t.coll, t.prefix>>)
    BY <2>5 DEF Unique
  <2> QED BY <2>2, <2>6 DEF TgtRows
<1>8. ASSUME NEW p \in NewPages(c, id)
      PROVE  /\ {"coll", "prefix", "url", "hash", "indexed"} \subseteq DOMAIN p /\ p.coll = id
             /\ \E t \in s.tgt : t.coll = p.coll /\ t.prefix = p.prefix
  <2>0. PICK t \in c.targets : \E q \in t.pages :
          p = [coll |-> id, prefix |-> t.prefix, url |-> q.url, hash |-> q.hash, indexed |-> None]
    BY DEF NewPages
  <2>1. PICK q \in t.pages :
          p = [coll |-> id, prefix |-> t.prefix, url |-> q.url, hash |-> q.hash, indexed |-> None]
    BY <2>0
  <2>2. [coll |-> id, prefix |-> t.prefix, every |-> t.every, delay |-> t.delay] \in s.tgt
    BY <1>3 DEF NewTargets
  <2> QED BY <2>1, <2>2
<1>9. PageRows(s)
  <2>1. \A p \in d.page : /\ {"coll", "prefix", "url", "hash", "indexed"} \subseteq DOMAIN p
                          /\ \E t \in d.tgt : t.coll = p.coll /\ t.prefix = p.prefix
    BY DEF Good, PageRows
  <2>2. \A p \in s.page : /\ {"coll", "prefix", "url", "hash", "indexed"} \subseteq DOMAIN p
                          /\ \E t \in s.tgt : t.coll = p.coll /\ t.prefix = p.prefix
    BY <1>3, <1>8, <2>1
  <2>3. \A p \in d.page : p.coll # id
    <3>1. \A t \in d.tgt : t.coll \in IdsOf(d)
      BY DEF Good, TgtRows
    <3> QED BY <1>1, <2>1, <3>1
  <2>4. \A p, q \in d.page : p.coll = q.coll /\ p.url = q.url => p = q
    BY DEF Good, PageRows, Unique
  <2>5. ASSUME NEW p \in NewPages(c, id), NEW q \in NewPages(c, id), p.url = q.url PROVE p = q
    <3> DEFINE at0(t, x) == [coll |-> 0, prefix |-> t.prefix, url |-> x.url, hash |-> x.hash,
                             indexed |-> None]
               atId(t, x) == [coll |-> id, prefix |-> t.prefix, url |-> x.url, hash |-> x.hash,
                              indexed |-> None]
    <3>1. PICK t \in c.targets : \E x \in t.pages : p = atId(t, x)
      BY DEF NewPages
    <3>a. PICK x \in t.pages : p = atId(t, x)
      BY <3>1
    <3>2. PICK u \in c.targets : \E y \in u.pages : q = atId(u, y)
      BY DEF NewPages
    <3>b. PICK y \in u.pages : q = atId(u, y)
      BY <3>2
    <3>3. at0(t, x) \in NewPages(c, 0) /\ at0(u, y) \in NewPages(c, 0)
      <4>1. at0(t, x) \in {at0(t, z) : z \in t.pages} /\ at0(u, y) \in {at0(u, z) : z \in u.pages}
        OBVIOUS
      <4>2. NewPages(c, 0) = UNION {{at0(w, z) : z \in w.pages} : w \in c.targets}
        BY DEF NewPages
      <4> HIDE DEF at0
      <4> QED BY <4>1, <4>2
    <3>4. at0(t, x).url = at0(u, y).url
      BY <2>5, <3>a, <3>b
    <3>5. at0(t, x) = at0(u, y)
      <4> HIDE DEF at0
      <4> QED BY <3>3, <3>4 DEF Accepted, Unique
    <3>6. t.prefix = u.prefix /\ x.url = y.url /\ x.hash = y.hash
      BY <3>5
    <3> QED BY <3>a, <3>b, <3>6
  <2>6. \A p, q \in s.page : p.coll = q.coll /\ p.url = q.url => p = q
    BY <1>3, <1>8, <2>3, <2>4, <2>5
  <2>7. Unique(s.page, LAMBDA p : <<p.coll, p.url>>)
    BY <2>6 DEF Unique
  <2> QED BY <2>2, <2>7 DEF PageRows
<1>10. RankRows(s) /\ d.rank \subseteq s.rank /\ \A k \in s.rank \ d.rank : k.row = NextRowid(d)
  <2>1. CASE c.rank = None
    BY <1>3, <2>1 DEF ImportRanking, Good, RankRows
  <2>2. CASE c.rank # None
    <3> DEFINE k1 == [row |-> NextRowid(d), cfg |-> c.rank]
    <3>1. NextRowid(d) \notin RankedRows(d) /\ s.rank = d.rank \cup {k1}
      BY <1>3, <2>2 DEF ImportRanking
    <3>2. k1.row = NextRowid(d) /\ k1.cfg # None
      BY <2>2
    <3> HIDE DEF k1
    <3>3. \A k \in d.rank : k.row # k1.row
      BY <3>1, <3>2 DEF RankedRows
    <3> QED BY <3>1, <3>2, <3>3 DEF Good, RankRows, Unique
  <2> QED BY <2>1, <2>2
<1>11. ASSUME NEW o \in NewOutlinks(c, id)
       PROVE  /\ {"coll", "host", "count", "examples", "status"} \subseteq DOMAIN o
              /\ o.coll = id /\ Verdict(o)
  <2>1. PICK x \in c.outlinks : o = [coll |-> id, host |-> x.host, count |-> x.count,
                                     examples |-> x.examples, status |-> x.status]
    BY DEF NewOutlinks
  <2>2. o.status = x.status /\ o.examples = x.examples /\ o.coll = id
        /\ {"coll", "host", "count", "examples", "status"} \subseteq DOMAIN o
    BY <2>1
  <2> QED BY <2>2 DEF Archived, Verdict
<1>12. OutlRows(s)
  <2>1. /\ \A o \in d.outl : /\ {"coll", "host", "count", "examples", "status"} \subseteq DOMAIN o
                             /\ o.coll \in IdsOf(d) /\ Verdict(o)
        /\ \A o, p \in d.outl : o.coll = p.coll /\ o.host = p.host => o = p
    BY DEF Good, OutlRows, Unique
  <2>2. \A o \in s.outl : /\ {"coll", "host", "count", "examples", "status"} \subseteq DOMAIN o
                          /\ o.coll \in IdsOf(s) /\ Verdict(o)
    BY <1>1, <1>3, <1>5, <1>11, <2>1
  <2>3. \A o, p \in NewOutlinks(c, id) : o.host = p.host => o = p
    <3>1. \A o, p \in c.outlinks : o.host = p.host => o = p
      BY DEF Accepted, Unique
    <3> QED BY <3>1 DEF NewOutlinks
  <2>4. \A o, p \in s.outl : o.coll = p.coll /\ o.host = p.host => o = p
    BY <1>1, <1>3, <1>11, <2>1, <2>3
  <2>5. Unique(s.outl, LAMBDA o : <<o.coll, o.host>>)
    BY <2>4 DEF Unique
  <2> QED BY <2>2, <2>5 DEF OutlRows
<1>13. Extends(d, s)
  <2>1. \A b \in d.coll : b.row # NextRowid(d)
    BY NextRowidFresh DEF Good
  <2>2. \A k \in s.rank \ d.rank : \A b \in d.coll : b.row # k.row
    BY <1>10, <2>1
  <2>3. \A x \in (s.tgt \ d.tgt) : x.coll = id
    BY <1>3, <1>6
  <2>4. \A x \in (s.page \ d.page) : x.coll = id
    BY <1>3, <1>8
  <2>5. \A x \in (s.outl \ d.outl) : x.coll = id
    BY <1>3, <1>11
  <2> QED BY <1>1, <1>3, <1>10, <2>2, <2>3, <2>4, <2>5 DEF Extends
<1> QED BY <1>1, <1>3, <1>5, <1>7, <1>9, <1>10, <1>12, <1>13 DEF Good, id

LEMMA CoveredConcat ==
    ASSUME NEW A, NEW B, NEW f \in Seq(Job), NEW g \in Seq(Job), Covered(A, f), Covered(B, g)
    PROVE  Covered(A \cup B, f \o g)
<1>1. /\ Len(f) \in Nat /\ Len(g) \in Nat /\ Len(f \o g) = Len(f) + Len(g)
      /\ \A k \in 1..Len(f) : (f \o g)[k] = f[k]
      /\ \A k \in 1..Len(g) : (f \o g)[Len(f) + k] = g[k]
  OBVIOUS
<1> DEFINE h == f \o g
<1> HIDE DEF h
<1>2. ASSUME NEW p \in A, p.indexed = None
      PROVE  \E k \in 1..Len(h) : h[k].coll = p.coll /\ h[k].url = p.url
  <2>1. PICK k \in 1..Len(f) : f[k].coll = p.coll /\ f[k].url = p.url
    BY <1>2 DEF Covered
  <2>2. k \in 1..Len(h) /\ h[k] = f[k]
    BY <1>1, <2>1 DEF h
  <2> QED BY <2>1, <2>2
<1>3. ASSUME NEW p \in B, p.indexed = None
      PROVE  \E k \in 1..Len(h) : h[k].coll = p.coll /\ h[k].url = p.url
  <2>1. PICK k \in 1..Len(g) : g[k].coll = p.coll /\ g[k].url = p.url
    BY <1>3 DEF Covered
  <2>2. Len(f) + k \in 1..Len(h) /\ h[Len(f) + k] = g[k]
    BY <1>1, <2>1 DEF h
  <2> QED BY <2>1, <2>2
<1> QED BY <1>2, <1>3 DEF Covered, h

\* The jobs of a collection of the archive: one for each of its documents, under
\* the uuid of the new rows.
LEMMA JobsFacts ==
    ASSUME NEW c, Archived(c), NEW id \in Nat
    PROVE  /\ JobsOf(c, id) \in Seq(Job)
           /\ Whole(c) => Covered(NewPages(c, id), JobsOf(c, id))
<1> DEFINE job(x) == [name |-> c.name, url |-> x.url, coll |-> id, body |-> x.body,
                      hash |-> doc_content_hash(x.body)]
           S == {job(x) : x \in c.docs}
<1>1. S \subseteq Job
  BY DEF Archived, Job, doc_content_hash
<1>2. IsFiniteSet(S)
  <2> DEFINE f == [x \in c.docs |-> job(x)]
  <2>1. f \in Surjection(c.docs, S)
    BY DEF Surjection
  <2> HIDE DEF f, S
  <2> QED BY <2>1, FS_Surjection DEF Archived
<1>3. JobsOf(c, id) = SetToSeq(S)
  BY DEF JobsOf
<1>4. \A x \in c.docs : job(x) \in S /\ job(x).coll = id /\ job(x).url = x.url
  OBVIOUS
<1> HIDE DEF S, job
<1>5. /\ JobsOf(c, id) \in Seq(S)
      /\ \A j \in S : \E k \in 1..Len(JobsOf(c, id)) : JobsOf(c, id)[k] = j
  BY <1>2, <1>3, SetToSeqFacts
<1>6. JobsOf(c, id) \in Seq(Job)
  <2> DEFINE q == JobsOf(c, id)
  <2>1. q \in Seq(S)
    BY <1>5
  <2> HIDE DEF q
  <2>2. Len(q) \in Nat /\ q \in [1..Len(q) -> S]
    BY <2>1
  <2>3. q \in [1..Len(q) -> Job]
    BY <1>1, <2>2
  <2>4. q \in Seq(Job)
    BY <2>2, <2>3
  <2> QED BY <2>4 DEF q
<1>7. ASSUME Whole(c), NEW p \in NewPages(c, id)
      PROVE  \E k \in 1..Len(JobsOf(c, id)) :
                JobsOf(c, id)[k].coll = p.coll /\ JobsOf(c, id)[k].url = p.url
  <2>1. PICK t \in c.targets : \E y \in t.pages :
          p = [coll |-> id, prefix |-> t.prefix, url |-> y.url, hash |-> y.hash, indexed |-> None]
    BY DEF NewPages
  <2>2. PICK y \in t.pages : p.coll = id /\ p.url = y.url
    BY <2>1
  <2>3. PICK x \in c.docs : x.url = y.url
    BY <1>7 DEF Whole
  <2>4. PICK k \in 1..Len(JobsOf(c, id)) : JobsOf(c, id)[k] = job(x)
    BY <1>4, <1>5, <2>3
  <2>5. job(x).coll = p.coll /\ job(x).url = p.url
    BY <1>4, <2>2, <2>3
  <2> QED BY <2>4, <2>5
<1> QED BY <1>6, <1>7 DEF Covered

\* The recursive definition inside ImportCollections defines a function: one for
\* the first n collections extends to one for the first n + 1.
LEMMA LoopRec ==
    ASSUME NEW colls, Len(colls) \in Nat, NEW d
    PROVE  \E f : /\ f = [n \in 0..Len(colls) |->
                            IF n = 0 THEN [ok |-> TRUE, db |-> d, jobs |-> <<>>]
                            ELSE ImportCollection(f[n - 1], colls[n])]
                  /\ ImportCollections(colls, d) = f[Len(colls)]
<1> DEFINE start == [ok |-> TRUE, db |-> d, jobs |-> <<>>]
           Def(f, m) == f = [n \in 0..m |-> IF n = 0 THEN start
                                            ELSE ImportCollection(f[n - 1], colls[n])]
           S == {m \in Nat : \E f : Def(f, m)}
<1> HIDE DEF start
<1>1. 0 \in S
  <2>1. Def([n \in 0..0 |-> start], 0)
    OBVIOUS
  <2> QED BY <2>1
<1>2. ASSUME NEW m \in Nat, m \in S PROVE m + 1 \in S
  <2>1. PICK f : Def(f, m)
    BY <1>2
  <2> DEFINE g == [n \in 0..(m + 1) |-> IF n <= m THEN f[n] ELSE ImportCollection(f[m], colls[m + 1])]
  <2>2. ASSUME NEW n \in 0..(m + 1)
        PROVE  g[n] = IF n = 0 THEN start ELSE ImportCollection(g[n - 1], colls[n])
    <3>1. CASE n = 0
      BY <2>1, <3>1
    <3>2. CASE n # 0 /\ n <= m
      <4>1. g[n] = f[n] /\ g[n - 1] = f[n - 1]
        BY <3>2
      <4>2. f[n] = ImportCollection(f[n - 1], colls[n])
        BY <2>1, <3>2
      <4> HIDE DEF g
      <4> QED BY <3>2, <4>1, <4>2
    <3>3. CASE n = m + 1
      <4>1. g[n] = ImportCollection(f[m], colls[n]) /\ g[n - 1] = f[m]
        BY <3>3
      <4> HIDE DEF g
      <4> QED BY <3>3, <4>1
    <3> QED BY <3>1, <3>2, <3>3
  <2>3. Def(g, m + 1)
    BY <2>2
  <2>4. \E h : Def(h, m + 1)
    <3> HIDE DEF g, Def
    <3> QED BY <2>3
  <2> HIDE DEF Def
  <2> QED BY <2>4
<1> HIDE DEF S
<1>3. Nat \subseteq S
  BY <1>1, <1>2, NatInd
<1>4. \E f : Def(f, Len(colls))
  <2> HIDE DEF Def
  <2> QED BY <1>3 DEF S
<1> QED BY <1>4 DEF ImportCollections, start

\* What an archive brings so far: a good database that extends the one before,
\* and the jobs for the pages it adds.  whole: do its collections hold all their
\* documents?
Loaded(d, acc, whole) ==
    /\ DOMAIN acc = {"ok", "db", "jobs"}
    /\ acc.ok => /\ Good(acc.db) /\ Extends(d, acc.db)
                 /\ acc.db.peers = d.peers /\ acc.db.subs = d.subs
                 /\ acc.jobs \in Seq(Job)
                 /\ whole => Covered(acc.db.page \ d.page, acc.jobs)

LEMMA RoundLoaded ==
    ASSUME NEW d, NEW acc, NEW whole \in BOOLEAN, Loaded(d, acc, whole),
           NEW c, Archived(c), whole => Whole(c)
    PROVE  Loaded(d, ImportCollection(acc, c), whole)
<1> DEFINE e == acc.db
           k == ImportRanking(e, NextRowid(e), c)
           s == [InsertCollection(e, c.name) EXCEPT
                   !.tgt = @ \cup NewTargets(c, e.next),
                   !.page = @ \cup NewPages(c, e.next),
                   !.rank = k.rank,
                   !.outl = @ \cup NewOutlinks(c, e.next)]
           js == acc.jobs \o JobsOf(c, e.next)
<1>1. CASE ~acc.ok \/ Skipped(e, c)
  <2>1. ImportCollection(acc, c) = acc
    BY <1>1 DEF ImportCollection, Skip
  <2> QED BY <2>1
<1>2. CASE acc.ok /\ ~Skipped(e, c)
  <2>1. ImportCollection(acc, c) = [ok |-> k.ok /\ Accepted(c), db |-> s, jobs |-> js]
    BY <1>2 DEF ImportCollection
  <2> DEFINE new == ImportCollection(acc, c)
  <2> HIDE DEF s, js, k
  <2>2. /\ DOMAIN new = {"ok", "db", "jobs"}
        /\ new.db = s /\ new.jobs = js /\ new.ok = (k.ok /\ Accepted(c))
    BY <2>1
  <2> HIDE DEF new
  <2> SUFFICES ASSUME k.ok, Accepted(c)
               PROVE  /\ Good(s) /\ Extends(d, s) /\ s.peers = d.peers /\ s.subs = d.subs
                      /\ js \in Seq(Job) /\ (whole => Covered(s.page \ d.page, js))
    BY <2>2 DEF Loaded, new
  <2>3. /\ Good(e) /\ Extends(d, e) /\ e.peers = d.peers /\ e.subs = d.subs
        /\ acc.jobs \in Seq(Job) /\ (whole => Covered(e.page \ d.page, acc.jobs))
    BY <1>2 DEF Loaded
  <2> HIDE DEF e
  <2>4. /\ Good(s) /\ Extends(e, s) /\ s.peers = e.peers /\ s.subs = e.subs
        /\ s.page = e.page \cup NewPages(c, e.next)
    <3>1. s = Rounded(e, c)
      BY DEF s, k, Rounded
    <3> QED BY <1>2, <2>3, <3>1, RoundGood DEF k
  <2>5. Extends(d, s)
    BY <2>3, <2>4, ExtendsTransitive
  <2>6. /\ e.next \in Nat /\ JobsOf(c, e.next) \in Seq(Job)
        /\ Whole(c) => Covered(NewPages(c, e.next), JobsOf(c, e.next))
    <3>1. e.next \in Nat
      BY <2>3 DEF Good, CollRows
    <3> QED BY <3>1, JobsFacts
  <2>7. js \in Seq(Job)
    BY <2>3, <2>6 DEF js
  <2>8. ASSUME whole PROVE Covered(s.page \ d.page, js)
    <3>1. s.page \ d.page \subseteq (e.page \ d.page) \cup NewPages(c, e.next)
      BY <2>4
    <3>2. Covered((e.page \ d.page) \cup NewPages(c, e.next), js)
      BY <2>3, <2>6, <2>8, CoveredConcat DEF js
    <3> QED BY <3>1, <3>2 DEF Covered
  <2> QED BY <2>3, <2>4, <2>5, <2>7, <2>8
<1> QED BY <1>1, <1>2

\* apply_envelope_inner: whether it is refused or not, the database after it is
\* good and extends the one before, and its jobs cover the pages it added.
LEMMA ApplyFacts ==
    ASSUME NEW d, Good(d), NEW a \in Archives, NEW whole \in BOOLEAN,
           whole => \A n \in 1..Len(a.colls) : Whole(a.colls[n])
    PROVE  /\ Good(Apply(a, d).db) /\ Extends(d, Apply(a, d).db)
           /\ Apply(a, d).jobs \in Seq(Job)
           /\ whole => Covered(Apply(a, d).db.page \ d.page, Apply(a, d).jobs)
<1> DEFINE start == [ok |-> TRUE, db |-> d, jobs |-> <<>>]
           after == ImportCollections(a.colls, d)
<1>0. /\ Len(a.colls) \in Nat
      /\ \A n \in 1..Len(a.colls) : Archived(a.colls[n])
      /\ \A p, q \in a.peers : p.url = q.url => p = q
  BY ArchiveAssumption DEF Archived, Verdict, Unique
<1>1. PICK f : /\ f = [n \in 0..Len(a.colls) |-> IF n = 0 THEN start
                                                ELSE ImportCollection(f[n - 1], a.colls[n])]
               /\ after = f[Len(a.colls)]
  BY <1>0, LoopRec
<1>2. Extends(d, d)
  BY DEF Extends
<1>3. Loaded(d, start, whole)
  <2>1. start.ok /\ start.db = d /\ start.jobs = <<>> /\ DOMAIN start = {"ok", "db", "jobs"}
    OBVIOUS
  <2>2. <<>> \in Seq(Job)
    OBVIOUS
  <2>3. Covered(d.page \ d.page, <<>>)
    BY DEF Covered
  <2> QED BY <1>2, <2>1, <2>2, <2>3 DEF Loaded
<1> DEFINE S == {m \in Nat : m <= Len(a.colls) => Loaded(d, f[m], whole)}
<1> HIDE DEF start, after
<1>4. 0 \in S
  <2>1. f[0] = start
    BY <1>0, <1>1
  <2> QED BY <1>3, <2>1
<1>5. ASSUME NEW m \in Nat, m \in S PROVE m + 1 \in S
  <2> SUFFICES ASSUME m + 1 <= Len(a.colls) PROVE Loaded(d, f[m + 1], whole)
    OBVIOUS
  <2>1. m + 1 \in 1..Len(a.colls) /\ m + 1 \in 0..Len(a.colls) /\ m + 1 # 0 /\ (m + 1) - 1 = m
    BY <1>0
  <2>2. f[m + 1] = ImportCollection(f[(m + 1) - 1], a.colls[m + 1])
    BY <1>1, <2>1
  <2>3. Loaded(d, f[m], whole)
    BY <1>0, <1>5
  <2>4. Archived(a.colls[m + 1]) /\ (whole => Whole(a.colls[m + 1]))
    BY <1>0, <2>1
  <2>5. Loaded(d, ImportCollection(f[m], a.colls[m + 1]), whole)
    BY <2>3, <2>4, RoundLoaded
  <2> QED BY <2>1, <2>2, <2>5
<1> HIDE DEF S
<1>6. Nat \subseteq S
  BY <1>4, <1>5, NatInd
<1>7. Loaded(d, after, whole)
  <2>1. Len(a.colls) \in S /\ Len(a.colls) <= Len(a.colls)
    BY <1>0, <1>6
  <2>2. Loaded(d, f[Len(a.colls)], whole)
    BY <2>1 DEF S
  <2> QED BY <1>1, <2>2
<1>8. CASE ~after.ok
  <2>1. Apply(a, d) = [ok |-> FALSE, db |-> d, jobs |-> <<>>]
    BY <1>8 DEF Apply, after
  <2>2. Apply(a, d).db = d /\ Apply(a, d).jobs = <<>>
    BY <2>1
  <2>3. <<>> \in Seq(Job) /\ Covered(d.page \ d.page, <<>>)
    BY DEF Covered
  <2> QED BY <1>2, <2>2, <2>3
<1>9. CASE after.ok
  <2> DEFINE e == after.db
             s == ImportSubscriptions(ImportPeers(e, a), a)
             peers == d.peers \cup {p \in a.peers : p.url \notin PeerUrls(d)}
  <2>1. /\ Good(e) /\ Extends(d, e) /\ e.peers = d.peers /\ e.subs = d.subs
        /\ after.jobs \in Seq(Job) /\ (whole => Covered(e.page \ d.page, after.jobs))
        /\ DOMAIN after = {"ok", "db", "jobs"}
    BY <1>7, <1>9 DEF Loaded
  <2>2. Apply(a, d) = [after EXCEPT !.db = s]
    BY <1>9 DEF Apply, after
  <2>3. Apply(a, d).db = s /\ Apply(a, d).jobs = after.jobs
    BY <2>1, <2>2
  <2> HIDE DEF e
  <2>4. PeerUrls(e) = PeerUrls(d)
    BY <2>1 DEF PeerUrls
  <2> DEFINE mid == ImportPeers(e, a)
  <2>5. /\ DOMAIN mid = Tables /\ mid.peers = peers /\ mid.subs = d.subs
        /\ mid = [e EXCEPT !.peers = peers]
    BY <2>1, <2>4 DEF ImportPeers, Good, IsDb, Tables
  <2> HIDE DEF mid
  <2> DEFINE more == {x \in a.subs : x.local \in NamesOf(mid) /\ x.url \in PeerUrls(mid)}
  <2>6. s = [mid EXCEPT !.subs = @ \cup more]
    BY DEF ImportSubscriptions, mid
  <2> HIDE DEF s
  <2>7. s.subs = d.subs \cup more /\ s = [e EXCEPT !.peers = peers, !.subs = s.subs]
    BY <2>1, <2>5, <2>6 DEF Tables, Good, IsDb
  <2>8. \A p, q \in peers : p.url = q.url => p = q
    <3>1. \A p, q \in d.peers : p.url = q.url => p = q
      BY DEF Good, PeerRows, Unique
    <3> QED BY <1>0, <3>1 DEF PeerUrls
  <2>9. \A x \in s.subs : \E p \in peers : p.url = x.url
    <3>1. \A x \in d.subs : \E p \in d.peers : p.url = x.url
      BY DEF Good, PeerRows, PeerUrls
    <3>2. \A x \in more : \E p \in peers : p.url = x.url
      BY <2>5 DEF PeerUrls
    <3> QED BY <2>7, <3>1, <3>2
  <2> HIDE DEF peers, more
  <2>10. Good(s)
    <3>1. s = Peered(e, peers, s.subs)
      BY <2>7 DEF Peered
    <3> QED BY <2>1, <2>8, <2>9, <3>1, PeersGood
  <2>11. /\ s.coll = e.coll /\ s.tgt = e.tgt /\ s.page = e.page /\ s.rank = e.rank
         /\ s.outl = e.outl /\ s.peers = peers
    BY <2>1, <2>7 DEF Good, IsDb, Tables
  <2>12. Extends(d, s)
    BY <2>1, <2>7, <2>11 DEF Extends, peers
  <2> QED BY <2>1, <2>3, <2>10, <2>11, <2>12
<1> QED BY <1>8, <1>9

-----------------------------------------------------------------------------
(* The catalogue *)

CInv ==
    /\ Good(db) /\ fk = TRUE
    /\ \A x, y \in index : x.url = y.url => x = y
    /\ adding = None \/ adding \in [row : Nat, prefix : Prefix]

\* No settled row of d is another in s.
Kept(d, s) ==
    \A o \in d.outl : o.status # "pending" =>
        \A n \in s.outl : n.coll = o.coll /\ n.host = o.host =>
            n.status # "pending" /\ n.count = o.count /\ n.examples = o.examples

LEMMA EmptyGood == Good(EmptyDb)
<1>1. IsDb(EmptyDb)
  BY DEF EmptyDb, IsDb, Tables
<1>2. /\ EmptyDb.coll = {} /\ EmptyDb.tgt = {} /\ EmptyDb.page = {}
      /\ EmptyDb.rank = {} /\ EmptyDb.outl = {} /\ EmptyDb.peers = {} /\ EmptyDb.subs = {}
      /\ EmptyDb.next = 1
  BY DEF EmptyDb, Tables
<1>3. IsFiniteSet({})
  BY FS_EmptySet
<1>4. Unique({}, LAMBDA c : c.name) /\ Unique({}, LAMBDA c : c.row) /\ Unique({}, LAMBDA p : p.url)
  BY DEF Unique
<1>5. /\ CollRows(EmptyDb) /\ TgtRows(EmptyDb) /\ PageRows(EmptyDb)
      /\ RankRows(EmptyDb) /\ OutlRows(EmptyDb) /\ PeerRows(EmptyDb)
  BY <1>2, <1>3, <1>4 DEF CollRows, TgtRows, PageRows, RankRows, OutlRows, PeerRows, Unique
<1> QED BY <1>1, <1>5 DEF Good

LEMMA InitCInv == Init => CInv
BY EmptyGood DEF Init, CInv

\* Rows that stay or go keep the verdicts; so does an import.
LEMMA KeptFacts ==
    ASSUME NEW d, NEW s, Good(d)
    PROVE  /\ s.outl \subseteq d.outl => Kept(d, s)
           /\ Extends(d, s) => Kept(d, s)
<1>1. /\ \A o, n \in d.outl : o.coll = n.coll /\ o.host = n.host => o = n
      /\ \A o \in d.outl : o.coll \in IdsOf(d)
  BY DEF Good, OutlRows, Unique
<1>2. s.outl \subseteq d.outl => Kept(d, s)
  BY <1>1 DEF Kept
<1>3. Extends(d, s) => Kept(d, s)
  BY <1>1 DEF Extends, Kept
<1> QED BY <1>2, <1>3

\* The collections and their ranking.
LEMMA CollectionSteps ==
    ASSUME CInv
    PROVE  /\ \A n \in Name : CreateCollection(n) => CInv' /\ Kept(db, db')
           /\ \A c \in db.coll, n \in Name : RenameCollection(c, n) => CInv' /\ Kept(db, db')
           /\ \A c \in db.coll : DeleteCollection(c) => CInv' /\ Kept(db, db')
           /\ \A c \in db.coll, k \in Cfg : PutRanking(c, k) => CInv' /\ Kept(db, db')
<1>0. Good(db)
  BY DEF CInv
<1>1. ASSUME NEW n \in Name, CreateCollection(n) PROVE CInv' /\ Kept(db, db')
  <2>1. /\ n \notin NamesOf(db) /\ db' = InsertCollection(db, n)
        /\ UNCHANGED <<fk, adding, index>>
    BY <1>1 DEF CreateCollection, Rest
  <2>2. Good(db')
    BY <1>0, <2>1, InsertGood
  <2>3. db'.outl = db.outl
    BY <1>0, <2>1 DEF InsertCollection, Good, IsDb, Tables
  <2> QED BY <1>0, <2>1, <2>2, <2>3, KeptFacts DEF CInv
<1>2. ASSUME NEW c \in db.coll, NEW n \in Name, RenameCollection(c, n)
      PROVE  CInv' /\ Kept(db, db')
  <2>1. /\ n \notin NamesOf(db) /\ db' = update_item(db, c, n)
        /\ UNCHANGED <<fk, adding, index>>
    BY <1>2 DEF RenameCollection, Rest
  <2>2. Good(db') /\ db'.outl = db.outl
    BY <1>0, <2>1, RenameGood
  <2> QED BY <1>0, <2>1, <2>2, KeptFacts DEF CInv
<1>3. ASSUME NEW c \in db.coll, DeleteCollection(c) PROVE CInv' /\ Kept(db, db')
  <2>1. db' = delete_item(db, c) /\ UNCHANGED <<fk, adding, index>>
    BY <1>3 DEF DeleteCollection, Rest
  <2>2. Good(db') /\ db'.outl \subseteq db.outl
    BY <1>0, <2>1, DeleteGood DEF CInv
  <2> QED BY <1>0, <2>1, <2>2, KeptFacts DEF CInv
<1>4. ASSUME NEW c \in db.coll, NEW k \in Cfg, PutRanking(c, k) PROVE CInv' /\ Kept(db, db')
  <2>1. db' = upsert_ranking(db, c.row, k) /\ fk' = TRUE /\ UNCHANGED <<adding, index>>
    BY <1>4 DEF PutRanking, Rest
  <2>2. Good(db') /\ db'.outl = db.outl
    BY <1>0, <2>1, RankingGood, CatalogAssumption
  <2> QED BY <1>0, <2>1, <2>2, KeptFacts DEF CInv
<1> QED BY <1>1, <1>2, <1>3, <1>4

\* The targets.
LEMMA TargetSteps ==
    ASSUME CInv
    PROVE  /\ \A c \in db.coll, p \in Prefix : AddStart(c, p) => CInv' /\ Kept(db, db')
           /\ \A p \in Prefix, v \in Every : AddFinish(p, v) => CInv' /\ Kept(db, db')
           /\ \A t \in db.tgt : RemoveTarget(t) => CInv' /\ Kept(db, db')
           /\ \A t \in db.tgt, v \in Every : SetInterval(t, v) => CInv' /\ Kept(db, db')
           /\ \A t \in db.tgt, v \in Delay : SetCrawlDelay(t, v) => CInv' /\ Kept(db, db')
<1>0. Good(db)
  BY DEF CInv
<1>1. ASSUME NEW c \in db.coll, NEW p \in Prefix, AddStart(c, p) PROVE CInv' /\ Kept(db, db')
  <2>1. adding' = [row |-> c.row, prefix |-> p] /\ UNCHANGED <<db, fk, index>>
    BY <1>1 DEF AddStart
  <2>2. c.row \in Nat
    BY <1>0 DEF Good, CollRows
  <2> QED BY <1>0, <2>1, <2>2, KeptFacts DEF CInv
<1>2. ASSUME NEW p \in Prefix, NEW v \in Every, AddFinish(p, v) PROVE CInv' /\ Kept(db, db')
  <2> DEFINE found == {c \in db.coll : c.row = adding.row /\ ~HasTarget(c.id, p)}
             c0 == CHOOSE c \in found : TRUE
  <2>1. /\ adding' = None /\ UNCHANGED <<fk, index>>
        /\ db' = IF found = {} THEN db ELSE AddTargetRow(db, c0.id, p, v)
    BY <1>2 DEF AddFinish
  <2>2. Good(db') /\ db'.outl = db.outl
    <3>1. CASE found = {}
      BY <1>0, <2>1, <3>1
    <3>2. CASE found # {}
      <4>1. c0 \in db.coll /\ ~HasTarget(c0.id, p)
        BY <3>2
      <4> HIDE DEF c0
      <4>2. c0.id \in IdsOf(db) /\ ~\E t \in db.tgt : t.coll = c0.id /\ t.prefix = p
        BY <4>1 DEF IdsOf, HasTarget
      <4>3. db' = AddTargetRow(db, c0.id, p, v)
        BY <2>1, <3>2
      <4> QED BY <1>0, <4>2, <4>3, AddTargetGood
    <3> QED BY <3>1, <3>2
  <2> QED BY <1>0, <2>1, <2>2, KeptFacts DEF CInv
<1>3. ASSUME NEW t \in db.tgt, RemoveTarget(t) PROVE CInv' /\ Kept(db, db')
  <2>1. /\ db' = remove(db, t) /\ index' \subseteq index /\ UNCHANGED <<fk, adding>>
    BY <1>3 DEF RemoveTarget
  <2>2. Good(db') /\ db'.outl = db.outl
    BY <1>0, <2>1, RemoveGood DEF CInv
  <2> QED BY <1>0, <2>1, <2>2, KeptFacts DEF CInv
<1>4. ASSUME NEW t \in db.tgt, NEW v, SetInterval(t, v) \/ SetCrawlDelay(t, v)
      PROVE  CInv' /\ Kept(db, db')
  <2>1. PICK new : /\ db' = [db EXCEPT !.tgt = Changed(@, t, new)]
                   /\ new = [t EXCEPT !.every = v] \/ new = [t EXCEPT !.delay = v]
    BY <1>4 DEF SetInterval, SetCrawlDelay, set_interval, set_crawl_delay
  <2>2. UNCHANGED <<fk, adding, index>>
    BY <1>4 DEF SetInterval, SetCrawlDelay, Rest
  <2>3. {"coll", "prefix", "every", "delay"} \subseteq DOMAIN t
    BY <1>0 DEF Good, TgtRows
  <2>4. new.coll = t.coll /\ new.prefix = t.prefix /\ DOMAIN new = DOMAIN t
    BY <2>1, <2>3
  <2>5. Good(db') /\ db'.outl = db.outl
    BY <1>0, <2>1, <2>4, RetuneGood
  <2> QED BY <1>0, <2>2, <2>5, KeptFacts DEF CInv
<1> QED BY <1>1, <1>2, <1>3, <1>4

\* The suggestions.
LEMMA OutlinkSteps ==
    ASSUME CInv
    PROVE  /\ \A o \in db.outl, p \in Prefix, v \in Every :
                PromoteOutlink(o, p, v) => CInv' /\ Kept(db, db')
           /\ \A o \in db.outl : DismissOutlink(o) => CInv' /\ Kept(db, db')
<1>0. Good(db) /\ \A o, n \in db.outl : o.coll = n.coll /\ o.host = n.host => o = n
  BY DEF CInv, Good, OutlRows, Unique
<1>1. ASSUME NEW d, NEW s, NEW o \in db.outl, d.outl = db.outl,
             \A n \in s.outl : n \in d.outl \/
                (/\ n.coll = o.coll /\ n.host = o.host /\ n.status # "pending"
                 /\ n.count = o.count /\ n.examples = o.examples)
      PROVE  Kept(db, s)
  BY <1>0, <1>1 DEF Kept
<1>2. ASSUME NEW o \in db.outl, NEW p \in Prefix, NEW v \in Every, PromoteOutlink(o, p, v)
      PROVE  CInv' /\ Kept(db, db')
  <2>1. /\ ~HasTarget(o.coll, p) /\ UNCHANGED <<fk, adding, index>>
        /\ db' = mark_promoted(AddTargetRow(db, o.coll, p, v), o)
    BY <1>2 DEF PromoteOutlink, Rest
  <2>2. PICK d : d = AddTargetRow(db, o.coll, p, v)
    OBVIOUS
  <2>3. o.coll \in IdsOf(db) /\ ~\E t \in db.tgt : t.coll = o.coll /\ t.prefix = p
    BY <1>0, <2>1 DEF Good, OutlRows, HasTarget
  <2>4. Good(d) /\ d.outl = db.outl
    BY <1>0, <2>2, <2>3, AddTargetGood
  <2>5. db' = Settled(d, o, "promoted")
    BY <2>1, <2>2 DEF mark_promoted, Settled
  <2>6. /\ Good(db')
        /\ \A n \in db'.outl : n \in d.outl \/
             (/\ n.coll = o.coll /\ n.host = o.host /\ n.status # "pending"
              /\ n.count = o.count /\ n.examples = o.examples)
    <3>1. o \in d.outl /\ "promoted" \in {"promoted", "dismissed"}
      BY <2>4
    <3> QED BY <2>4, <2>5, <3>1, SettleGood
  <2>7. Kept(db, db')
    BY <1>1, <2>4, <2>6
  <2> QED BY <2>1, <2>6, <2>7 DEF CInv
<1>3. ASSUME NEW o \in db.outl, DismissOutlink(o) PROVE CInv' /\ Kept(db, db')
  <2>1. db' = Settled(db, o, "dismissed") /\ UNCHANGED <<fk, adding, index>>
    BY <1>3 DEF DismissOutlink, mark_dismissed, Rest, Settled
  <2>2. /\ Good(db')
        /\ \A n \in db'.outl : n \in db.outl \/
             (/\ n.coll = o.coll /\ n.host = o.host /\ n.status # "pending"
              /\ n.count = o.count /\ n.examples = o.examples)
    <3>1. "dismissed" \in {"promoted", "dismissed"}
      OBVIOUS
    <3> QED BY <1>0, <2>1, <3>1, SettleGood
  <2>3. Kept(db, db')
    BY <1>1, <2>2
  <2> QED BY <2>1, <2>2, <2>3 DEF CInv
<1> QED BY <1>2, <1>3

\* The crawler and the indexer.
LEMMA CrawlerSteps ==
    ASSUME CInv
    PROVE  /\ \A t \in db.tgt, u \in Url, b \in Body, h \in Host, e \in Example :
                Crawl(t, u, b, h, e) => CInv' /\ Kept(db, db')
           /\ IndexNext => CInv' /\ Kept(db, db')
           /\ IndexerStops \/ Crash => CInv' /\ Kept(db, db')
<1>0. Good(db)
  BY DEF CInv
<1>1. ASSUME NEW t \in db.tgt, NEW u \in Url, NEW b \in Body, NEW h \in Host, NEW e \in Example,
             Crawl(t, u, b, h, e)
      PROVE  CInv' /\ Kept(db, db')
  <2>1. PICK indexed : db' = Crawled(db, t, u, PageHash(b), indexed, h, e)
    BY <1>1 DEF Crawl, Crawled, Prior, Row
  <2>2. UNCHANGED <<fk, adding, index>>
    BY <1>1 DEF Crawl
  <2>3. Good(db') /\ db'.outl = record_hit(db.outl, t.coll, h, e)
    BY <1>0, <2>1, CrawlGood
  <2>4. t.coll \in IdsOf(db)
    BY <1>0 DEF Good, TgtRows
  <2>5. \A o \in db.outl : o.status # "pending" =>
          \A n \in db'.outl : n.coll = o.coll /\ n.host = o.host => n = o
    <3>1. \A o \in db.outl : o.status # "pending" =>
            \A n \in record_hit(db.outl, t.coll, h, e) : n.coll = o.coll /\ n.host = o.host => n = o
      BY <1>0, <2>4, HitGood
    <3> QED BY <2>3, <3>1
  <2>6. Kept(db, db')
    BY <2>5 DEF Kept
  <2> QED BY <2>2, <2>3, <2>6 DEF CInv
<1>2. ASSUME IndexNext PROVE CInv' /\ Kept(db, db')
  <2>1. PICK j, rows :
          /\ rows = {p \in db.page : p.coll = j.coll /\ p.url = j.url}
          /\ index' = {x \in index : x.url # j.url} \cup {[name |-> j.name, url |-> j.url,
                                                          body |-> j.body]}
          /\ db' = Marked(db, rows, j.hash)
    BY <1>2 DEF IndexNext, Marked
  <2>2. UNCHANGED <<fk, adding>>
    BY <1>2 DEF IndexNext
  <2>3. rows \subseteq db.page
    BY <2>1
  <2>4. Good(db') /\ db'.outl = db.outl
    <3>1. PICK hash : db' = Marked(db, rows, hash)
      BY <2>1
    <3> QED BY <1>0, <2>3, <3>1, MarkGood
  <2>5. \A x, y \in index' : x.url = y.url => x = y
    BY <2>1 DEF CInv
  <2> QED BY <1>0, <2>2, <2>4, <2>5, KeptFacts DEF CInv
<1>3. ASSUME IndexerStops \/ Crash PROVE CInv' /\ Kept(db, db')
  <2>1. /\ UNCHANGED <<db, index>> /\ (fk' = fk \/ fk' = TRUE)
        /\ adding' = adding \/ adding' = None
    BY <1>3 DEF IndexerStops, Crash
  <2> QED BY <1>0, <2>1, KeptFacts DEF CInv
<1> QED BY <1>1, <1>2, <1>3

\* The peers, and an import.
LEMMA PeerSteps ==
    ASSUME CInv
    PROVE  /\ \A u \in PeerUrl : AddPeer(u) => CInv' /\ Kept(db, db')
           /\ \A p \in db.peers : DeletePeer(p) => CInv' /\ Kept(db, db')
           /\ \A n \in Name, p \in db.peers, remote \in Remote :
                Subscribe(n, p, remote) => CInv' /\ Kept(db, db')
           /\ \A a \in Archives : Import(a) => CInv' /\ Kept(db, db')
<1>0. /\ Good(db) /\ DOMAIN db = Tables
      /\ \A p, q \in db.peers : p.url = q.url => p = q
      /\ \A x \in db.subs : \E p \in db.peers : p.url = x.url
  <2>1. Good(db) /\ DOMAIN db = Tables
    BY DEF CInv, Good, IsDb
  <2>2. /\ \A p, q \in db.peers : p.url = q.url => p = q
        /\ \A x \in db.subs : \E p \in db.peers : p.url = x.url
    BY DEF CInv, Good, PeerRows, PeerUrls, Unique
  <2> QED BY <2>1, <2>2
<1>1. ASSUME NEW peers, NEW subs,
             \A p, q \in peers : p.url = q.url => p = q,
             \A x \in subs : \E p \in peers : p.url = x.url,
             db' = Peered(db, peers, subs),
             UNCHANGED <<fk, adding, index>>
      PROVE  CInv' /\ Kept(db, db')
  <2>1. Good(db') /\ db'.outl = db.outl
    BY <1>0, <1>1, PeersGood
  <2> QED BY <1>0, <1>1, <2>1, KeptFacts DEF CInv
<1>2. ASSUME NEW u \in PeerUrl, AddPeer(u) PROVE CInv' /\ Kept(db, db')
  <2>1. PICK peers : peers = db.peers \cup {[url |-> u, enabled |-> TRUE]}
    OBVIOUS
  <2>2. u \notin PeerUrls(db) /\ db' = [db EXCEPT !.peers = peers] /\ UNCHANGED <<fk, adding, index>>
    BY <1>2, <2>1 DEF AddPeer, Rest
  <2>3. db' = Peered(db, peers, db.subs)
    BY <1>0, <2>2 DEF Tables, Peered
  <2>4. \A p, q \in peers : p.url = q.url => p = q
    <3>1. \A p \in db.peers : p.url # u
      BY <2>2 DEF PeerUrls
    <3> DEFINE new == [url |-> u, enabled |-> TRUE]
    <3>2. peers = db.peers \cup {new} /\ new.url = u
      BY <2>1
    <3> HIDE DEF new
    <3> QED BY <1>0, <3>1, <3>2
  <2>5. \A x \in db.subs : \E p \in peers : p.url = x.url
    BY <1>0, <2>1
  <2> QED BY <1>1, <2>2, <2>3, <2>4, <2>5
<1>3. ASSUME NEW p \in db.peers, DeletePeer(p) PROVE CInv' /\ Kept(db, db')
  <2>1. PICK peers, subs : peers = db.peers \ {p} /\ subs = {s \in db.subs : ~fk \/ s.url # p.url}
    OBVIOUS
  <2>2. db' = Peered(db, peers, subs) /\ UNCHANGED <<fk, adding, index>>
    BY <1>3, <2>1 DEF DeletePeer, Rest, Peered
  <2>3. \A x \in subs : x \in db.subs /\ x.url # p.url
    BY <2>1 DEF CInv
  <2>4. \A x \in subs : \E q \in peers : q.url = x.url
    BY <1>0, <2>1, <2>3
  <2>5. \A q, r \in peers : q.url = r.url => q = r
    BY <1>0, <2>1
  <2> QED BY <1>1, <2>2, <2>4, <2>5
<1>4. ASSUME NEW n \in Name, NEW p \in db.peers, NEW remote \in Remote, Subscribe(n, p, remote)
      PROVE  CInv' /\ Kept(db, db')
  <2>1. PICK s : s = [local |-> n, url |-> p.url, remote |-> remote]
    OBVIOUS
  <2>2. PICK subs : subs = db.subs \cup {s}
    OBVIOUS
  <2>3. db' = [db EXCEPT !.subs = subs] /\ UNCHANGED <<fk, adding, index>>
    BY <1>4, <2>1, <2>2 DEF Subscribe, Rest
  <2>4. db' = Peered(db, db.peers, subs)
    BY <1>0, <2>3 DEF Tables, Peered
  <2>5. \A x \in subs : \E q \in db.peers : q.url = x.url
    BY <1>0, <2>1, <2>2
  <2> QED BY <1>0, <1>1, <2>3, <2>4, <2>5
<1>5. ASSUME NEW a \in Archives, Import(a) PROVE CInv' /\ Kept(db, db')
  <2>1. db' = Apply(a, db).db /\ fk' = TRUE /\ UNCHANGED <<adding, index>>
    BY <1>5 DEF Import, FkAfter
  <2>2. FALSE \in BOOLEAN
    OBVIOUS
  <2>3. Good(db') /\ Extends(db, db')
    BY <1>0, <2>1, <2>2, ApplyFacts
  <2> QED BY <1>0, <2>1, <2>3, KeptFacts DEF CInv
<1> QED BY <1>2, <1>3, <1>4, <1>5

LEMMA NextCInv == CInv /\ [Next]_vars => CInv' /\ Kept(db, db')
<1> SUFFICES ASSUME CInv, [Next]_vars PROVE CInv' /\ Kept(db, db')
  OBVIOUS
<1>1. CASE UNCHANGED vars
  <2>1. UNCHANGED <<db, fk, adding, index>>
    BY <1>1 DEF vars
  <2> QED BY <2>1, KeptFacts DEF CInv
<1>2. CASE Next
  BY <1>2, CollectionSteps, TargetSteps, OutlinkSteps, CrawlerSteps, PeerSteps, Zenon DEF Next
<1> QED BY <1>1, <1>2

\* Every state of the catalogue satisfies CInv.
THEOREM CatalogInvariance == Spec => []CInv
BY InitCInv, NextCInv, PTL DEF Spec


\* Referential: no reference dangles and no key is used twice, whatever is
\* deleted after whatever import (001_init.sql, apply_envelope).
THEOREM ReferencesHold == Spec => []Referential
<1>1. CInv => Referential
  <2> SUFFICES ASSUME CInv PROVE Referential
    OBVIOUS
  <2>1. /\ CollRows(db) /\ TgtRows(db) /\ PageRows(db) /\ RankRows(db) /\ OutlRows(db)
        /\ PeerRows(db)
    BY DEF CInv, Good
  <2>2. TypeOK
    <3>1. Unique(index, LAMBDA x : x.url)
      BY DEF CInv, Unique
    <3>2. \A o \in db.outl : o.status \in Status /\ Len(o.examples) <= MAX_EXAMPLES
      BY <2>1 DEF OutlRows, Verdict
    <3> QED BY <2>1, <3>1, <3>2
            DEF TypeOK, CInv, CollRows, TgtRows, PageRows, RankRows, OutlRows, PeerRows
  <2>3. /\ \A x \in db.tgt \cup db.outl : x.coll \in IdsOf(db)
        /\ \A p \in db.page : HasTarget(p.coll, p.prefix)
        /\ \A s \in db.subs : s.url \in PeerUrls(db)
    BY <2>1 DEF TgtRows, OutlRows, PageRows, PeerRows, HasTarget
  <2> QED BY <2>2, <2>3 DEF Referential
<1> QED BY <1>1, CatalogInvariance, PTL

\* SettledStays: no step lists a promoted or dismissed host again, or counts
\* another hit on it (record_hit, apply_envelope_inner).
THEOREM SettledStay == Spec => SettledStays
<1>1. CInv /\ [Next]_vars =>
        [\A o \in db.outl : o.status # "pending" =>
           \A n \in db'.outl : n.coll = o.coll /\ n.host = o.host =>
              n.status # "pending" /\ n.count = o.count /\ n.examples = o.examples]_vars
  BY NextCInv DEF Kept
<1> QED BY <1>1, CatalogInvariance, PTL DEF Spec, SettledStays

\* ImportAdditive: in every state the catalogue reaches, whatever an archive
\* holds, its import takes no row away and adds none under a collection that is
\* there (apply_envelope_inner).
THEOREM ImportsAreAdditive == Spec => []ImportAdditive
<1>1. CInv => ImportAdditive
  <2> SUFFICES ASSUME CInv, NEW a \in Archives
               PROVE  LET new == Apply(a, db).db
                      IN  /\ \A table \in {"coll", "tgt", "page", "rank", "outl", "peers", "subs"} :
                               db[table] \subseteq new[table]
                          /\ \A table \in {"tgt", "page", "outl"} :
                               \A x \in new[table] \ db[table] : x.coll \notin IdsOf(db)
                          /\ \A k \in new.rank \ db.rank : \A c \in db.coll : c.row # k.row
    BY DEF ImportAdditive
  <2>1. PICK new : new = Apply(a, db).db
    OBVIOUS
  <2>2. Good(db) /\ FALSE \in BOOLEAN
    BY DEF CInv
  <2>3. Extends(db, new)
    BY <2>1, <2>2, ApplyFacts
  <2> QED BY <2>1, <2>3 DEF Extends
<1> QED BY <1>1, CatalogInvariance, PTL

-----------------------------------------------------------------------------
(* The documents on their way *)

WholeArchives == \A a \in Archives : \A n \in 1..Len(a.colls) : Whole(a.colls[n])

QInv ==
    /\ jobs \in Seq(Job)
    /\ WholeArchives /\ fault = "none" => Covered(db.page, jobs)

\* A job is for a hash, which None is not.
LEMMA HashesAreSome == \A j \in Job : j.hash # None
<1> SUFFICES ASSUME NEW j \in Job PROVE j.hash # None
  OBVIOUS
<1>1. PICK b \in Body : j.hash = <<"page", b>> \/ j.hash = <<"body", b>>
  BY DEF Job
<1> QED BY <1>1, CatalogAssumption DEF PageHash, doc_content_hash

\* The steps that send nothing and file no page.
LEMMA QuietSteps ==
    ASSUME CInv, QInv, jobs' = jobs, fault' = fault, db'.page \subseteq db.page
    PROVE  QInv'
BY DEF QInv, Covered

\* What the handlers of the admin do to the pages.
LEMMA AdminPages ==
    ASSUME CInv,
           \/ \E n \in Name : CreateCollection(n)
           \/ \E c \in db.coll, n \in Name : RenameCollection(c, n)
           \/ \E c \in db.coll : DeleteCollection(c)
           \/ \E c \in db.coll, k \in Cfg : PutRanking(c, k)
           \/ \E c \in db.coll, p \in Prefix : AddStart(c, p)
           \/ \E p \in Prefix, v \in Every : AddFinish(p, v)
           \/ \E t \in db.tgt : RemoveTarget(t)
           \/ \E t \in db.tgt, v \in Every : SetInterval(t, v)
           \/ \E t \in db.tgt, v \in Delay : SetCrawlDelay(t, v)
           \/ \E o \in db.outl, p \in Prefix, v \in Every : PromoteOutlink(o, p, v)
           \/ \E o \in db.outl : DismissOutlink(o)
           \/ \E u \in PeerUrl : AddPeer(u)
           \/ \E p \in db.peers : DeletePeer(p)
           \/ \E n \in Name, p \in db.peers, remote \in Remote : Subscribe(n, p, remote)
    PROVE  jobs' = jobs /\ fault' = fault /\ db'.page \subseteq db.page
<1>0. DOMAIN db = Tables /\ "page" \in Tables
  BY DEF CInv, Good, IsDb, Tables
<1>1. ASSUME NEW n, CreateCollection(n)
      PROVE  jobs' = jobs /\ fault' = fault /\ db'.page \subseteq db.page
  BY <1>0, <1>1 DEF CreateCollection, InsertCollection, Rest
<1>2. ASSUME NEW c, NEW n, RenameCollection(c, n) \/ DeleteCollection(c) \/ PutRanking(c, n)
      PROVE  jobs' = jobs /\ fault' = fault /\ db'.page \subseteq db.page
  BY <1>0, <1>2 DEF RenameCollection, update_item, DeleteCollection, delete_item, PutRanking,
                    upsert_ranking, Rest
<1>3. ASSUME NEW c, NEW p, AddStart(c, p) \/ AddFinish(c, p)
      PROVE  jobs' = jobs /\ fault' = fault /\ db'.page \subseteq db.page
  BY <1>0, <1>3 DEF AddStart, AddFinish, AddTargetRow
<1>4. ASSUME NEW t, NEW v, RemoveTarget(t) \/ SetInterval(t, v) \/ SetCrawlDelay(t, v)
      PROVE  jobs' = jobs /\ fault' = fault /\ db'.page \subseteq db.page
  BY <1>0, <1>4 DEF RemoveTarget, remove, SetInterval, set_interval, SetCrawlDelay,
                    set_crawl_delay, Rest
<1>5. ASSUME NEW o, NEW p, NEW v, PromoteOutlink(o, p, v) \/ DismissOutlink(o)
      PROVE  jobs' = jobs /\ fault' = fault /\ db'.page \subseteq db.page
  BY <1>0, <1>5 DEF PromoteOutlink, AddTargetRow, mark_promoted, DismissOutlink, mark_dismissed,
                    Rest
<1>6. ASSUME NEW u, NEW p, NEW r, AddPeer(u) \/ DeletePeer(p) \/ Subscribe(u, p, r)
      PROVE  jobs' = jobs /\ fault' = fault /\ db'.page \subseteq db.page
  BY <1>0, <1>6 DEF AddPeer, DeletePeer, Subscribe, Rest
<1> QED BY <1>1, <1>2, <1>3, <1>4, <1>5, <1>6

\* A page crawled: its job is sent, unless the row has been indexed.
LEMMA CrawlQueued ==
    ASSUME CInv, QInv, NEW t \in db.tgt, NEW u \in Url, NEW b \in Body, NEW h \in Host,
           NEW e \in Example, Crawl(t, u, b, h, e)
    PROVE  QInv'
<1> DEFINE prior == Prior(db, t, u)
           indexed == IF prior = {} THEN None ELSE (CHOOSE p \in prior : TRUE).indexed
           name == (CHOOSE c \in db.coll : c.id = t.coll).name
           j == [name |-> name, url |-> u, coll |-> t.coll, body |-> b, hash |-> PageHash(b)]
<1>1. /\ db' = Crawled(db, t, u, PageHash(b), indexed, h, e)
      /\ jobs' = IF indexed = PageHash(b) THEN jobs ELSE Append(jobs, j)
      /\ t.coll \in IdsOf(db) /\ fault' = fault
  BY DEF Crawl, Crawled, Prior, Row
<1>2. name \in Name /\ t.coll \in Nat
  <2>1. \E c \in db.coll : c.id = t.coll
    BY <1>1 DEF IdsOf
  <2>2. \A c \in db.coll : c.name \in Name /\ c.id \in Nat
    BY DEF CInv, Good, CollRows
  <2> QED BY <2>1, <2>2
<1> HIDE DEF name, indexed
<1>3. j \in Job
  BY <1>2 DEF Job, PageHash
<1>4. j.coll = t.coll /\ j.url = u
  OBVIOUS
<1> HIDE DEF j
<1>5. db'.page = (db.page \ prior) \cup {Row(t, u, PageHash(b), indexed)}
  <2>1. Good(db)
    BY DEF CInv
  <2> QED BY <1>1, <2>1, CrawlGood
<1>6. /\ Row(t, u, PageHash(b), indexed).coll = t.coll
      /\ Row(t, u, PageHash(b), indexed).url = u
      /\ Row(t, u, PageHash(b), indexed).indexed = indexed
  BY DEF Row
<1>7. CASE indexed = PageHash(b)
  <2>1. indexed # None /\ jobs' = jobs
    BY <1>1, <1>7, CatalogAssumption
  <2> QED BY <1>1, <1>5, <1>6, <2>1 DEF QInv, Covered
<1>8. CASE indexed # PageHash(b)
  <2>1. jobs \in Seq(Job) /\ jobs' = Append(jobs, j)
    BY <1>1, <1>8 DEF QInv
  <2>2. /\ jobs' \in Seq(Job) /\ Len(jobs) \in Nat /\ Len(jobs') = Len(jobs) + 1
        /\ jobs'[Len(jobs) + 1] = j /\ \A k \in 1..Len(jobs) : jobs'[k] = jobs[k]
    BY <1>3, <2>1
  <2>3. ASSUME WholeArchives, fault' = "none" PROVE Covered(db'.page, jobs')
    <3>1. Covered(db.page, jobs)
      BY <1>1, <2>3 DEF QInv
    <3> SUFFICES ASSUME NEW p \in db'.page, p.indexed = None
                 PROVE  \E k \in 1..Len(jobs') : jobs'[k].coll = p.coll /\ jobs'[k].url = p.url
      BY DEF Covered
    <3>2. CASE p \in db.page
      <4>1. PICK k \in 1..Len(jobs) : jobs[k].coll = p.coll /\ jobs[k].url = p.url
        BY <3>1, <3>2 DEF Covered
      <4> QED BY <2>2, <4>1
    <3>3. CASE p \notin db.page
      <4>1. p.coll = t.coll /\ p.url = u
        BY <1>5, <1>6, <3>3
      <4>2. Len(jobs) + 1 \in 1..Len(jobs')
        BY <2>2
      <4> QED BY <1>4, <2>2, <4>1, <4>2
    <3> QED BY <3>2, <3>3
  <2> QED BY <2>2, <2>3 DEF QInv
<1> QED BY <1>7, <1>8

\* A job done: the row it was for is marked with a hash.
LEMMA IndexQueued ==
    ASSUME CInv, QInv, IndexNext
    PROVE  QInv'
<1> DEFINE j == Head(jobs)
           rows == {p \in db.page : p.coll = j.coll /\ p.url = j.url}
<1>0. j = jobs[1]
  BY DEF IndexNext, QInv
<1>1. /\ jobs # <<>> /\ jobs' = Tail(jobs) /\ fault' = fault
      /\ db' = Marked(db, rows, j.hash)
  BY DEF IndexNext, Marked
<1> HIDE DEF j
<1>2. /\ jobs \in Seq(Job) /\ Len(jobs) \in Nat \ {0} /\ jobs' \in Seq(Job)
      /\ Len(jobs') = Len(jobs) - 1
      /\ \A k \in 1..Len(jobs') : jobs'[k] = jobs[k + 1]
  BY <1>1 DEF QInv
<1>3. PICK hash : hash = j.hash /\ hash # None
  BY <1>0, <1>2, HashesAreSome
<1>4. \A p \in db'.page : p \in db.page \ rows \/ p.indexed = hash
  <2>1. Good(db) /\ rows \subseteq db.page /\ db' = Marked(db, rows, hash)
    BY <1>1, <1>3 DEF CInv
  <2> QED BY <2>1, MarkGood
<1>5. ASSUME WholeArchives, fault' = "none" PROVE Covered(db'.page, jobs')
  <2>1. Covered(db.page, jobs)
    BY <1>1, <1>5 DEF QInv
  <2> SUFFICES ASSUME NEW p \in db'.page, p.indexed = None
               PROVE  \E k \in 1..Len(jobs') : jobs'[k].coll = p.coll /\ jobs'[k].url = p.url
    BY DEF Covered
  <2>2. p \in db.page /\ p \notin rows
    BY <1>3, <1>4
  <2>3. PICK k \in 1..Len(jobs) : jobs[k].coll = p.coll /\ jobs[k].url = p.url
    BY <2>1, <2>2 DEF Covered
  <2>4. k # 1
    BY <1>0, <2>2, <2>3
  <2>5. k - 1 \in 1..Len(jobs') /\ jobs'[k - 1] = jobs[k]
    BY <1>2, <2>3, <2>4
  <2> QED BY <2>3, <2>5
<1> QED BY <1>2, <1>5 DEF QInv

\* An import: its jobs cover its pages.
LEMMA ImportQueued ==
    ASSUME CInv, QInv, NEW a \in Archives, Import(a)
    PROVE  QInv'
<1>1. PICK new, js : new = Apply(a, db).db /\ js = Apply(a, db).jobs
  OBVIOUS
<1>2. db' = new /\ fault' = fault /\ jobs' = IF IndexerUp THEN jobs \o js ELSE jobs
  BY <1>1 DEF Import
<1>3. /\ js \in Seq(Job) /\ db.page \subseteq new.page
      /\ WholeArchives => Covered(new.page \ db.page, js)
  <2>1. PICK whole \in BOOLEAN : whole <=> WholeArchives
    OBVIOUS
  <2>2. Good(db) /\ (whole => \A n \in 1..Len(a.colls) : Whole(a.colls[n]))
    BY <2>1 DEF CInv, WholeArchives
  <2>3. /\ Extends(db, Apply(a, db).db) /\ Apply(a, db).jobs \in Seq(Job)
        /\ whole => Covered(Apply(a, db).db.page \ db.page, Apply(a, db).jobs)
    BY <2>2, ApplyFacts
  <2> QED BY <1>1, <2>1, <2>3 DEF Extends
<1>4. jobs' \in Seq(Job)
  BY <1>2, <1>3 DEF QInv
<1>5. ASSUME WholeArchives, fault' = "none" PROVE Covered(db'.page, jobs')
  <2>1. Covered(db.page, jobs) /\ jobs \in Seq(Job) /\ jobs' = jobs \o js
    BY <1>2, <1>5 DEF QInv, IndexerUp
  <2>2. Covered(db.page \cup (new.page \ db.page), jobs \o js)
    BY <1>3, <1>5, <2>1, CoveredConcat
  <2>3. db.page \cup (new.page \ db.page) = new.page
    BY <1>3
  <2> QED BY <1>2, <2>1, <2>2, <2>3
<1> QED BY <1>4, <1>5 DEF QInv

LEMMA NextQInv == CInv /\ QInv /\ [Next]_vars => QInv'
<1> SUFFICES ASSUME CInv, QInv, [Next]_vars PROVE QInv'
  OBVIOUS
<1>1. CASE UNCHANGED vars
  BY <1>1 DEF vars, QInv
<1>2. ASSUME IndexerStops \/ Crash PROVE QInv'
  <2>1. jobs' = <<>> /\ fault' # "none"
    BY <1>2 DEF IndexerStops, Crash
  <2> QED BY <2>1 DEF QInv
<1>3. CASE Next
  BY <1>2, <1>3, AdminPages, QuietSteps, CrawlQueued, IndexQueued, ImportQueued, Zenon DEF Next
<1> QED BY <1>1, <1>3

LEMMA QueueInvariance == Spec => []QInv
<1>1. Init => QInv
  BY DEF Init, EmptyDb, QInv, Covered
<1> QED BY <1>1, NextQInv, CatalogInvariance, PTL DEF Spec

\* UnindexedIsQueued: until a fault loses it, a page that is not marked indexed
\* has its document on the way, for archives that hold a document for each of
\* their pages (crawl_page, mark_indexed_batch, apply_envelope_inner).
THEOREM UnindexedAreQueued ==
    ASSUME WholeArchives
    PROVE  Spec => []UnindexedIsQueued
<1>1. QInv => UnindexedIsQueued
  <2>1. jobs \in Seq(Job) => DOMAIN jobs = 1..Len(jobs)
    OBVIOUS
  <2> QED BY <2>1 DEF QInv, UnindexedIsQueued, Covered
<1> QED BY <1>1, QueueInvariance, PTL

-----------------------------------------------------------------------------
(* The export *)

Doc == [name : Name, url : Url, body : Body]

\* The documents of the index are records, finitely many.
IndexInv == IsFiniteSet(index) /\ index \subseteq Doc

LEMMA NextIndexInv == QInv /\ IndexInv /\ [Next]_vars => IndexInv'
<1> SUFFICES ASSUME QInv, IndexInv, [Next]_vars PROVE IndexInv'
  OBVIOUS
<1>1. ASSUME IndexNext PROVE IndexInv'
  <2>1. PICK j : /\ j = Head(jobs) /\ jobs # <<>>
                 /\ index' = {x \in index : x.url # j.url} \cup
                             {[name |-> j.name, url |-> j.url, body |-> j.body]}
    BY <1>1 DEF IndexNext
  <2>2. j \in Job
    BY <2>1 DEF QInv
  <2>3. [name |-> j.name, url |-> j.url, body |-> j.body] \in Doc
    BY <2>2 DEF Job, Doc
  <2> DEFINE kept == {x \in index : x.url # j.url}
             new == [name |-> j.name, url |-> j.url, body |-> j.body]
  <2>4. kept \in SUBSET index
    OBVIOUS
  <2> HIDE DEF kept, new
  <2>5. IsFiniteSet(kept)
    BY <2>4, FS_Subset DEF IndexInv
  <2>6. IsFiniteSet(kept \cup {new})
    BY <2>5, FS_AddElement, Zenon
  <2>7. index' = kept \cup {new} /\ new \in Doc
    BY <2>1, <2>3 DEF kept, new
  <2> QED BY <2>4, <2>6, <2>7 DEF IndexInv
<1>2. ASSUME NEW t, RemoveTarget(t) PROVE IndexInv'
  <2>1. index' \in SUBSET index
    BY <1>2 DEF RemoveTarget
  <2>2. IsFiniteSet(index')
    BY <2>1, FS_Subset DEF IndexInv
  <2> QED BY <2>1, <2>2 DEF IndexInv
<1>3. ASSUME UNCHANGED index PROVE IndexInv'
  BY <1>3 DEF IndexInv
<1>4. ASSUME Next, ~IndexNext, ~\E t \in db.tgt : RemoveTarget(t) PROVE UNCHANGED index
  <2>1. \A c, n : \/ CreateCollection(n) \/ RenameCollection(c, n) \/ DeleteCollection(c)
                  \/ PutRanking(c, n) \/ AddStart(c, n) \/ AddFinish(c, n)
                  => UNCHANGED index
    BY DEF CreateCollection, RenameCollection, DeleteCollection, PutRanking, AddStart, AddFinish, Rest
  <2>2. \A t, v, w : \/ SetInterval(t, v) \/ SetCrawlDelay(t, v) \/ PromoteOutlink(t, v, w)
                     \/ DismissOutlink(t)
                     => UNCHANGED index
    BY DEF SetInterval, SetCrawlDelay, PromoteOutlink, DismissOutlink, Rest
  <2>3. \A t, u, b, h, e : Crawl(t, u, b, h, e) => UNCHANGED index
    BY DEF Crawl
  <2>4. IndexerStops \/ Crash => UNCHANGED index
    BY DEF IndexerStops, Crash
  <2>5. \A n, p, v : AddPeer(n) \/ DeletePeer(p) \/ Subscribe(n, p, v) \/ Import(n) => UNCHANGED index
    BY DEF AddPeer, DeletePeer, Subscribe, Import, Rest
  <2> QED BY <1>4, <2>1, <2>2, <2>3, <2>4, <2>5, Zenon DEF Next
<1>5. UNCHANGED vars => UNCHANGED index
  BY DEF vars
<1> QED BY <1>1, <1>2, <1>3, <1>4, <1>5

LEMMA IndexInvariance == Spec => []IndexInv
<1>1. Init => IndexInv
  BY FS_EmptySet DEF Init, IndexInv
<1> QED BY <1>1, NextIndexInv, QueueInvariance, PTL DEF Spec

\* ORDER BY name lists every collection once.
LEMMA ByNameFacts ==
    ASSUME NEW d, CollRows(d), NEW N, N = Cardinality(d.coll)
    PROVE  /\ N \in Nat
           /\ \A k \in 1..N : ByName(d, k) \in d.coll
           /\ \A c \in d.coll : \E k \in 1..N : ByName(d, k) = c
           /\ \A j, k \in 1..N : ByName(d, j) = ByName(d, k) => j = k
<1> DEFINE below(c) == {b \in d.coll : b.name < c.name}
           f == [c \in d.coll |-> Cardinality(below(c)) + 1]
<1>0. /\ IsFiniteSet(d.coll) /\ \A c \in d.coll : c.name \in Nat
      /\ \A b, c \in d.coll : b.name = c.name => b = c
  BY CatalogAssumption DEF CollRows, Unique
<1>1. N \in Nat
  BY <1>0, FS_CardinalityType
<1>2. ASSUME NEW c \in d.coll
      PROVE  IsFiniteSet(below(c)) /\ Cardinality(below(c)) \in Nat /\ Cardinality(below(c)) < N
  <2>1. below(c) \in SUBSET d.coll /\ c \notin below(c)
    BY <1>0
  <2> HIDE DEF below
  <2>2. /\ IsFiniteSet(below(c)) /\ Cardinality(below(c)) <= N
        /\ N = Cardinality(below(c)) => d.coll = below(c)
    BY <1>0, <2>1, FS_Subset
  <2>3. Cardinality(below(c)) \in Nat
    BY <2>2, FS_CardinalityType
  <2> QED BY <1>1, <2>1, <2>2, <2>3
<1>3. ASSUME NEW b \in d.coll, NEW c \in d.coll, b.name < c.name
      PROVE  Cardinality(below(b)) < Cardinality(below(c))
  <2>1. below(b) \in SUBSET below(c) /\ b \in below(c) /\ b \notin below(b)
    BY <1>0, <1>3
  <2> HIDE DEF below
  <2>2. /\ Cardinality(below(b)) <= Cardinality(below(c))
        /\ Cardinality(below(c)) = Cardinality(below(b)) => below(c) = below(b)
    BY <1>2, <2>1, FS_Subset
  <2> QED BY <1>2, <2>1, <2>2
<1>4. f \in Injection(d.coll, 1..N)
  <2>1. f \in [d.coll -> 1..N]
    <3> HIDE DEF below
    <3> QED BY <1>1, <1>2
  <2>2. ASSUME NEW b \in d.coll, NEW c \in d.coll, f[b] = f[c] PROVE b = c
    <3>1. Cardinality(below(b)) = Cardinality(below(c))
      <4> HIDE DEF below
      <4> QED BY <1>2, <2>2
    <3>2. ~(b.name < c.name) /\ ~(c.name < b.name)
      <4> HIDE DEF below
      <4> QED BY <1>2, <1>3, <3>1
    <3> QED BY <1>0, <3>2
  <2> HIDE DEF f
  <2> QED BY <2>1, <2>2 DEF Injection, IsInjective
<1>5. f \in Surjection(d.coll, 1..N)
  <2>1. IsFiniteSet(1..N) /\ Cardinality(1..N) = N
    BY <1>1, FS_Interval
  <2> HIDE DEF f
  <2> QED BY <1>4, <2>1, FS_Injection
<1>6. \A k \in 1..N : \E c \in d.coll : f[c] = k
  <2> HIDE DEF f
  <2> QED BY <1>5 DEF Surjection
<1>7. ASSUME NEW k \in 1..N
      PROVE  ByName(d, k) \in d.coll /\ f[ByName(d, k)] = k
  <2>1. \E c \in d.coll : Cardinality(below(c)) = k - 1
    <3>1. PICK c \in d.coll : f[c] = k
      BY <1>6
    <3> HIDE DEF below
    <3> QED BY <1>2, <3>1
  <2>2. ByName(d, k) = CHOOSE c \in d.coll : Cardinality(below(c)) = k - 1
    BY DEF ByName
  <2>3. ByName(d, k) \in d.coll /\ Cardinality(below(ByName(d, k))) = k - 1
    <3> HIDE DEF below
    <3> QED BY <2>1, <2>2
  <2> HIDE DEF below
  <2> QED BY <2>3
<1>8. \A b, c \in d.coll : f[b] = f[c] => b = c
  <2> HIDE DEF f
  <2> QED BY <1>4 DEF Injection, IsInjective
<1>9. \A c \in d.coll : f[c] \in 1..N
  <2> HIDE DEF f
  <2> QED BY <1>4 DEF Injection
<1> HIDE DEF f
<1>10. ASSUME NEW c \in d.coll PROVE ByName(d, f[c]) = c
  BY <1>7, <1>8, <1>9
<1> QED BY <1>1, <1>7, <1>9, <1>10

\* What a collection is exported with.
LEMMA ExportFields ==
    ASSUME NEW d, NEW ix, NEW c, NEW x, x = ExportCollection(d, ix, c)
    PROVE  /\ x.name = c.name /\ x.targets = ExportTargets(d, c.id)
           /\ x.rank = ExportRanking(d, c.row) /\ x.outlinks = ExportOutlinks(d, c.id)
           /\ x.docs = ExportDocs(ix, c.name)
BY DEF ExportCollection

\* Its rows on the importing side are its own, under the new uuid.
LEMMA ExportedTargets ==
    ASSUME NEW d, NEW ix, NEW c, NEW id, NEW x, x = ExportCollection(d, ix, c)
    PROVE  NewTargets(x, id) = {[coll |-> id, prefix |-> t.prefix, every |-> t.every,
                                 delay |-> t.delay] : t \in {u \in d.tgt : u.coll = c.id}}
<1> DEFINE sent(t) == [prefix |-> t.prefix, every |-> t.every, delay |-> t.delay,
                       pages |-> ExportPages(d, t)]
           row(t) == [coll |-> id, prefix |-> t.prefix, every |-> t.every, delay |-> t.delay]
           own == {u \in d.tgt : u.coll = c.id}
<1>1. x.targets = {sent(t) : t \in own}
  BY ExportFields DEF ExportTargets
<1>2. NewTargets(x, id) = {row(t) : t \in x.targets}
  BY DEF NewTargets
<1>3. \A t \in own : row(sent(t)) = row(t)
  OBVIOUS
<1> HIDE DEF sent, row, own
<1>4. NewTargets(x, id) = {row(t) : t \in own}
  BY <1>1, <1>2, <1>3
<1> QED BY <1>4 DEF row, own

LEMMA ExportedOutlinks ==
    ASSUME NEW d, NEW ix, NEW c, NEW id, NEW x, x = ExportCollection(d, ix, c)
    PROVE  NewOutlinks(x, id) = {[coll |-> id, host |-> o.host, count |-> o.count,
                                  examples |-> o.examples, status |-> o.status] :
                                    o \in {q \in d.outl : q.coll = c.id}}
<1> DEFINE row(o) == [coll |-> id, host |-> o.host, count |-> o.count, examples |-> o.examples,
                      status |-> o.status]
           own == {q \in d.outl : q.coll = c.id}
<1>1. x.outlinks = {Suggestion(o) : o \in own}
  BY ExportFields DEF ExportOutlinks
<1>2. NewOutlinks(x, id) = {row(o) : o \in x.outlinks}
  BY DEF NewOutlinks
<1>3. \A o \in own : row(Suggestion(o)) = row(o)
  BY DEF Suggestion
<1> HIDE DEF row, own
<1>4. NewOutlinks(x, id) = {row(o) : o \in own}
  BY <1>1, <1>2, <1>3
<1> QED BY <1>4 DEF row, own

LEMMA ExportedPages ==
    ASSUME NEW d, Good(d), NEW ix, NEW c, NEW id, NEW x, x = ExportCollection(d, ix, c)
    PROVE  NewPages(x, id) = {[coll |-> id, prefix |-> p.prefix, url |-> p.url, hash |-> p.hash,
                               indexed |-> None] : p \in {q \in d.page : q.coll = c.id}}
<1> DEFINE row(prefix, p) == [coll |-> id, prefix |-> prefix, url |-> p.url, hash |-> p.hash,
                              indexed |-> None]
           sent(t) == [prefix |-> t.prefix, every |-> t.every, delay |-> t.delay,
                       pages |-> ExportPages(d, t)]
<1>1. x.targets = {sent(t) : t \in {u \in d.tgt : u.coll = c.id}}
  BY ExportFields DEF ExportTargets
<1>2. NewPages(x, id) = UNION {{row(t.prefix, p) : p \in t.pages} : t \in x.targets}
  BY DEF NewPages
<1>3. ASSUME NEW t \in d.tgt
      PROVE  /\ sent(t).prefix = t.prefix
             /\ sent(t).pages = {[url |-> p.url, hash |-> p.hash] :
                                   p \in {q \in d.page : q.coll = t.coll /\ q.prefix = t.prefix}}
  BY DEF ExportPages
<1>4. ASSUME NEW p \in d.page
      PROVE  row(p.prefix, [url |-> p.url, hash |-> p.hash]) = row(p.prefix, p)
  OBVIOUS
<1> HIDE DEF row, sent
<1>5. ASSUME NEW y \in NewPages(x, id)
      PROVE  \E p \in d.page : p.coll = c.id /\ y = row(p.prefix, p)
  <2>1. PICK s \in x.targets : \E p \in s.pages : y = row(s.prefix, p)
    BY <1>2
  <2>2. PICK t \in d.tgt : t.coll = c.id /\ s = sent(t)
    BY <1>1
  <2>3. PICK q \in s.pages : y = row(s.prefix, q)
    BY <2>1
  <2>4. PICK p \in d.page : /\ p.coll = t.coll /\ p.prefix = t.prefix
                            /\ q = [url |-> p.url, hash |-> p.hash]
    BY <1>3, <2>2, <2>3
  <2>5. y = row(p.prefix, q)
    BY <1>3, <2>2, <2>3, <2>4
  <2> QED BY <1>4, <2>2, <2>4, <2>5
<1>6. ASSUME NEW p \in d.page, p.coll = c.id PROVE row(p.prefix, p) \in NewPages(x, id)
  <2>1. PICK t \in d.tgt : t.coll = p.coll /\ t.prefix = p.prefix
    BY DEF Good, PageRows
  <2>2. sent(t) \in x.targets
    BY <1>1, <1>6, <2>1
  <2>3. [url |-> p.url, hash |-> p.hash] \in sent(t).pages
    BY <1>3, <2>1
  <2>4. row(sent(t).prefix, [url |-> p.url, hash |-> p.hash]) \in NewPages(x, id)
    BY <1>2, <2>2, <2>3
  <2> QED BY <1>3, <1>4, <2>1, <2>4
<1>7. NewPages(x, id) = {row(p.prefix, p) : p \in {q \in d.page : q.coll = c.id}}
  BY <1>5, <1>6
<1> QED BY <1>7 DEF row

\* An exported collection keeps the constraints of the schema.
LEMMA ExportAccepted ==
    ASSUME NEW d, Good(d), NEW ix, IsFiniteSet(ix), ix \subseteq Doc, NEW c \in d.coll,
           NEW x, x = ExportCollection(d, ix, c)
    PROVE  Archived(x) /\ Accepted(x)
<1> DEFINE sent(t) == [prefix |-> t.prefix, every |-> t.every, delay |-> t.delay,
                       pages |-> ExportPages(d, t)]
           row(p) == [coll |-> 0, prefix |-> p.prefix, url |-> p.url, hash |-> p.hash,
                      indexed |-> None]
<1>1. /\ x.name = c.name /\ x.docs = ExportDocs(ix, c.name)
      /\ x.targets = {sent(t) : t \in {u \in d.tgt : u.coll = c.id}}
      /\ x.outlinks = {Suggestion(o) : o \in {q \in d.outl : q.coll = c.id}}
      /\ NewPages(x, 0) = {row(p) : p \in {q \in d.page : q.coll = c.id}}
  BY ExportFields, ExportedPages DEF ExportTargets, ExportOutlinks
<1>2. x.name \in Name
  BY <1>1 DEF Good, CollRows
<1>3. x.docs \subseteq [url : Url, body : Body]
  BY <1>1 DEF ExportDocs, Doc
<1>4. IsFiniteSet(x.docs)
  <2> DEFINE own == {y \in ix : y.name = c.name}
             f == [y \in own |-> [url |-> y.url, body |-> y.body]]
  <2>1. own \in SUBSET ix
    OBVIOUS
  <2>2. f \in Surjection(own, x.docs)
    BY <1>1 DEF ExportDocs, Surjection
  <2> HIDE DEF own, f
  <2>3. IsFiniteSet(own)
    BY <2>1, FS_Subset
  <2> QED BY <2>2, <2>3, FS_Surjection
<1>5. ASSUME NEW o \in d.outl
      PROVE  Verdict(Suggestion(o)) /\ Suggestion(o).host = o.host
  <2>1. Verdict(o)
    BY DEF Good, OutlRows
  <2> QED BY <2>1 DEF Verdict, Suggestion
<1>6. \A t \in d.tgt : sent(t).prefix = t.prefix
  OBVIOUS
<1>7. \A p \in d.page : row(p).url = p.url
  OBVIOUS
<1> HIDE DEF sent, row
<1>8. Archived(x)
  BY <1>1, <1>2, <1>3, <1>4, <1>5 DEF Archived
<1>9. \A s, t \in x.targets : s.prefix = t.prefix => s = t
  <2>1. \A s, t \in d.tgt : s.coll = t.coll /\ s.prefix = t.prefix => s = t
    BY DEF Good, TgtRows, Unique
  <2> QED BY <1>1, <1>6, <2>1
<1>10. \A p, q \in NewPages(x, 0) : p.url = q.url => p = q
  <2>1. \A p, q \in d.page : p.coll = q.coll /\ p.url = q.url => p = q
    BY DEF Good, PageRows, Unique
  <2> QED BY <1>1, <1>7, <2>1
<1>11. \A o, p \in x.outlinks : o.host = p.host => o = p
  <2>1. \A o, p \in d.outl : o.coll = p.coll /\ o.host = p.host => o = p
    BY DEF Good, OutlRows, Unique
  <2> QED BY <1>1, <1>5, <2>1
<1> QED BY <1>8, <1>9, <1>10, <1>11 DEF Accepted, Unique

DocOf(j) == [name |-> j.name, url |-> j.url, body |-> j.body]
DocsOf(js) == {DocOf(js[k]) : k \in 1..Len(js)}

\* Its jobs are its documents.
LEMMA ExportedJobs ==
    ASSUME NEW d, Good(d), NEW ix, IsFiniteSet(ix), ix \subseteq Doc, NEW c \in d.coll,
           NEW x, x = ExportCollection(d, ix, c), NEW id \in Nat
    PROVE  /\ JobsOf(x, id) \in Seq(Job)
           /\ DocsOf(JobsOf(x, id)) = {y \in ix : y.name = c.name}
<1> DEFINE job(y) == [name |-> c.name, url |-> y.url, coll |-> id, body |-> y.body,
                      hash |-> doc_content_hash(y.body)]
           cut(y) == [url |-> y.url, body |-> y.body]
           own == {y \in ix : y.name = c.name}
           S == {job(y) : y \in x.docs}
           q == JobsOf(x, id)
<1>1. Archived(x)
  BY ExportAccepted
<1>2. x.name = c.name /\ x.docs = {cut(y) : y \in own}
  BY ExportFields DEF ExportDocs
<1>3. q \in Seq(Job)
  BY <1>1, JobsFacts
<1>4. IsFiniteSet(S)
  <2> DEFINE f == [y \in x.docs |-> job(y)]
  <2>1. f \in Surjection(x.docs, S)
    BY DEF Surjection
  <2> HIDE DEF f, S
  <2> QED BY <1>1, <2>1, FS_Surjection DEF Archived
<1>5. q = SetToSeq(S)
  BY <1>2 DEF JobsOf
<1>6. \A y \in own : DocOf(job(cut(y))) = y
  <2> SUFFICES ASSUME NEW y \in own PROVE DocOf(job(cut(y))) = y
    OBVIOUS
  <2>1. y \in Doc /\ y.name = c.name
    OBVIOUS
  <2>2. y = [name |-> y.name, url |-> y.url, body |-> y.body]
    BY <2>1 DEF Doc
  <2>3. DocOf(job(cut(y))) = [name |-> c.name, url |-> y.url, body |-> y.body]
    BY DEF DocOf
  <2> QED BY <2>1, <2>2, <2>3
<1> HIDE DEF job, cut, own, q
<1>7. q \in Seq(S) /\ \A j \in S : \E k \in 1..Len(q) : q[k] = j
  <2> HIDE DEF S
  <2> QED BY <1>4, <1>5, SetToSeqFacts
<1>8. \A k \in 1..Len(q) : q[k] \in S
  <2> HIDE DEF S
  <2> QED BY <1>7
<1>9. S = {job(cut(y)) : y \in own}
  BY <1>2
<1>10. DocsOf(q) = own
  <2>1. ASSUME NEW z \in DocsOf(q) PROVE z \in own
    <3>1. PICK k \in 1..Len(q) : z = DocOf(q[k])
      BY DEF DocsOf
    <3>2. PICK y \in own : q[k] = job(cut(y))
      BY <1>8, <1>9, <3>1
    <3> QED BY <1>6, <3>1, <3>2
  <2>2. ASSUME NEW y \in own PROVE y \in DocsOf(q)
    <3>1. PICK k \in 1..Len(q) : q[k] = job(cut(y))
      BY <1>7, <1>9
    <3> QED BY <1>6, <3>1 DEF DocsOf
  <2> QED BY <2>1, <2>2
<1> QED BY <1>3, <1>10 DEF own, q

LEMMA DocsConcat ==
    ASSUME NEW f \in Seq(Job), NEW g \in Seq(Job)
    PROVE  DocsOf(f \o g) = DocsOf(f) \cup DocsOf(g)
<1> DEFINE h == f \o g
<1>1. /\ Len(f) \in Nat /\ Len(g) \in Nat /\ Len(h) = Len(f) + Len(g)
      /\ \A k \in 1..Len(f) : h[k] = f[k]
      /\ \A k \in 1..Len(g) : h[Len(f) + k] = g[k]
  OBVIOUS
<1>2. \A k \in 1..Len(h) : \/ k \in 1..Len(f) /\ h[k] = f[k]
                           \/ \E i \in 1..Len(g) : h[k] = g[i]
  <2> SUFFICES ASSUME NEW k \in 1..Len(h), ~(k \in 1..Len(f)) PROVE \E i \in 1..Len(g) : h[k] = g[i]
    BY <1>1
  <2> HIDE DEF h
  <2>1. k - Len(f) \in 1..Len(g) /\ Len(f) + (k - Len(f)) = k
    BY <1>1
  <2> QED BY <1>1, <2>1
<1> HIDE DEF h
<1>3. \A k \in 1..Len(f) : k \in 1..Len(h)
  BY <1>1
<1>4. \A k \in 1..Len(g) : Len(f) + k \in 1..Len(h)
  BY <1>1
<1>5. ASSUME NEW y \in DocsOf(h) PROVE y \in DocsOf(f) \cup DocsOf(g)
  <2>1. PICK k \in 1..Len(h) : y = DocOf(h[k])
    BY DEF DocsOf
  <2> QED BY <1>2, <2>1 DEF DocsOf
<1>6. DocsOf(f) \subseteq DocsOf(h)
  BY <1>1, <1>3 DEF DocsOf
<1>7. DocsOf(g) \subseteq DocsOf(h)
  BY <1>1, <1>4 DEF DocsOf
<1> QED BY <1>5, <1>6, <1>7 DEF h

\* The i-th collection of the archive, and its ranking row on the other side.
Sent(d, ix, i) == ExportCollection(d, ix, ByName(d, i))
RankRow(row, cfg) == [row |-> row, cfg |-> cfg]
CollRow(d, i) == [row |-> i, id |-> i, name |-> ByName(d, i).name]

\* An empty engine after n collections of the archive of d: they have the keys
\* 1 to n, in the order of their names.
Built(d, ix, n, acc) ==
    LET e == acc.db
    IN  /\ DOMAIN acc = {"ok", "db", "jobs"} /\ acc.ok
        /\ Good(e) /\ e.next = n + 1 /\ e.peers = {} /\ e.subs = {}
        /\ \A y : y \in e.coll <=> \E i \in 1..n : y = CollRow(d, i)
        /\ \A y : y \in e.tgt <=> \E i \in 1..n : y \in NewTargets(Sent(d, ix, i), i)
        /\ \A y : y \in e.page <=> \E i \in 1..n : y \in NewPages(Sent(d, ix, i), i)
        /\ \A y : y \in e.outl <=> \E i \in 1..n : y \in NewOutlinks(Sent(d, ix, i), i)
        /\ \A y : y \in e.rank <=> \E i \in 1..n : /\ Sent(d, ix, i).rank # None
                                                  /\ y = RankRow(i, Sent(d, ix, i).rank)
        /\ acc.jobs \in Seq(Job)
        /\ DocsOf(acc.jobs) = {x \in ix : \E i \in 1..n : x.name = ByName(d, i).name}

\* The rowids of an engine that has only inserted are 1, 2, and so on.
LEMMA RowidCounts ==
    ASSUME NEW d, NEW e, NEW n \in Nat, \A y : y \in e.coll <=> \E i \in 1..n : y = CollRow(d, i)
    PROVE  NextRowid(e) = n + 1
<1>1. \A i \in 1..n : CollRow(d, i) \in e.coll /\ CollRow(d, i).row = i
  BY DEF CollRow
<1>2. CASE n = 0
  <2>1. e.coll = {}
    BY <1>2
  <2> QED BY <1>2, <2>1 DEF NextRowid
<1>3. CASE n # 0
  <2> DEFINE S == {c.row : c \in e.coll}
  <2>1. S = 1..n
    <3>1. \A i \in 1..n : i \in S
      BY <1>1
    <3>2. \A c \in e.coll : c.row \in 1..n
      BY <1>1
    <3> QED BY <3>1, <3>2
  <2>2. e.coll # {}
    BY <1>1, <1>3
  <2>3. NextRowid(e) = 1 + Max(S)
    BY <2>2 DEF NextRowid
  <2> HIDE DEF S
  <2>4. Max(1..n) \in 1..n /\ \A y \in 1..n : Max(1..n) >= y
    <3>1. \E x \in 1..n : \A y \in 1..n : x >= y
      <4>1. n \in 1..n /\ \A y \in 1..n : n >= y
        BY <1>3
      <4> QED BY <4>1
    <3> QED BY <3>1 DEF Max
  <2>5. Max(1..n) = n
    BY <1>3, <2>4
  <2> QED BY <2>1, <2>3, <2>5
<1> QED BY <1>2, <1>3

LEMMA BuiltStep ==
    ASSUME NEW d, Good(d), NEW ix, IsFiniteSet(ix), ix \subseteq Doc,
           NEW n \in Nat, n + 1 <= Cardinality(d.coll), NEW acc, Built(d, ix, n, acc)
    PROVE  Built(d, ix, n + 1, ImportCollection(acc, Sent(d, ix, n + 1)))
<1> DEFINE N == Cardinality(d.coll)
           e == acc.db
           c == ByName(d, n + 1)
           x == Sent(d, ix, n + 1)
           k == ImportRanking(e, NextRowid(e), x)
           s == [InsertCollection(e, x.name) EXCEPT
                   !.tgt = @ \cup NewTargets(x, e.next),
                   !.page = @ \cup NewPages(x, e.next),
                   !.rank = k.rank,
                   !.outl = @ \cup NewOutlinks(x, e.next)]
           js == acc.jobs \o JobsOf(x, e.next)
           new == ImportCollection(acc, x)
<1>1. /\ N \in Nat
      /\ \A i \in 1..N : ByName(d, i) \in d.coll
      /\ \A i, j \in 1..N : ByName(d, i) = ByName(d, j) => i = j
  BY ByNameFacts DEF Good
<1>2. /\ DOMAIN acc = {"ok", "db", "jobs"} /\ acc.ok
      /\ Good(e) /\ e.next = n + 1 /\ e.peers = {} /\ e.subs = {}
      /\ \A y : y \in e.coll <=> \E i \in 1..n : y = CollRow(d, i)
      /\ \A y : y \in e.tgt <=> \E i \in 1..n : y \in NewTargets(Sent(d, ix, i), i)
      /\ \A y : y \in e.page <=> \E i \in 1..n : y \in NewPages(Sent(d, ix, i), i)
      /\ \A y : y \in e.outl <=> \E i \in 1..n : y \in NewOutlinks(Sent(d, ix, i), i)
      /\ \A y : y \in e.rank <=> \E i \in 1..n : /\ Sent(d, ix, i).rank # None
                                                /\ y = RankRow(i, Sent(d, ix, i).rank)
      /\ acc.jobs \in Seq(Job)
      /\ DocsOf(acc.jobs) = {z \in ix : \E i \in 1..n : z.name = ByName(d, i).name}
  BY DEF Built
<1>3. c \in d.coll /\ x = ExportCollection(d, ix, c) /\ x.name = c.name
  <2>1. n + 1 \in 1..N
    BY <1>1
  <2>2. x = ExportCollection(d, ix, c)
    BY DEF Sent
  <2> QED BY <1>1, <2>1, <2>2, ExportFields
<1> HIDE DEF x, c, N, e, s, js, k, new
<1>4. Archived(x) /\ Accepted(x)
  BY <1>3, ExportAccepted
<1>5. NextRowid(e) = n + 1
  BY <1>2, RowidCounts
<1>6. ~Skipped(e, x)
  <2> SUFFICES ASSUME NEW y \in e.coll, y.name = c.name PROVE FALSE
    BY <1>3 DEF Skipped, NamesOf
  <2>1. PICK i \in 1..n : y = CollRow(d, i)
    BY <1>2
  <2>2. y.name = ByName(d, i).name
    BY <2>1 DEF CollRow
  <2>3. i \in 1..N /\ n + 1 \in 1..N /\ i # n + 1
    BY <1>1 DEF N
  <2>4. ByName(d, i) = c
    <3>1. \A a, b \in d.coll : a.name = b.name => a = b
      BY DEF Good, CollRows, Unique
    <3> QED BY <1>1, <1>3, <2>2, <2>3, <3>1
  <2> QED BY <1>1, <2>3, <2>4 DEF c
<1>7. /\ k.ok
      /\ \A y : y \in k.rank <=> y \in e.rank \/ (x.rank # None /\ y = RankRow(n + 1, x.rank))
  <2>1. n + 1 \notin RankedRows(e)
    <3>1. \A y \in e.rank : y.row \in 1..n
      BY <1>2 DEF RankRow
    <3> QED BY <3>1 DEF RankedRows
  <2>2. CASE x.rank = None
    <3>1. k = [ok |-> TRUE, rank |-> e.rank]
      BY <2>2 DEF ImportRanking, k
    <3> QED BY <2>2, <3>1
  <2>3. CASE x.rank # None
    <3>1. k = [ok |-> TRUE, rank |-> e.rank \cup {RankRow(n + 1, x.rank)}]
      BY <1>5, <2>1, <2>3 DEF ImportRanking, RankRow, k
    <3> QED BY <2>3, <3>1
  <2> QED BY <2>2, <2>3
<1>8. new = [ok |-> k.ok /\ Accepted(x), db |-> s, jobs |-> js]
  <2>1. acc.ok /\ ~Skipped(acc.db, x)
    BY <1>2, <1>6 DEF e
  <2> QED BY <2>1 DEF ImportCollection, new, k, s, js, e
<1>9. DOMAIN new = {"ok", "db", "jobs"} /\ new.ok /\ new.db = s /\ new.jobs = js
  BY <1>4, <1>7, <1>8
<1>10. /\ Good(s) /\ s.peers = {} /\ s.subs = {}
       /\ s.coll = e.coll \cup {CollRow(d, n + 1)}
       /\ s.next = (n + 1) + 1
       /\ s.tgt = e.tgt \cup NewTargets(x, n + 1)
       /\ s.page = e.page \cup NewPages(x, n + 1)
       /\ s.rank = k.rank
       /\ s.outl = e.outl \cup NewOutlinks(x, n + 1)
  <2>1. ImportRanking(e, NextRowid(e), x).ok
    BY <1>7 DEF k
  <2>2. /\ Good(s) /\ s.peers = e.peers /\ s.subs = e.subs
        /\ s.coll = e.coll \cup {[row |-> NextRowid(e), id |-> e.next, name |-> x.name]}
        /\ s.next = e.next + 1
        /\ s.tgt = e.tgt \cup NewTargets(x, e.next)
        /\ s.page = e.page \cup NewPages(x, e.next)
        /\ s.rank = ImportRanking(e, NextRowid(e), x).rank
        /\ s.outl = e.outl \cup NewOutlinks(x, e.next)
    <3>1. Good(e)
      BY <1>2
    <3>2. s = Rounded(e, x)
      BY DEF s, k, Rounded
    <3> QED BY <1>4, <1>6, <2>1, <3>1, <3>2, RoundGood
  <2>3. [row |-> NextRowid(e), id |-> e.next, name |-> x.name] = CollRow(d, n + 1)
    BY <1>2, <1>3, <1>5 DEF CollRow, c
  <2> QED BY <1>2, <2>2, <2>3 DEF k
<1>11. \A i : i \in 1..(n + 1) <=> i \in 1..n \/ i = n + 1
  OBVIOUS
<1>12. js \in Seq(Job) /\ DocsOf(js) = {z \in ix : \E i \in 1..(n + 1) : z.name = ByName(d, i).name}
  <2>1. /\ JobsOf(x, e.next) \in Seq(Job)
        /\ DocsOf(JobsOf(x, e.next)) = {y \in ix : y.name = c.name}
    <3>1. e.next \in Nat
      BY <1>2
    <3> QED BY <1>3, <3>1, ExportedJobs
  <2>2. js \in Seq(Job) /\ DocsOf(js) = DocsOf(acc.jobs) \cup DocsOf(JobsOf(x, e.next))
    BY <1>2, <2>1, DocsConcat DEF js
  <2> QED BY <1>2, <1>11, <2>1, <2>2 DEF c
<1>13. \A y : y \in s.coll <=> \E i \in 1..(n + 1) : y = CollRow(d, i)
  BY <1>2, <1>10, <1>11
<1>14. \A y : y \in s.tgt <=> \E i \in 1..(n + 1) : y \in NewTargets(Sent(d, ix, i), i)
  BY <1>2, <1>10, <1>11 DEF x
<1>15. \A y : y \in s.page <=> \E i \in 1..(n + 1) : y \in NewPages(Sent(d, ix, i), i)
  BY <1>2, <1>10, <1>11 DEF x
<1>16. \A y : y \in s.outl <=> \E i \in 1..(n + 1) : y \in NewOutlinks(Sent(d, ix, i), i)
  BY <1>2, <1>10, <1>11 DEF x
<1>17. \A y : y \in s.rank <=> \E i \in 1..(n + 1) : /\ Sent(d, ix, i).rank # None
                                                    /\ y = RankRow(i, Sent(d, ix, i).rank)
  BY <1>2, <1>7, <1>10, <1>11 DEF x
<1>18. Built(d, ix, n + 1, new)
  BY <1>9, <1>10, <1>12, <1>13, <1>14, <1>15, <1>16, <1>17 DEF Built
<1> QED BY <1>18 DEF new, x

\* The archive of d in an empty engine.
LEMMA BuiltAll ==
    ASSUME NEW d, Good(d), NEW ix, IsFiniteSet(ix), ix \subseteq Doc
    PROVE  Built(d, ix, Cardinality(d.coll), ImportCollections(Export(d, ix).colls, EmptyDb))
<1> DEFINE N == Cardinality(d.coll)
           colls == Export(d, ix).colls
           start == [ok |-> TRUE, db |-> EmptyDb, jobs |-> <<>>]
           after == ImportCollections(colls, EmptyDb)
<1>1. N \in Nat
  BY ByNameFacts DEF Good
<1>2. /\ colls = [i \in 1..N |-> ExportCollection(d, ix, ByName(d, i))]
      /\ \A i \in 1..N : colls[i] = Sent(d, ix, i)
  BY DEF Export, Sent
<1>3. Len(colls) = N
  BY <1>1, <1>2
<1>4. PICK f : /\ f = [n \in 0..Len(colls) |-> IF n = 0 THEN start
                                              ELSE ImportCollection(f[n - 1], colls[n])]
               /\ after = f[Len(colls)]
  <2> HIDE DEF colls
  <2> QED BY <1>1, <1>3, LoopRec
<1>5. Built(d, ix, 0, start)
  <2>1. start.ok /\ start.db = EmptyDb /\ start.jobs = <<>> /\ DOMAIN start = {"ok", "db", "jobs"}
    OBVIOUS
  <2>2. /\ EmptyDb.coll = {} /\ EmptyDb.tgt = {} /\ EmptyDb.page = {}
        /\ EmptyDb.rank = {} /\ EmptyDb.outl = {} /\ EmptyDb.peers = {} /\ EmptyDb.subs = {}
        /\ EmptyDb.next = 0 + 1
    BY DEF EmptyDb, Tables
  <2>3. <<>> \in Seq(Job) /\ DocsOf(<<>>) = {}
    BY DEF DocsOf
  <2>4. ~\E i : i \in 1..0
    OBVIOUS
  <2> HIDE DEF start
  <2> QED BY <2>1, <2>2, <2>3, <2>4, EmptyGood DEF Built
<1> DEFINE S == {m \in Nat : m <= N => Built(d, ix, m, f[m])}
<1> HIDE DEF colls, start, after, N
<1>6. 0 \in S
  <2>1. f[0] = start
    BY <1>1, <1>3, <1>4
  <2> QED BY <1>5, <2>1
<1>7. ASSUME NEW m \in Nat, m \in S PROVE m + 1 \in S
  <2> SUFFICES ASSUME m + 1 <= N PROVE Built(d, ix, m + 1, f[m + 1])
    OBVIOUS
  <2>1. m + 1 \in 1..N /\ m + 1 \in 0..Len(colls) /\ m + 1 # 0 /\ (m + 1) - 1 = m
    BY <1>1, <1>3
  <2>2. f[m + 1] = ImportCollection(f[(m + 1) - 1], colls[m + 1])
    BY <1>4, <2>1
  <2>3. Built(d, ix, m, f[m])
    BY <1>1, <1>7
  <2>4. colls[m + 1] = Sent(d, ix, m + 1)
    BY <1>2, <2>1
  <2>5. Built(d, ix, m + 1, ImportCollection(f[m], Sent(d, ix, m + 1)))
    BY <2>3, BuiltStep DEF N
  <2> QED BY <2>1, <2>2, <2>4, <2>5
<1> HIDE DEF S
<1>8. Nat \subseteq S
  BY <1>6, <1>7, NatInd
<1>9. Built(d, ix, N, f[N])
  <2>1. N \in S /\ N <= N
    BY <1>1, <1>8
  <2> QED BY <2>1 DEF S
<1> QED BY <1>3, <1>4, <1>9 DEF N, after, colls

\* What Content shows of one collection.
Shown(d, c) ==
    [name |-> c.name,
     tgts |-> {[prefix |-> t.prefix, every |-> t.every, delay |-> t.delay] :
                 t \in {u \in d.tgt : u.coll = c.id}},
     pages |-> {[url |-> p.url, prefix |-> p.prefix, hash |-> p.hash] :
                  p \in {q \in d.page : q.coll = c.id}},
     cfgs |-> {k.cfg : k \in {q \in d.rank : q.row = c.row}},
     outl |-> {<<o.host, o.count, o.examples, o.status>> :
                 o \in {q \in d.outl : q.coll = c.id}}]

\* A collection looks the same on both sides.
LEMMA ShownAlike ==
    ASSUME NEW d, Good(d), NEW ix, NEW N, N = Cardinality(d.coll), NEW acc, Built(d, ix, N, acc),
           NEW e, e = acc.db, NEW i \in 1..N
    PROVE  Shown(e, CollRow(d, i)) = Shown(d, ByName(d, i))
<1> DEFINE c == ByName(d, i)
           x == Sent(d, ix, i)
<1>0. N \in Nat /\ c \in d.coll
  BY ByNameFacts DEF Good
<1>1. x = ExportCollection(d, ix, c)
  BY DEF Sent
<1>2. CollRow(d, i).name = c.name /\ CollRow(d, i).id = i /\ CollRow(d, i).row = i
  BY DEF CollRow
<1> HIDE DEF c, x
<1>3. {u \in e.tgt : u.coll = i} = NewTargets(x, i)
  <2>1. \A j \in 1..N : \A y \in NewTargets(Sent(d, ix, j), j) : y.coll = j
    BY DEF NewTargets
  <2>2. \A y : y \in e.tgt <=> \E j \in 1..N : y \in NewTargets(Sent(d, ix, j), j)
    BY DEF Built
  <2> QED BY <2>1, <2>2 DEF x
<1>4. {u \in e.page : u.coll = i} = NewPages(x, i)
  <2>1. \A j \in 1..N : \A y \in NewPages(Sent(d, ix, j), j) : y.coll = j
    BY DEF NewPages
  <2>2. \A y : y \in e.page <=> \E j \in 1..N : y \in NewPages(Sent(d, ix, j), j)
    BY DEF Built
  <2> QED BY <2>1, <2>2 DEF x
<1>5. {u \in e.outl : u.coll = i} = NewOutlinks(x, i)
  <2>1. \A j \in 1..N : \A y \in NewOutlinks(Sent(d, ix, j), j) : y.coll = j
    BY DEF NewOutlinks
  <2>2. \A y : y \in e.outl <=> \E j \in 1..N : y \in NewOutlinks(Sent(d, ix, j), j)
    BY DEF Built
  <2> QED BY <2>1, <2>2 DEF x
<1>6. \A y : y \in {q \in e.rank : q.row = i} <=> x.rank # None /\ y = RankRow(i, x.rank)
  <2>1. \A j, cfg : RankRow(j, cfg).row = j
    BY DEF RankRow
  <2>2. \A y : y \in e.rank <=> \E j \in 1..N : /\ Sent(d, ix, j).rank # None
                                               /\ y = RankRow(j, Sent(d, ix, j).rank)
    BY DEF Built
  <2> QED BY <2>1, <2>2 DEF x
<1>7. Shown(e, CollRow(d, i)).tgts = Shown(d, c).tgts
  <2> DEFINE own == {u \in d.tgt : u.coll = c.id}
             row(t) == [coll |-> i, prefix |-> t.prefix, every |-> t.every, delay |-> t.delay]
             cut(t) == [prefix |-> t.prefix, every |-> t.every, delay |-> t.delay]
  <2>1. NewTargets(x, i) = {row(t) : t \in own}
    BY <1>1, ExportedTargets
  <2>2. /\ Shown(e, CollRow(d, i)).tgts = {cut(t) : t \in {u \in e.tgt : u.coll = i}}
        /\ Shown(d, c).tgts = {cut(t) : t \in own}
    BY <1>2 DEF Shown
  <2>3. \A t \in own : cut(row(t)) = cut(t)
    OBVIOUS
  <2> HIDE DEF own, row, cut
  <2> QED BY <1>3, <2>1, <2>2, <2>3
<1>8. Shown(e, CollRow(d, i)).pages = Shown(d, c).pages
  <2> DEFINE own == {u \in d.page : u.coll = c.id}
             row(p) == [coll |-> i, prefix |-> p.prefix, url |-> p.url, hash |-> p.hash,
                        indexed |-> None]
             cut(p) == [url |-> p.url, prefix |-> p.prefix, hash |-> p.hash]
  <2>1. NewPages(x, i) = {row(p) : p \in own}
    BY <1>1, ExportedPages
  <2>2. /\ Shown(e, CollRow(d, i)).pages = {cut(p) : p \in {u \in e.page : u.coll = i}}
        /\ Shown(d, c).pages = {cut(p) : p \in own}
    BY <1>2 DEF Shown
  <2>3. \A p \in own : cut(row(p)) = cut(p)
    OBVIOUS
  <2> HIDE DEF own, row, cut
  <2> QED BY <1>4, <2>1, <2>2, <2>3
<1>9. Shown(e, CollRow(d, i)).outl = Shown(d, c).outl
  <2> DEFINE own == {u \in d.outl : u.coll = c.id}
             row(o) == [coll |-> i, host |-> o.host, count |-> o.count, examples |-> o.examples,
                        status |-> o.status]
             cut(o) == <<o.host, o.count, o.examples, o.status>>
  <2>1. NewOutlinks(x, i) = {row(o) : o \in own}
    BY <1>1, ExportedOutlinks
  <2>2. /\ Shown(e, CollRow(d, i)).outl = {cut(o) : o \in {u \in e.outl : u.coll = i}}
        /\ Shown(d, c).outl = {cut(o) : o \in own}
    BY <1>2 DEF Shown
  <2>3. \A o \in own : cut(row(o)) = cut(o)
    OBVIOUS
  <2> HIDE DEF own, row, cut
  <2> QED BY <1>5, <2>1, <2>2, <2>3
<1>10. Shown(e, CollRow(d, i)).cfgs = Shown(d, c).cfgs
  <2> DEFINE here == {q \in e.rank : q.row = i}
             own == {q \in d.rank : q.row = c.row}
  <2>1. Shown(e, CollRow(d, i)).cfgs = {k.cfg : k \in here} /\ Shown(d, c).cfgs = {k.cfg : k \in own}
    BY <1>2 DEF Shown
  <2>2. x.rank = ExportRanking(d, c.row)
    BY <1>1, ExportFields
  <2>3. \A k \in own : k \in d.rank /\ k.row = c.row /\ k.cfg # None
    BY DEF Good, RankRows
  <2>4. CASE own = {}
    <3>1. x.rank = None
      BY <2>2, <2>4 DEF ExportRanking, RankedRows
    <3>2. here = {}
      BY <1>6, <3>1
    <3> QED BY <2>1, <2>4, <3>2
  <2>5. CASE own # {}
    <3>1. PICK k \in own : TRUE
      BY <2>5
    <3>2. \A q \in d.rank : q.row = c.row => q = k
      BY <2>3, <3>1 DEF Good, RankRows, Unique
    <3>3. own = {k}
      BY <3>1, <3>2
    <3>4. (CHOOSE q \in d.rank : q.row = c.row) = k
      BY <2>3, <3>1, <3>2
    <3>5. x.rank = k.cfg /\ x.rank # None
      BY <2>2, <2>3, <3>1, <3>4 DEF ExportRanking, RankedRows
    <3>6. here = {RankRow(i, x.rank)} /\ RankRow(i, x.rank).cfg = x.rank
      BY <1>6, <3>5 DEF RankRow
    <3> HIDE DEF here, own
    <3> QED BY <2>1, <3>3, <3>5, <3>6
  <2> QED BY <2>4, <2>5
<1>11. Shown(e, CollRow(d, i)).name = Shown(d, c).name
  BY <1>2 DEF Shown
<1>12. \A a, r : Shown(a, r) = [name |-> Shown(a, r).name, tgts |-> Shown(a, r).tgts,
                               pages |-> Shown(a, r).pages, cfgs |-> Shown(a, r).cfgs,
                               outl |-> Shown(a, r).outl]
  BY DEF Shown
<1>13. Shown(e, CollRow(d, i)) = Shown(d, c)
  BY <1>7, <1>8, <1>9, <1>10, <1>11, <1>12
<1> QED BY <1>13 DEF c

\* An archive that says nothing new changes nothing and sends nothing.
LEMMA AgainNothing ==
    ASSUME NEW env, NEW e, IsDb(e), Len(env.colls) \in Nat,
           \A n \in 1..Len(env.colls) : env.colls[n].name \in NamesOf(e),
           \A p \in env.peers : p.url \in PeerUrls(e),
           \A x \in env.subs : x.local \in NamesOf(e) /\ x.url \in PeerUrls(e) => x \in e.subs
    PROVE  Apply(env, e) = [ok |-> TRUE, db |-> e, jobs |-> <<>>]
<1> DEFINE start == [ok |-> TRUE, db |-> e, jobs |-> <<>>]
           after == ImportCollections(env.colls, e)
<1>1. PICK f : /\ f = [n \in 0..Len(env.colls) |-> IF n = 0 THEN start
                                                  ELSE ImportCollection(f[n - 1], env.colls[n])]
               /\ after = f[Len(env.colls)]
  BY LoopRec
<1>2. ASSUME NEW n \in 1..Len(env.colls) PROVE ImportCollection(start, env.colls[n]) = start
  <2>1. start.ok /\ start.db = e
    OBVIOUS
  <2>2. Skipped(start.db, env.colls[n])
    BY <2>1 DEF Skipped
  <2> HIDE DEF start
  <2> QED BY <2>1, <2>2 DEF ImportCollection, Skip
<1> DEFINE S == {m \in Nat : m <= Len(env.colls) => f[m] = start}
<1>3. start = [ok |-> TRUE, db |-> e, jobs |-> <<>>]
  OBVIOUS
<1> HIDE DEF start, after
<1>4. 0 \in S
  BY <1>1
<1>5. ASSUME NEW m \in Nat, m \in S PROVE m + 1 \in S
  <2> SUFFICES ASSUME m + 1 <= Len(env.colls) PROVE f[m + 1] = start
    OBVIOUS
  <2>1. m + 1 \in 1..Len(env.colls) /\ m + 1 \in 0..Len(env.colls) /\ m + 1 # 0 /\ (m + 1) - 1 = m
    OBVIOUS
  <2>2. f[m + 1] = ImportCollection(f[(m + 1) - 1], env.colls[m + 1])
    BY <1>1, <2>1
  <2>3. f[m] = start
    BY <1>5
  <2> QED BY <1>2, <2>1, <2>2, <2>3
<1> HIDE DEF S
<1>6. Nat \subseteq S
  BY <1>4, <1>5, NatInd
<1>7. after = start
  <2>1. Len(env.colls) \in S /\ Len(env.colls) <= Len(env.colls)
    BY <1>6
  <2> QED BY <1>1, <2>1 DEF S
<1>8. ImportPeers(e, env) = e
  <2>1. {p \in env.peers : p.url \notin PeerUrls(e)} = {}
    OBVIOUS
  <2>2. ImportPeers(e, env) = [e EXCEPT !.peers = e.peers]
    BY <2>1 DEF ImportPeers, IsDb, Tables
  <2> QED BY <2>2 DEF IsDb, Tables
<1>9. ImportSubscriptions(e, env) = e
  <2>1. e.subs \cup {x \in env.subs : x.local \in NamesOf(e) /\ x.url \in PeerUrls(e)} = e.subs
    OBVIOUS
  <2>2. ImportSubscriptions(e, env) = [e EXCEPT !.subs = e.subs]
    BY <2>1 DEF ImportSubscriptions, IsDb, Tables
  <2> QED BY <2>2 DEF IsDb, Tables
<1>10. start.ok /\ start.db = e /\ [start EXCEPT !.db = e] = start
  <2>1. start.ok /\ start.db = e /\ DOMAIN start = {"ok", "db", "jobs"}
    BY <1>3
  <2>2. start = [k \in {"ok", "db", "jobs"} |-> start[k]]
    BY <1>3
  <2> QED BY <2>1, <2>2
<1>11. Apply(env, e) = [after EXCEPT !.db = ImportSubscriptions(ImportPeers(after.db, env), env)]
  <2>1. after.ok
    BY <1>7, <1>10
  <2> QED BY <2>1 DEF Apply, after
<1>12. Apply(env, e) = [start EXCEPT !.db = e]
  BY <1>7, <1>8, <1>9, <1>10, <1>11
<1> QED BY <1>3, <1>10, <1>12

\* What an empty engine makes of the archive of d.
LEMMA CopyFacts ==
    ASSUME NEW d, Good(d), NEW ix, IsFiniteSet(ix), ix \subseteq Doc,
           NEW env, env = Export(d, ix), NEW copy, copy = Apply(env, EmptyDb)
    PROVE  /\ copy.ok /\ Content(copy.db) = Content(d)
           /\ copy.jobs \in Seq(Job) /\ DocsOf(copy.jobs) = {x \in ix : x.name \in NamesOf(d)}
           /\ Apply(env, d) = [ok |-> TRUE, db |-> d, jobs |-> <<>>]
           /\ Apply(env, copy.db) = [ok |-> TRUE, db |-> copy.db, jobs |-> <<>>]
<1> DEFINE N == Cardinality(d.coll)
           after == ImportCollections(env.colls, EmptyDb)
           e == after.db
           mid == ImportPeers(e, env)
           s == ImportSubscriptions(mid, env)
<1>1. /\ env.colls = [i \in 1..N |-> ExportCollection(d, ix, ByName(d, i))]
      /\ env.peers = d.peers /\ env.subs = {x \in d.subs : x.url \in PeerUrls(d)}
  BY DEF Export, ExportPeers, ExportSubscriptions
<1>2. /\ N \in Nat
      /\ \A i \in 1..N : ByName(d, i) \in d.coll
      /\ \A c \in d.coll : \E i \in 1..N : ByName(d, i) = c
  BY ByNameFacts DEF Good
<1>3. Built(d, ix, N, after)
  BY BuiltAll
<1> HIDE DEF N
<1>4. Len(env.colls) = N /\ \A i \in 1..N : env.colls[i].name = ByName(d, i).name
  <2>1. \A i \in 1..N : ExportCollection(d, ix, ByName(d, i)).name = ByName(d, i).name
    BY DEF ExportCollection
  <2> QED BY <1>1, <1>2, <2>1
<1> HIDE DEF after
<1>5. /\ DOMAIN after = {"ok", "db", "jobs"} /\ after.ok
      /\ IsDb(e) /\ e.peers = {} /\ e.subs = {}
      /\ \A y : y \in e.coll <=> \E i \in 1..N : y = CollRow(d, i)
      /\ after.jobs \in Seq(Job)
      /\ DocsOf(after.jobs) = {x \in ix : \E i \in 1..N : x.name = ByName(d, i).name}
  BY <1>3 DEF Built, Good
<1>6. copy = [after EXCEPT !.db = s]
  BY <1>5 DEF Apply, after
<1>7. copy.ok /\ copy.db = s /\ copy.jobs = after.jobs
  BY <1>5, <1>6
<1> HIDE DEF e
<1>8. /\ IsDb(mid) /\ mid = [e EXCEPT !.peers = d.peers] /\ mid.coll = e.coll
      /\ mid.peers = d.peers /\ mid.subs = {}
  <2>1. PeerUrls(e) = {}
    BY <1>5 DEF PeerUrls
  <2>2. e.peers \cup {p \in env.peers : p.url \notin PeerUrls(e)} = d.peers
    BY <1>1, <1>5, <2>1
  <2>3. mid = [e EXCEPT !.peers = d.peers]
    BY <2>2 DEF ImportPeers
  <2> HIDE DEF mid
  <2> QED BY <1>5, <2>3 DEF IsDb, Tables
<1> HIDE DEF mid
<1>9. NamesOf(mid) = NamesOf(d) /\ PeerUrls(mid) = PeerUrls(d)
  <2>1. \A i : CollRow(d, i).name = ByName(d, i).name
    BY DEF CollRow
  <2>2. NamesOf(mid) \subseteq NamesOf(d)
    BY <1>2, <1>5, <1>8, <2>1 DEF NamesOf
  <2>3. ASSUME NEW c \in d.coll PROVE c.name \in NamesOf(mid)
    <3>1. PICK i \in 1..N : ByName(d, i) = c
      BY <1>2
    <3>2. CollRow(d, i) \in mid.coll
      BY <1>5, <1>8
    <3> QED BY <2>1, <3>1, <3>2 DEF NamesOf
  <2> QED BY <1>8, <2>2, <2>3 DEF NamesOf, PeerUrls
<1>10. \A x \in d.subs : x.url \in PeerUrls(d)
  BY DEF Good, PeerRows
<1>11. /\ IsDb(s) /\ s.coll = e.coll /\ s.tgt = e.tgt /\ s.page = e.page /\ s.rank = e.rank
       /\ s.outl = e.outl /\ s.peers = d.peers /\ s.subs = {x \in d.subs : x.local \in NamesOf(d)}
  <2> DEFINE more == {x \in d.subs : x.local \in NamesOf(d)}
  <2>1. mid.subs \cup {x \in env.subs : x.local \in NamesOf(mid) /\ x.url \in PeerUrls(mid)} = more
    BY <1>1, <1>8, <1>9, <1>10
  <2>2. s = [mid EXCEPT !.subs = more]
    BY <2>1 DEF ImportSubscriptions
  <2> HIDE DEF s, more
  <2>3. /\ mid.tgt = e.tgt /\ mid.page = e.page /\ mid.rank = e.rank /\ mid.outl = e.outl
    BY <1>5, <1>8 DEF IsDb, Tables
  <2> QED BY <1>8, <2>2, <2>3 DEF IsDb, Tables, more
<1> HIDE DEF s
<1>12. NamesOf(s) = NamesOf(d) /\ PeerUrls(s) = PeerUrls(d)
  BY <1>8, <1>9, <1>11 DEF NamesOf, PeerUrls
<1>13. Content(s) = Content(d)
  <2>1. \A a : Content(a) = [colls |-> {Shown(a, c) : c \in a.coll}, peers |-> a.peers,
                            subs |-> {x \in a.subs : x.local \in NamesOf(a)}]
    BY DEF Content, Shown
  <2>2. \A i \in 1..N : Shown(s, CollRow(d, i)) = Shown(d, ByName(d, i))
    <3>1. \A c : Shown(s, c) = Shown(e, c)
      BY <1>11 DEF Shown
    <3>2. \A i \in 1..N : Shown(e, CollRow(d, i)) = Shown(d, ByName(d, i))
      BY <1>3, ShownAlike DEF e, N
    <3> QED BY <3>1, <3>2
  <2>3. ASSUME NEW y \in {Shown(s, c) : c \in s.coll} PROVE y \in {Shown(d, c) : c \in d.coll}
    <3>1. PICK c \in s.coll : y = Shown(s, c)
      OBVIOUS
    <3>2. PICK i \in 1..N : c = CollRow(d, i)
      BY <1>5, <1>11, <3>1
    <3>3. y = Shown(d, ByName(d, i))
      BY <2>2, <3>1, <3>2
    <3> QED BY <1>2, <3>3
  <2>4. ASSUME NEW y \in {Shown(d, c) : c \in d.coll} PROVE y \in {Shown(s, c) : c \in s.coll}
    <3>1. PICK c \in d.coll : y = Shown(d, c)
      OBVIOUS
    <3>2. PICK i \in 1..N : ByName(d, i) = c
      BY <1>2, <3>1
    <3>3. CollRow(d, i) \in s.coll /\ y = Shown(s, CollRow(d, i))
      BY <1>5, <1>11, <2>2, <3>1, <3>2
    <3> QED BY <3>3
  <2>5. {Shown(s, c) : c \in s.coll} = {Shown(d, c) : c \in d.coll}
    BY <2>3, <2>4
  <2>6. {x \in s.subs : x.local \in NamesOf(s)} = {x \in d.subs : x.local \in NamesOf(d)}
    BY <1>11, <1>12
  <2> QED BY <1>11, <2>1, <2>5, <2>6
<1>14. DocsOf(copy.jobs) = {x \in ix : x.name \in NamesOf(d)}
  <2>1. \A z : z \in NamesOf(d) <=> \E i \in 1..N : z = ByName(d, i).name
    BY <1>2 DEF NamesOf
  <2> QED BY <1>5, <1>7, <2>1
<1>15. \A n \in 1..Len(env.colls) : env.colls[n].name \in NamesOf(d)
  BY <1>2, <1>4 DEF NamesOf
<1>16. Apply(env, d) = [ok |-> TRUE, db |-> d, jobs |-> <<>>]
  <2>1. IsDb(d) /\ Len(env.colls) \in Nat
    BY <1>2, <1>4 DEF Good
  <2>2. \A p \in env.peers : p.url \in PeerUrls(d)
    BY <1>1 DEF PeerUrls
  <2>3. \A x \in env.subs : x.local \in NamesOf(d) /\ x.url \in PeerUrls(d) => x \in d.subs
    BY <1>1
  <2> QED BY <1>15, <2>1, <2>2, <2>3, AgainNothing
<1>17. Apply(env, s) = [ok |-> TRUE, db |-> s, jobs |-> <<>>]
  <2>1. IsDb(s) /\ Len(env.colls) \in Nat
    BY <1>2, <1>4, <1>11
  <2>2. \A p \in env.peers : p.url \in PeerUrls(s)
    BY <1>1, <1>12 DEF PeerUrls
  <2>3. \A x \in env.subs : x.local \in NamesOf(s) /\ x.url \in PeerUrls(s) => x \in s.subs
    BY <1>1, <1>11, <1>12
  <2>4. \A n \in 1..Len(env.colls) : env.colls[n].name \in NamesOf(s)
    BY <1>12, <1>15
  <2> QED BY <2>1, <2>2, <2>3, <2>4, AgainNothing
<1> QED BY <1>5, <1>7, <1>13, <1>14, <1>16, <1>17

\* RoundTrip: what an engine exports in any state, an empty one takes in whole,
\* under keys of its own, and neither gains anything when it takes the archive in
\* again (build_envelope, apply_envelope).
THEOREM RoundTrips == Spec => []RoundTrip
<1>1. CInv /\ IndexInv => RoundTrip
  <2> SUFFICES ASSUME CInv, IndexInv PROVE RoundTrip
    OBVIOUS
  <2> DEFINE env == Export(db, index)
             copy == Apply(env, EmptyDb)
  <2>1. Good(db) /\ IsFiniteSet(index) /\ index \subseteq Doc
    BY DEF CInv, IndexInv
  <2>2. /\ copy.ok /\ Content(copy.db) = Content(db)
        /\ copy.jobs \in Seq(Job) /\ DocsOf(copy.jobs) = {x \in index : x.name \in NamesOf(db)}
        /\ Apply(env, db) = [ok |-> TRUE, db |-> db, jobs |-> <<>>]
        /\ Apply(env, copy.db) = [ok |-> TRUE, db |-> copy.db, jobs |-> <<>>]
    <3> HIDE DEF env, copy
    <3>1. env = Export(db, index) /\ copy = Apply(env, EmptyDb)
      BY DEF env, copy
    <3> QED BY <2>1, <3>1, CopyFacts
  <2> HIDE DEF copy
  <2>3. {[name |-> j.name, url |-> j.url, body |-> j.body] : j \in Range(copy.jobs)}
          = DocsOf(copy.jobs)
    <3>1. DOMAIN copy.jobs = 1..Len(copy.jobs)
      BY <2>2
    <3> QED BY <3>1 DEF Range, DocsOf, DocOf
  <2> QED BY <2>2, <2>3 DEF RoundTrip, copy
<1> QED BY <1>1, CatalogInvariance, IndexInvariance, PTL

=============================================================================
