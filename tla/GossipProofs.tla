---------------------------- MODULE GossipProofs ----------------------------
(***************************************************************************)
(* Gossip implements GossipDirectory for any set of nodes, links, names    *)
(* and failing upserts, and keeps its timestamps in order.  The inductive  *)
(* invariant GInv speaks of the snapshots held by running exchanges too:   *)
(* they are written back later, over whatever the table holds by then.     *)
(***************************************************************************)
EXTENDS Gossip, TLAPS

Ordered(d) == \A e \in Node : d[e].first <= d[e].last /\ d[e].last <= clock

GInv ==
    /\ TypeOK
    /\ \A n \in Node : Ordered(discovered[n]) /\ discovered[n][n] # NoRow
    /\ \A l \in Link : Ordered(xch[l].local)

\* The merge of one entry and its upsert keep rows well formed and in order,
\* never remove an entry, and never move first_seen or, back, last_seen.
LEMMA MergedRow ==
    ASSUME NEW row \in Row \cup {NoRow}, NEW name \in Name \cup {None},
           row.first <= row.last, row.last <= clock, clock \in Time
    PROVE  /\ merged(row, name, clock) \in Row \cup {NoRow}
           /\ merged(row, name, clock).first <= merged(row, name, clock).last
           /\ merged(row, name, clock).last <= clock
<1> None \notin Name /\ MaxTime \in Nat
  BY GossipAssumption
<1>1. CASE name = None
  BY <1>1 DEF merged
<1>2. CASE name # None /\ row = NoRow
  <2>1. merged(row, name, clock) = [name |-> name, first |-> clock, last |-> clock]
    BY <1>2 DEF merged
  <2> QED BY <2>1, <1>2 DEF Row, Time
<1>3. CASE name # None /\ row # NoRow
  <2> row \in Row
    BY <1>3
  <2>1. merged(row, name, clock) =
          [name |-> IF clock >= row.last THEN name ELSE row.name,
           first |-> IF clock < row.first THEN clock ELSE row.first,
           last |-> Larger(row.last, clock)]
    BY <1>3 DEF merged
  <2> QED BY <2>1, <1>3 DEF Row, Time, Larger
<1> QED BY <1>1, <1>2, <1>3

LEMMA UpsertRow ==
    ASSUME NEW row \in Row \cup {NoRow}, NEW e \in Row, clock \in Time,
           row.first <= row.last, row.last <= clock, e.first <= e.last, e.last <= clock
    PROVE  /\ upsert(row, e) \in Row
           /\ upsert(row, e).first <= upsert(row, e).last
           /\ upsert(row, e).last <= clock
           /\ row # NoRow => /\ upsert(row, e).first = row.first
                             /\ upsert(row, e).last >= row.last
<1> MaxTime \in Nat
  BY GossipAssumption
<1>1. CASE row = NoRow
  BY <1>1 DEF upsert
<1>2. CASE row # NoRow
  <2> row \in Row
    BY <1>2
  <2>1. upsert(row, e) = [name |-> e.name, first |-> row.first,
                          last |-> Larger(row.last, e.last)]
    BY <1>2 DEF upsert
  <2> QED BY <2>1 DEF Row, Time, Larger
<1> QED BY <1>1, <1>2

LEMMA NoRowIsNone == NoRow \notin Row
BY GossipAssumption DEF NoRow, Row

\* What one writing of a merged list does to a table: both the handler and the
\* initiator go through it, the latter with a list made from an old snapshot.
LEMMA PersistTable ==
    ASSUME NEW table \in Table, NEW local \in Table, NEW incoming \in Summary,
           NEW S \in SUBSET Node, clock \in Time, Ordered(table), Ordered(local),
           NEW new, new = persist(table, merge_engine_lists(local, incoming, clock), S)
    PROVE  /\ new \in Table
           /\ Ordered(new)
           /\ \A e \in Node : table[e] # NoRow =>
                 /\ new[e] # NoRow
                 /\ new[e].first = table[e].first /\ new[e].last >= table[e].last
<1> DEFINE list == merge_engine_lists(local, incoming, clock)
<1>1. \A e \in Node : /\ list[e] \in Row \cup {NoRow}
                      /\ list[e].first <= list[e].last /\ list[e].last <= clock
  <2> TAKE e \in Node
  <2>1. /\ local[e] \in Row \cup {NoRow} /\ incoming[e] \in Name \cup {None}
        /\ local[e].first <= local[e].last /\ local[e].last <= clock
    BY DEF Table, Summary, Ordered
  <2>2. list[e] = merged(local[e], incoming[e], clock)
    BY DEF merge_engine_lists
  <2> QED BY <2>1, <2>2, MergedRow
<1> HIDE DEF list
<1>2. ASSUME NEW e \in Node
      PROVE  /\ new[e] \in Row \cup {NoRow}
             /\ new[e].first <= new[e].last /\ new[e].last <= clock
             /\ table[e] # NoRow => /\ new[e] # NoRow
                                    /\ new[e].first = table[e].first
                                    /\ new[e].last >= table[e].last
  <2>1. /\ table[e] \in Row \cup {NoRow}
        /\ table[e].first <= table[e].last /\ table[e].last <= clock
    BY DEF Table, Ordered
  <2>2. CASE e \in S /\ list[e] # NoRow
    <3>1. new[e] = upsert(table[e], list[e])
      BY <2>2 DEF persist, list
    <3>2. list[e] \in Row
      BY <1>1, <2>2
    <3> QED BY <2>1, <3>1, <3>2, <1>1, UpsertRow, NoRowIsNone
  <2>3. CASE ~(e \in S /\ list[e] # NoRow)
    <3>1. new[e] = table[e]
      BY <2>3 DEF persist, list
    <3>2. table[e] # NoRow => table[e].last \in Int
      BY <2>1 DEF Row, Time
    <3> QED BY <2>1, <3>1, <3>2
  <2> QED BY <2>2, <2>3
<1>3. new \in Table
  <2>1. DOMAIN new = Node /\ new = [e \in Node |-> new[e]]
    BY DEF persist
  <2> QED BY <1>2, <2>1 DEF Table
<1> QED BY <1>2, <1>3 DEF Ordered

\* No entry is lost, first_seen is as it was, last_seen has not moved back.
Kept(old, new) ==
    \A e \in Node : old[e] # NoRow =>
        /\ new[e] # NoRow
        /\ new[e].first = old[e].first /\ new[e].last >= old[e].last

\* Only n's table changes, to one that is well formed and in order.
Effect(n) ==
    /\ \A m \in Node \ {n} : discovered'[m] = discovered[m]
    /\ discovered'[n] \in Table
    /\ \A e \in Node : /\ discovered'[n][e].first <= discovered'[n][e].last
                       /\ discovered'[n][e].last <= clock
    /\ DOMAIN discovered' = Node /\ discovered' = [m \in Node |-> discovered'[m]]

LEMMA MergedEffect ==
    ASSUME GInv, NEW l \in Link, NEW S \in SUBSET Node, Merged(l, S)
    PROVE  Effect(l[2]) /\ Kept(discovered[l[2]], discovered'[l[2]])
<1> DEFINE p == l[2]
           sent == Payload(l)
<1>1. l[1] \in Node /\ p \in Node
  BY GossipAssumption
<1>2. /\ discovered[p] \in Table /\ Ordered(discovered[p]) /\ clock \in Time
      /\ xch[l].local \in Table
  BY <1>1 DEF GInv, TypeOK
<1>3. sent \in Summary
  BY <1>2 DEF Payload, Summarise, Summary, Table, Row, NoRow
<1>4. /\ discovered' = [discovered EXCEPT ![p] = discovered'[p]]
      /\ discovered'[p] = persist(discovered[p], merge_engine_lists(discovered[p], sent, clock), S)
  BY <1>1 DEF Merged, GInv, TypeOK
<1> HIDE DEF sent
<1>5. /\ discovered'[p] \in Table /\ Ordered(discovered'[p])
      /\ Kept(discovered[p], discovered'[p])
  BY <1>2, <1>3, <1>4, PersistTable DEF Kept
<1> QED BY <1>1, <1>4, <1>5 DEF Effect, Ordered, GInv, TypeOK

LEMMA PersistEffect ==
    ASSUME GInv, NEW l \in Link, NEW S \in SUBSET Node, Persist(l, S)
    PROVE  Effect(l[1]) /\ Kept(discovered[l[1]], discovered'[l[1]])
<1> DEFINE n == l[1]
<1>1. n \in Node
  BY GossipAssumption
<1>2. /\ discovered[n] \in Table /\ Ordered(discovered[n]) /\ clock \in Time
      /\ xch[l].local \in Table /\ Ordered(xch[l].local) /\ xch[l].reply \in Summary
  BY <1>1 DEF GInv, TypeOK
<1>3. /\ discovered' = [discovered EXCEPT ![n] = discovered'[n]]
      /\ discovered'[n] = persist(discovered[n],
                                  merge_engine_lists(xch[l].local, xch[l].reply, clock), S)
  BY <1>1 DEF Persist, GInv, TypeOK
<1>4. /\ discovered'[n] \in Table /\ Ordered(discovered'[n])
      /\ Kept(discovered[n], discovered'[n])
  BY <1>2, <1>3, PersistTable DEF Kept
<1> QED BY <1>1, <1>3, <1>4 DEF Effect, Ordered, GInv, TypeOK

LEMMA RestartEffect ==
    ASSUME GInv, NEW n \in Node, NEW name \in Name, Restart(n, name)
    PROVE  Effect(n) /\ Kept(discovered[n], discovered'[n])
<1> DEFINE row == upsert(discovered[n][n], Self(name, clock))
<1>1. /\ discovered[n] \in Table /\ Ordered(discovered[n]) /\ clock \in Time
      /\ discovered[n][n] # NoRow
  BY DEF GInv, TypeOK
<1>2. /\ Self(name, clock) \in Row /\ Self(name, clock).first = clock
      /\ Self(name, clock).last = clock
  BY <1>1 DEF Self, Row
<1>3. clock <= clock
  BY <1>1, GossipAssumption DEF Time
<1>4. /\ row \in Row /\ row.first <= row.last /\ row.last <= clock
      /\ row.first = discovered[n][n].first /\ row.last >= discovered[n][n].last
  <2>1. /\ discovered[n][n] \in Row \cup {NoRow}
        /\ discovered[n][n].first <= discovered[n][n].last /\ discovered[n][n].last <= clock
    BY <1>1 DEF Table, Ordered
  <2> QED BY <1>1, <1>2, <1>3, <2>1, UpsertRow
<1> HIDE DEF row
<1>5. discovered' = [discovered EXCEPT ![n] = [discovered[n] EXCEPT ![n] = row]]
  BY DEF Restart, row
<1>6. /\ discovered'[n] = [discovered[n] EXCEPT ![n] = row]
      /\ \A m \in Node \ {n} : discovered'[m] = discovered[m]
      /\ DOMAIN discovered' = Node /\ discovered' = [m \in Node |-> discovered'[m]]
  BY <1>5 DEF GInv, TypeOK
<1>7. \A e \in Node : /\ discovered[n][e] \in Row \cup {NoRow}
                      /\ discovered[n][e] # NoRow => discovered[n][e].last \in Int
  BY <1>1 DEF Table, Row, Time
<1>8. \A e \in Node : discovered'[n][e] = IF e = n THEN row ELSE discovered[n][e]
  BY <1>1, <1>6 DEF Table
<1>9. discovered'[n] \in Table
  BY <1>1, <1>4, <1>6 DEF Table
<1>10. Kept(discovered[n], discovered'[n])
  <2> SUFFICES ASSUME NEW e \in Node, discovered[n][e] # NoRow
               PROVE  /\ discovered'[n][e] # NoRow
                      /\ discovered'[n][e].first = discovered[n][e].first
                      /\ discovered'[n][e].last >= discovered[n][e].last
    BY DEF Kept
  <2>1. CASE e = n
    BY <2>1, <1>4, <1>8, NoRowIsNone
  <2>2. CASE e # n
    BY <2>2, <1>7, <1>8
  <2> QED BY <2>1, <2>2
<1> QED BY <1>1, <1>4, <1>6, <1>8, <1>9, <1>10 DEF Effect, Ordered

LEMMA RemoveEffect ==
    ASSUME GInv, NEW n \in Node, NEW e \in Node, remove_discovered(n, e)
    PROVE  /\ Effect(n)
           /\ e # n /\ discovered[n][e] # NoRow
           /\ discovered'[n] = [discovered[n] EXCEPT ![e] = NoRow]
<1>1. /\ discovered[n] \in Table /\ Ordered(discovered[n]) /\ clock \in Time
  BY DEF GInv, TypeOK
<1>2. discovered' = [discovered EXCEPT ![n] = [discovered[n] EXCEPT ![e] = NoRow]]
  BY DEF remove_discovered
<1>3. /\ discovered'[n] = [discovered[n] EXCEPT ![e] = NoRow]
      /\ \A m \in Node \ {n} : discovered'[m] = discovered[m]
      /\ DOMAIN discovered' = Node /\ discovered' = [m \in Node |-> discovered'[m]]
  BY <1>2 DEF GInv, TypeOK
<1>4. \A f \in Node : discovered'[n][f] = IF f = e THEN NoRow ELSE discovered[n][f]
  BY <1>1, <1>3 DEF Table
<1>5. NoRow.first <= NoRow.last /\ NoRow.last <= clock
  BY <1>1, GossipAssumption DEF NoRow, Time
<1>6. discovered'[n] \in Table
  BY <1>1, <1>3 DEF Table
<1> QED BY <1>1, <1>3, <1>4, <1>5, <1>6 DEF Effect, Ordered, remove_discovered

\* The table part of the invariant follows from an Effect that keeps the
\* node's own entry.
LEMMA TablesKept ==
    ASSUME GInv, NEW n \in Node, Effect(n), discovered'[n][n] # NoRow, clock' = clock
    PROVE  /\ discovered' \in [Node -> Table]
           /\ \A m \in Node : Ordered(discovered[m])' /\ discovered'[m][m] # NoRow
<1>1. \A m \in Node : discovered'[m] \in Table
  <2> TAKE m \in Node
  <2>1. CASE m = n
    BY <2>1 DEF Effect
  <2>2. CASE m # n
    BY <2>2 DEF Effect, GInv, TypeOK
  <2> QED BY <2>1, <2>2
<1>2. discovered' \in [Node -> Table]
  BY <1>1 DEF Effect
<1>3. ASSUME NEW m \in Node
      PROVE  Ordered(discovered[m])' /\ discovered'[m][m] # NoRow
  <2>1. CASE m = n
    BY <2>1 DEF Effect, Ordered
  <2>2. CASE m # n
    BY <2>2 DEF Effect, Ordered, GInv
  <2> QED BY <2>1, <2>2
<1> QED BY <1>2, <1>3

LEMMA InitGInv == Init => GInv
<1> SUFFICES ASSUME Init PROVE GInv
  OBVIOUS
<1> USE GossipAssumption
<1>1. clock = 0 /\ 0 \in Time /\ conf = FirstName /\ events = 0
  BY DEF Init, Time
<1>2. NoTable \in Table /\ NoSummary \in Summary /\ Ordered(NoTable)
  BY <1>1 DEF NoTable, NoSummary, Table, Summary, Ordered, NoRow
<1>3. \A n \in Node : Self(FirstName[n], 0) \in Row
  BY <1>1 DEF Self, Row
<1>4. discovered = [n \in Node |-> [e \in Node |->
                       IF e = n THEN Self(FirstName[n], 0) ELSE NoRow]]
  BY DEF Init
<1>5. \A n \in Node : discovered[n] \in Table
  BY <1>3, <1>4 DEF Table
<1>6. ASSUME NEW n \in Node
      PROVE  Ordered(discovered[n]) /\ discovered[n][n] # NoRow
  <2>1. \A e \in Node : discovered[n][e] = IF e = n THEN Self(FirstName[n], 0) ELSE NoRow
    BY <1>4
  <2>2. Self(FirstName[n], 0).first = 0 /\ Self(FirstName[n], 0).last = 0
    BY DEF Self
  <2>3. NoRow.first = 0 /\ NoRow.last = 0
    BY DEF NoRow
  <2>4. \A e \in Node : discovered[n][e].first = 0 /\ discovered[n][e].last = 0
    <3> TAKE e \in Node
    <3>1. CASE e = n
      BY <2>1, <2>2, <3>1
    <3>2. CASE e # n
      BY <2>1, <2>3, <3>2
    <3> QED BY <3>1, <3>2
  <2>5. Ordered(discovered[n])
    <3>1. clock = 0 /\ 0 <= 0
      BY <1>1
    <3> QED BY <2>4, <3>1 DEF Ordered
  <2> QED BY <1>3, <2>1, <2>5, NoRowIsNone
<1>7. xch \in [Link -> [pc : {"idle", "sent", "answered"}, local : Table, reply : Summary]]
      /\ \A l \in Link : xch[l].local = NoTable
  BY <1>2 DEF Init, Idle
<1>8. discovered \in [Node -> Table]
  BY <1>4, <1>5
<1> QED BY <1>1, <1>2, <1>6, <1>7, <1>8 DEF GInv, TypeOK

\* What a step does to the tables: nothing, a change of one table that keeps
\* every entry, or the removal of one entry that is not the node's own.
TableStep ==
    \/ UNCHANGED discovered
    \/ \E n \in Node : Effect(n) /\ Kept(discovered[n], discovered'[n])
    \/ \E n, e \in Node : /\ Effect(n) /\ e # n /\ discovered[n][e] # NoRow
                          /\ discovered'[n] = [discovered[n] EXCEPT ![e] = NoRow]

LEMMA NextTableStep ==
    ASSUME GInv, [Next]_vars
    PROVE  TableStep
<1> USE GossipAssumption
<1>1. ASSUME NEW l \in Link, Begin(l) PROVE TableStep
  BY <1>1 DEF Begin, TableStep
<1>2. ASSUME NEW l \in Link, Serve(l) PROVE TableStep
  <2>1. Merged(l, Node) /\ l[2] \in Node
    BY <1>2 DEF Serve
  <2> QED BY <2>1, MergedEffect DEF TableStep
<1>3. ASSUME NEW l \in Link, ExchangeFails(l) PROVE TableStep
  <2>1. CASE UNCHANGED discovered
    BY <2>1 DEF TableStep
  <2>2. CASE \E S \in Partial : Merged(l, S)
    <3>1. PICK S \in Partial : Merged(l, S)
      BY <2>2
    <3>2. S \in SUBSET Node /\ l[2] \in Node
      OBVIOUS
    <3> QED BY <3>1, <3>2, MergedEffect DEF TableStep
  <2> QED BY <1>3, <2>1, <2>2 DEF ExchangeFails
<1>4. ASSUME NEW l \in Link, NEW S \in Partial \cup {Node}, Persist(l, S) PROVE TableStep
  <2>1. S \in SUBSET Node /\ l[1] \in Node
    OBVIOUS
  <2> QED BY <1>4, <2>1, PersistEffect DEF TableStep
<1>5. ASSUME NEW n \in Node, NEW e \in Node, remove_discovered(n, e) PROVE TableStep
  BY <1>5, RemoveEffect DEF TableStep
<1>6. ASSUME NEW n \in Node, NEW name \in Name, Restart(n, name) PROVE TableStep
  BY <1>6, RestartEffect DEF TableStep
<1>7. CASE Tick \/ UNCHANGED vars
  BY <1>7 DEF Tick, vars, TableStep
<1> QED BY <1>1, <1>2, <1>3, <1>4, <1>5, <1>6, <1>7 DEF Next

LEMMA ClockStep ==
    ASSUME [Next]_vars
    PROVE  clock' = clock \/ Tick
<1>1. ASSUME NEW l \in Link, NEW S \in Partial \cup {Node},
             Begin(l) \/ Serve(l) \/ ExchangeFails(l) \/ Persist(l, S)
      PROVE  clock' = clock
  BY <1>1 DEF Begin, Serve, ExchangeFails, Persist
<1>2. ASSUME NEW n \in Node, NEW e \in Node, remove_discovered(n, e)
      PROVE  clock' = clock
  BY <1>2 DEF remove_discovered
<1>3. ASSUME NEW n \in Node, NEW name \in Name, Restart(n, name)
      PROVE  clock' = clock
  BY <1>3 DEF Restart
<1>4. CASE UNCHANGED vars
  BY <1>4 DEF vars
<1> QED BY <1>1, <1>2, <1>3, <1>4 DEF Next

\* The tables after a step, whether the clock ticked or not.
LEMMA TablesInvariant ==
    ASSUME GInv, [Next]_vars
    PROVE  /\ discovered' \in [Node -> Table]
           /\ \A m \in Node : Ordered(discovered[m])' /\ discovered'[m][m] # NoRow
<1>1. CASE UNCHANGED discovered
  <2>1. clock' \in Int /\ clock \in Int /\ clock <= clock'
    BY GossipAssumption, ClockStep DEF Tick, GInv, TypeOK, Time
  <2>2. \A m \in Node, e \in Node : discovered[m][e].last \in Int
    BY DEF GInv, TypeOK, Table, Row, Time, NoRow
  <2> QED BY <1>1, <2>1, <2>2 DEF GInv, TypeOK, Ordered
<1>2. CASE discovered' # discovered
  <2>1. clock' = clock
    BY <1>2, ClockStep DEF Tick
  <2>2. PICK n \in Node : Effect(n) /\ discovered'[n][n] # NoRow
    <3>1. CASE \E n \in Node : Effect(n) /\ Kept(discovered[n], discovered'[n])
      BY <3>1 DEF Kept, GInv
    <3>2. CASE \E n, e \in Node : /\ Effect(n) /\ e # n /\ discovered[n][e] # NoRow
                                  /\ discovered'[n] = [discovered[n] EXCEPT ![e] = NoRow]
      BY <3>2 DEF GInv, TypeOK, Table
    <3> QED BY <1>2, <3>1, <3>2, NextTableStep DEF TableStep
  <2> QED BY <2>1, <2>2, TablesKept
<1> QED BY <1>1, <1>2

\* The exchanges after a step: their snapshots are tables of the invariant.
LEMMA ExchangesInvariant ==
    ASSUME GInv, [Next]_vars
    PROVE  /\ xch' \in [Link -> [pc : {"idle", "sent", "answered"}, local : Table,
                                 reply : Summary]]
           /\ \A l \in Link : Ordered(xch[l].local)'
<1> DEFINE XType == [Link -> [pc : {"idle", "sent", "answered"}, local : Table, reply : Summary]]
           XOrdered == \A l \in Link, e \in Node :
                           /\ xch'[l].local[e].first <= xch'[l].local[e].last
                           /\ xch'[l].local[e].last <= clock
<1> USE GossipAssumption
<1>a. /\ xch \in XType /\ clock \in Time /\ Idle.local = NoTable
      /\ \A l \in Link : Ordered(xch[l].local)
      /\ \A n \in Node : discovered[n] \in Table /\ Ordered(discovered[n])
  BY DEF GInv, TypeOK, Idle
<1>b. NoSummary \in Summary /\ NoTable \in Table /\ Ordered(NoTable)
      /\ Idle \in [pc : {"idle", "sent", "answered"}, local : Table, reply : Summary]
  BY <1>a DEF NoSummary, Summary, NoTable, Table, Ordered, NoRow, Time, Idle
<1>1. ASSUME NEW l \in Link, Begin(l) PROVE xch' \in XType /\ XOrdered
  <2>1. xch' = [xch EXCEPT ![l] = [pc |-> "sent", local |-> discovered[l[1]],
                                   reply |-> NoSummary]]
    BY <1>1 DEF Begin
  <2>2. l[1] \in Node
    OBVIOUS
  <2>3. xch' \in XType
    BY <1>a, <1>b, <2>1, <2>2
  <2>4. \A k \in Link : xch'[k].local = IF k = l THEN discovered[l[1]] ELSE xch[k].local
    BY <1>a, <2>1
  <2> QED BY <1>a, <2>2, <2>3, <2>4 DEF Ordered
<1>2. ASSUME NEW l \in Link, Serve(l) PROVE xch' \in XType /\ XOrdered
  <2>1. xch' = [xch EXCEPT ![l] = [xch[l] EXCEPT !.pc = "answered",
                                                 !.reply = Summarise(discovered[l[2]])]]
    BY <1>2, <1>a DEF Serve
  <2>2. Summarise(discovered[l[2]]) \in Summary
    BY <1>a DEF Summarise, Summary, Table, Row, NoRow
  <2>3. xch' \in XType
    BY <1>a, <2>1, <2>2
  <2>4. \A k \in Link : xch'[k].local = xch[k].local
    BY <1>a, <2>1
  <2> QED BY <1>a, <2>3, <2>4 DEF Ordered
<1>3. ASSUME NEW L \in SUBSET Link, xch' = [k \in Link |-> IF k \in L THEN Idle ELSE xch[k]]
      PROVE  xch' \in XType /\ XOrdered
  <2>1. xch' \in XType
    BY <1>3, <1>a, <1>b
  <2>2. \A k \in Link : xch'[k].local = IF k \in L THEN NoTable ELSE xch[k].local
    BY <1>3, <1>a
  <2> QED BY <1>a, <1>b, <2>1, <2>2 DEF Ordered
<1>4. ASSUME NEW l \in Link, xch' = [xch EXCEPT ![l] = Idle]
      PROVE  xch' \in XType /\ XOrdered
  <2> DEFINE L == {l}
  <2>1. xch' = [k \in Link |-> IF k \in L THEN Idle ELSE xch[k]]
    BY <1>4, <1>a
  <2>2. L \in SUBSET Link
    OBVIOUS
  <2> QED BY <1>3, <2>1, <2>2
<1>5. ASSUME NEW n \in Node, NEW name \in Name, Restart(n, name)
      PROVE  xch' \in XType /\ XOrdered
  <2> DEFINE L == {l \in Link : l[1] = n}
  <2>1. xch' = [k \in Link |-> IF k \in L THEN Idle ELSE xch[k]]
    BY <1>5 DEF Restart
  <2>2. L \in SUBSET Link
    OBVIOUS
  <2> QED BY <1>3, <2>1, <2>2
<1>6. ASSUME UNCHANGED xch PROVE xch' \in XType /\ XOrdered
  BY <1>6, <1>a DEF Ordered
<1>9. xch' \in XType /\ XOrdered
  <2> HIDE DEF XType, XOrdered
  <2>1. CASE \E l \in Link : Begin(l) \/ Serve(l)
    BY <2>1, <1>1, <1>2
  <2>2. CASE \E l \in Link : ExchangeFails(l) \/ \E S \in Partial \cup {Node} : Persist(l, S)
    BY <2>2, <1>4 DEF ExchangeFails, Persist
  <2>3. CASE \E n \in Node, name \in Name : Restart(n, name)
    BY <2>3, <1>5
  <2>4. CASE Tick \/ UNCHANGED vars \/ \E n, e \in Node : remove_discovered(n, e)
    BY <2>4, <1>6 DEF Tick, vars, remove_discovered
  <2> QED BY <2>1, <2>2, <2>3, <2>4 DEF Next
<1>10. clock \in Int /\ clock' \in Int /\ clock <= clock'
  BY <1>a, ClockStep DEF Tick, Time
<1>11. \A l \in Link, e \in Node : xch'[l].local[e].last \in Int
  <2>1. \A l \in Link : xch'[l].local \in Table
    BY <1>9
  <2>2. \A t \in Table, e \in Node : t[e].last \in Int
    BY DEF Table, Row, Time, NoRow
  <2> QED BY <2>1, <2>2
<1> QED BY <1>9, <1>10, <1>11 DEF Ordered

LEMMA NextGInv == GInv /\ [Next]_vars => GInv'
<1> SUFFICES ASSUME GInv, [Next]_vars PROVE GInv'
  OBVIOUS
<1> USE GossipAssumption
<1>1. clock' \in Time
  BY ClockStep DEF Tick, GInv, TypeOK, Time
<1>2. conf' \in [Node -> Name] /\ events' \in 0..MaxEvents
  <2>0. conf \in [Node -> Name] /\ events \in 0..MaxEvents
    BY DEF GInv, TypeOK
  <2>1. ASSUME NEW l \in Link, NEW S \in Partial \cup {Node},
               Begin(l) \/ Serve(l) \/ ExchangeFails(l) \/ Persist(l, S)
        PROVE  UNCHANGED <<conf, events>>
    BY <2>1 DEF Begin, Serve, ExchangeFails, Persist
  <2>2. ASSUME NEW n \in Node, NEW e \in Node, remove_discovered(n, e)
        PROVE  UNCHANGED conf /\ events' \in 0..MaxEvents
    BY <2>0, <2>2 DEF remove_discovered
  <2>3. ASSUME NEW n \in Node, NEW name \in Name, Restart(n, name)
        PROVE  conf' \in [Node -> Name] /\ events' \in 0..MaxEvents
    BY <2>0, <2>3 DEF Restart
  <2>4. CASE Tick \/ UNCHANGED vars
    BY <2>0, <2>4 DEF Tick, vars
  <2> QED BY <2>0, <2>1, <2>2, <2>3, <2>4 DEF Next
<1> QED BY <1>1, <1>2, TablesInvariant, ExchangesInvariant DEF GInv, TypeOK

THEOREM GossipInvariance == Spec => []GInv
BY InitGInv, NextGInv, PTL DEF Spec

\* Tables, snapshots and answers keep their types (discovered.rs, gossip.rs).
THEOREM GossipTypeCorrect == Spec => []TypeOK
<1>1. GInv => TypeOK
  BY DEF GInv
<1> QED BY <1>1, GossipInvariance, PTL

\* An entry's first_seen is never after its last_seen, nor the latter in the
\* future (merge_engine_lists, discovered::upsert), for any network of nodes.
THEOREM SeenInOrder == Spec => []SeenOrder
<1>1. GInv => SeenOrder
  BY DEF GInv, Ordered, SeenOrder
<1> QED BY <1>1, GossipInvariance, PTL

\* Lists written back late never move first_seen, nor last_seen backwards
\* (discovered::upsert).
THEOREM SeenTimesKept == Spec => SeenTimes
<1> DEFINE A == \A n, e \in Node :
                  discovered[n][e] # NoRow /\ discovered'[n][e] # NoRow
                  => /\ discovered'[n][e].first = discovered[n][e].first
                     /\ discovered'[n][e].last >= discovered[n][e].last
<1>1. GInv /\ [Next]_vars => A
  <2> SUFFICES ASSUME GInv, [Next]_vars, NEW n \in Node, NEW e \in Node,
                      discovered[n][e] # NoRow, discovered'[n][e] # NoRow
               PROVE  /\ discovered'[n][e].first = discovered[n][e].first
                      /\ discovered'[n][e].last >= discovered[n][e].last
    OBVIOUS
  <2>1. discovered[n] \in Table /\ discovered[n][e].last \in Int
    BY DEF GInv, TypeOK, Table, Row, Time
  <2>2. CASE discovered'[n][e] = discovered[n][e]
    BY <2>1, <2>2
  <2>3. CASE \E m \in Node : Effect(m) /\ Kept(discovered[m], discovered'[m])
    <3>1. PICK m \in Node : Effect(m) /\ Kept(discovered[m], discovered'[m])
      BY <2>3
    <3>2. CASE m = n
      BY <3>1, <3>2 DEF Kept
    <3>3. CASE m # n
      BY <2>2, <3>1, <3>3 DEF Effect
    <3> QED BY <3>2, <3>3
  <2>4. CASE \E m, f \in Node : /\ Effect(m) /\ f # m /\ discovered[m][f] # NoRow
                                /\ discovered'[m] = [discovered[m] EXCEPT ![f] = NoRow]
    <3>1. PICK m \in Node, f \in Node :
            /\ Effect(m)
            /\ discovered'[m] = [discovered[m] EXCEPT ![f] = NoRow]
      BY <2>4
    <3>2. CASE m = n
      <4>1. f # e
        BY <2>1, <3>1, <3>2 DEF Table
      <4> QED BY <2>1, <2>2, <3>1, <3>2, <4>1 DEF Table
    <3>3. CASE m # n
      BY <2>2, <3>1, <3>3 DEF Effect
    <3> QED BY <3>2, <3>3
  <2> QED BY <2>2, <2>3, <2>4, NextTableStep DEF TableStep
<1>2. Spec => [][A]_vars
  BY <1>1, GossipInvariance, PTL DEF Spec
<1> QED BY <1>2 DEF SeenTimes

\* Gossip implements the directory of section 5: a list keeps the engine's own
\* entry, takes entries over one list at a time, and loses an entry only to
\* the operator of that node (remove_discovered), whatever snapshot is written
\* back and wherever an upsert loop fails.
THEOREM ImplementsDirectory == Spec => Additive
<1> DEFINE known == [n \in Node |-> Known(discovered[n])]
<1>1. Init => Directory!Init
  <2> SUFFICES ASSUME Init PROVE known = [n \in Node |-> {n}]
    BY DEF Directory!Init
  <2>1. \A n \in Node : Self(FirstName[n], 0) \in Row
    BY GossipAssumption DEF Self, Row, Time
  <2>2. \A n \in Node : Known(discovered[n]) = {n}
    BY <2>1, NoRowIsNone DEF Init, Known
  <2> QED BY <2>2
<1>2. GInv /\ [Next]_vars => [Directory!Next]_known
  <2> SUFFICES ASSUME GInv, [Next]_vars PROVE Directory!Next \/ known' = known
    OBVIOUS
  <2>1. CASE UNCHANGED discovered
    BY <2>1 DEF Known
  <2>2. ASSUME NEW n \in Node, Effect(n)
        PROVE  known' = [known EXCEPT ![n] = Known(discovered'[n])]
    BY <2>2 DEF Effect
  <2>3. ASSUME NEW n \in Node, Effect(n), Kept(discovered[n], discovered'[n])
        PROVE  Directory!Next
    <3>1. Known(discovered'[n]) = known[n] \cup Known(discovered'[n])
      BY <2>3 DEF Kept, Known
    <3>2. Known(discovered'[n]) \in SUBSET Node
      BY DEF Known
    <3>3. Directory!Learn(n)
      BY <2>2, <2>3, <3>1, <3>2 DEF Directory!Learn
    <3> QED BY <3>3 DEF Directory!Next
  <2>4. ASSUME NEW n \in Node, NEW e \in Node, Effect(n), e # n, discovered[n][e] # NoRow,
               discovered'[n] = [discovered[n] EXCEPT ![e] = NoRow]
        PROVE  Directory!Next
    <3>1. \A f \in Node : discovered'[n][f] = IF f = e THEN NoRow ELSE discovered[n][f]
      BY <2>4 DEF GInv, TypeOK, Table
    <3>2. Known(discovered'[n]) = known[n] \ {e} /\ e \in known[n] \ {n}
      BY <2>4, <3>1 DEF Known
    <3>3. Directory!Remove(n, e)
      BY <2>2, <2>4, <3>2 DEF Directory!Remove
    <3> QED BY <3>3 DEF Directory!Next
  <2> QED BY <2>1, <2>3, <2>4, NextTableStep DEF TableStep
<1> QED BY <1>1, <1>2, GossipInvariance, PTL DEF Spec, Additive, Directory!Spec

-----------------------------------------------------------------------------
(* Versions: what a running exchange holds is of its initiator's major too *)

Own(n, d) == \A e \in Node : d[e] # NoRow => Speaks(n, e)
OwnSummary(n, s) == \A e \in Node : s[e] # None => Speaks(n, e)

VInv ==
    /\ \A n \in Node : Own(n, discovered[n])
    /\ \A l \in Link : Own(l[1], xch[l].local) /\ OwnSummary(l[1], xch[l].reply)

LEMMA AcceptedSpeaks ==
    ASSUME NEW n \in Node, NEW p \in Node, Accepts(n, p)
    PROVE  Version[n].major = Version[p].major
BY DEF Accepts, check_compatibility

\* A summary of a list names only what the list has.
LEMMA SummaryOwn ==
    ASSUME NEW n \in Node, NEW p \in Node, NEW d, Own(p, d),
           Version[n].major = Version[p].major
    PROVE  OwnSummary(n, Summarise(d))
BY DEF Own, OwnSummary, Speaks, Summarise, NoRow

LEMMA PersistOwn ==
    ASSUME NEW n \in Node, NEW table, NEW local, NEW incoming, NEW S,
           Own(n, table), Own(n, local), OwnSummary(n, incoming)
    PROVE  Own(n, persist(table, merge_engine_lists(local, incoming, clock), S))
<1> DEFINE list == merge_engine_lists(local, incoming, clock)
<1> SUFFICES ASSUME NEW e \in Node, persist(table, list, S)[e] # NoRow
             PROVE  Speaks(n, e)
  BY DEF Own
<1>1. list[e] = merged(local[e], incoming[e], clock)
  BY DEF merge_engine_lists
<1>2. list[e] # NoRow => local[e] # NoRow \/ incoming[e] # None
  BY <1>1 DEF merged
<1> HIDE DEF list
<1>3. table[e] # NoRow \/ list[e] # NoRow
  BY DEF persist
<1> QED BY <1>2, <1>3 DEF Own, OwnSummary

LEMMA InitVInv == Init => VInv
BY GossipAssumption DEF Init, VInv, Own, OwnSummary, Speaks, Idle, NoTable, NoSummary

LEMMA MergedVInv ==
    ASSUME GInv, VInv, NEW l \in Link, NEW S \in SUBSET Node, Merged(l, S)
    PROVE  \A n \in Node : Own(n, discovered'[n])
<1>1. l[1] \in Node /\ l[2] \in Node
  BY GossipAssumption
<1>2. Version[l[2]].major = Version[l[1]].major
  BY <1>1, AcceptedSpeaks DEF Merged
<1>3. OwnSummary(l[2], Payload(l))
  BY <1>1, <1>2, SummaryOwn DEF VInv, Payload
<1>4. /\ discovered'[l[2]] = persist(discovered[l[2]],
             merge_engine_lists(discovered[l[2]], Payload(l), clock), S)
      /\ \A n \in Node \ {l[2]} : discovered'[n] = discovered[n]
  BY <1>1 DEF Merged, GInv, TypeOK
<1>5. Own(l[2], discovered'[l[2]])
  BY <1>1, <1>3, <1>4, PersistOwn DEF VInv
<1> QED BY <1>4, <1>5 DEF VInv

LEMMA NextVInv == GInv /\ VInv /\ [Next]_vars => VInv'
<1> SUFFICES ASSUME GInv, VInv, [Next]_vars PROVE VInv'
  OBVIOUS
<1> USE GossipAssumption
<1>1. \A l \in Link : Own(l[1], Idle.local) /\ OwnSummary(l[1], Idle.reply)
  BY DEF Own, OwnSummary, Idle, NoTable, NoSummary
<1>2. xch \in [Link -> [pc : {"idle", "sent", "answered"}, local : Table, reply : Summary]]
  BY DEF GInv, TypeOK
<1>3. ASSUME NEW l \in Link, Begin(l) PROVE VInv'
  <2>1. l[1] \in Node /\ OwnSummary(l[1], NoSummary)
    BY DEF OwnSummary, NoSummary
  <2>2. \A k \in Link : xch'[k] = IF k = l THEN [pc |-> "sent", local |-> discovered[l[1]],
                                                 reply |-> NoSummary] ELSE xch[k]
    BY <1>2, <1>3 DEF Begin
  <2>3. discovered' = discovered
    BY <1>3 DEF Begin
  <2> QED BY <2>1, <2>2, <2>3 DEF VInv, Own, OwnSummary
<1>4. ASSUME NEW l \in Link, Serve(l) PROVE VInv'
  <2>1. l[1] \in Node /\ l[2] \in Node /\ Version[l[1]].major = Version[l[2]].major
    BY <1>4, AcceptedSpeaks DEF Serve, Merged
  <2>2. OwnSummary(l[1], Summarise(discovered[l[2]]))
    BY <2>1, SummaryOwn DEF VInv
  <2>3. \A n \in Node : Own(n, discovered'[n])
    BY <1>4, MergedVInv DEF Serve
  <2>4. \A k \in Link : /\ xch'[k].local = xch[k].local
                        /\ xch'[k].reply = IF k = l THEN Summarise(discovered[l[2]])
                                           ELSE xch[k].reply
    BY <1>2, <1>4 DEF Serve
  <2>5. \A k \in Link : Own(k[1], xch'[k].local) /\ OwnSummary(k[1], xch'[k].reply)
    BY <2>2, <2>4 DEF VInv
  <2> QED BY <2>3, <2>5 DEF VInv, Own, OwnSummary
<1>5. ASSUME NEW l \in Link, ExchangeFails(l) PROVE VInv'
  <2>1. \A n \in Node : Own(n, discovered'[n])
    <3>1. CASE \E S \in Partial : Merged(l, S)
      BY <3>1, MergedVInv
    <3>2. CASE UNCHANGED discovered
      BY <3>2 DEF VInv
    <3> QED BY <1>5, <3>1, <3>2 DEF ExchangeFails
  <2>2. \A k \in Link : xch'[k] = IF k = l THEN Idle ELSE xch[k]
    BY <1>2, <1>5 DEF ExchangeFails
  <2>3. \A k \in Link : Own(k[1], xch'[k].local) /\ OwnSummary(k[1], xch'[k].reply)
    BY <1>1, <2>2 DEF VInv
  <2> QED BY <2>1, <2>3 DEF VInv, Own, OwnSummary
<1>6. ASSUME NEW l \in Link, NEW S \in Partial \cup {Node}, Persist(l, S) PROVE VInv'
  <2>1. l[1] \in Node
    OBVIOUS
  <2>2. /\ discovered'[l[1]] = persist(discovered[l[1]],
               merge_engine_lists(xch[l].local, xch[l].reply, clock), S)
        /\ \A n \in Node \ {l[1]} : discovered'[n] = discovered[n]
    BY <1>6, <2>1 DEF Persist, GInv, TypeOK
  <2>3. \A n \in Node : Own(n, discovered'[n])
    <3>1. Own(l[1], discovered'[l[1]])
      BY <2>1, <2>2, PersistOwn DEF VInv
    <3> QED BY <2>2, <3>1 DEF VInv
  <2>4. \A k \in Link : xch'[k] = IF k = l THEN Idle ELSE xch[k]
    BY <1>2, <1>6 DEF Persist
  <2>5. \A k \in Link : Own(k[1], xch'[k].local) /\ OwnSummary(k[1], xch'[k].reply)
    BY <1>1, <2>4 DEF VInv
  <2> QED BY <2>3, <2>5 DEF VInv, Own, OwnSummary
<1>7. ASSUME NEW n \in Node, NEW e \in Node, remove_discovered(n, e) PROVE VInv'
  <2>1. \A m \in Node, f \in Node :
          discovered'[m][f] # NoRow => discovered[m][f] # NoRow
    BY <1>7 DEF remove_discovered, GInv, TypeOK, Table
  <2>2. xch' = xch
    BY <1>7 DEF remove_discovered
  <2> QED BY <2>1, <2>2 DEF VInv, Own, OwnSummary
<1>8. ASSUME NEW n \in Node, NEW name \in Name, Restart(n, name) PROVE VInv'
  <2>1. \A m \in Node, f \in Node :
          discovered'[m][f] # NoRow => discovered[m][f] # NoRow \/ m = f
    BY <1>8 DEF Restart, GInv, TypeOK, Table
  <2>2. \A k \in Link : xch'[k] = Idle \/ xch'[k] = xch[k]
    BY <1>8 DEF Restart
  <2>3. \A k \in Link : Own(k[1], xch'[k].local) /\ OwnSummary(k[1], xch'[k].reply)
    BY <1>1, <2>2 DEF VInv
  <2> QED BY <2>1, <2>3 DEF VInv, Own, OwnSummary, Speaks
<1>9. CASE Tick \/ UNCHANGED vars
  BY <1>9 DEF Tick, vars, VInv, Own, OwnSummary
<1> QED BY <1>3, <1>4, <1>5, <1>6, <1>7, <1>8, <1>9 DEF Next

\* Networks of different majors never mix (check_compatibility, exchange,
\* trigger_gossip), for any assignment of versions to any network of engines:
\* neither side's refusal can be got round by a third engine or a late write.
THEOREM MajorsStayApart == Spec => []VersionsApart
<1>1. VInv => VersionsApart
  BY DEF VInv, Own, VersionsApart
<1> QED BY <1>1, InitVInv, NextVInv, GossipInvariance, PTL DEF Spec

=============================================================================
