------------------------------- MODULE Ranking -------------------------------
(***************************************************************************)
(* The local search: candidates from the Tantivy index (index/reader.rs),  *)
(* their scores (search/ranking.rs), and the ranked list                   *)
(* (search/service.rs).  Scores are products of floating point factors; the*)
(* factors here are whole numbers, and the freshness factor is counted in  *)
(* units of 1/UNIT, for ages of whole half-lives.                          *)
(***************************************************************************)
EXTENDS Integers, Sequences, FiniteSets, SequencesExt

UNIT == 4

\* A document of the index as a query meets it: bm25 is 0 when it does not
\* match; age is now - timestamp, negative for a timestamp in the future.
Hit(BM25, Age, Domain, Coll) == [bm25 : BM25, age : Age, domain : Domain, coll : Coll]

\* A RankingConfig: half_life in the unit of ages, weight the source weight of
\* "local", boost the domains with a boost (every boost is 3, the default is 1).
DefaultFor == [half_life |-> 1, weight |-> 1, boost |-> {}]

\* Mutant: of equal scores the later one comes first.
BeforeUnstable(score, i, j) == score[i] > score[j] \/ (score[i] = score[j] /\ i > j)
\* The order of sort_by on a score, descending: the sort is stable.
Before(score, i, j) == score[i] > score[j] \/ (score[i] = score[j] /\ i < j)

\* The places of a function of scores, best first: each has its rank.
Rank(score, i) == 1 + Cardinality({j \in DOMAIN score : Before(score, j, i)})
Ordered(score) ==
    [k \in 1..Cardinality(DOMAIN score) |-> CHOOSE i \in DOMAIN score : Rank(score, i) = k]

ByScore(s) ==
    LET order == Ordered([k \in DOMAIN s |-> s[k].score])
    IN  [k \in DOMAIN s |-> s[order[k]]]

Truncate(s, n) == SubSeq(s, 1, IF Len(s) < n THEN Len(s) ELSE n)

Matches(index, coll) ==
    {i \in DOMAIN index : index[i].bm25 > 0 /\ coll \in {"any", index[i].coll}}

\* search_with_snippets: the `limit` best matches of the query in the
\* collection, or anywhere when none is given ("any"); equal scores come in
\* index order.
SearchWithSnippets(index, coll, limit) ==
    Truncate(Ordered([i \in Matches(index, coll) |-> index[i].bm25]), limit)

\* freshness_factor: half of UNIT for each half-life, nothing after three.
Halved(n) == CASE n = 0 -> UNIT [] n = 1 -> UNIT \div 2 [] n = 2 -> UNIT \div 4 [] OTHER -> 0
FreshnessFactor(age, half_life) ==
    IF half_life <= 0 THEN UNIT
    ELSE Halved((IF age < 0 THEN 0 ELSE age) \div half_life)

Score(hit, cfg) ==
    hit.bm25 * cfg.weight * FreshnessFactor(hit.age, cfg.half_life)
             * (IF hit.domain \in cfg.boost THEN 3 ELSE 1)

\* local_search
LocalSearch(index, coll, cfg, limit) ==
    LET raw == SearchWithSnippets(index, coll, 4 * limit)
        scored == [k \in DOMAIN raw |-> [doc |-> raw[k], score |-> Score(index[raw[k]], cfg)]]
    IN  Truncate(ByScore(scored), limit)

-----------------------------------------------------------------------------
\* What the ranked list owes the reader, for an index, a collection and a
\* configuration: as many results as there are matches, up to the limit; none
\* of another collection; and a match is left out in favour of a lower score
\* only when 4 * limit other documents match the query at least as well.  A
\* document dated in the future never scores above the same document dated now.
RankedWell(index, coll, cfg, limit) ==
    LET res == LocalSearch(index, coll, cfg, limit)
        match == Matches(index, coll)
        shown == {res[k].doc : k \in DOMAIN res}
        atLeast(i) == {j \in match \ {i} : index[j].bm25 >= index[i].bm25}
        now(i) == [index[i] EXCEPT !.age = 0]
    IN  /\ shown \subseteq match
        /\ Cardinality(shown) = Len(res)
        /\ Len(res) = IF Cardinality(match) < limit THEN Cardinality(match) ELSE limit
        /\ \A i \in match \ shown, k \in DOMAIN res :
             Score(index[i], cfg) > res[k].score => Cardinality(atLeast(i)) >= 4 * limit
        /\ \A i \in match : Score(index[i], cfg) <= Score(now(i), cfg)

=============================================================================
