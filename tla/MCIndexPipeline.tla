--------------------------- MODULE MCIndexPipeline ---------------------------
(***************************************************************************)
(* Small instances of IndexPipeline.  Two targets t1, t2 whose prefixes    *)
(* overlap; the configurations choose which collections they belong to and *)
(* which URLs are aliases.                                                 *)
(***************************************************************************)
EXTENDS IndexPipeline, TLC

CONSTANTS t1, t2, c1, c2, u1, u2, h1, h2

SameColl == [t \in Target |-> c1]
OwnColl == [t \in Target |-> IF t = t1 THEN c1 ELSE c2]

OnePrefix == [t \in Target |-> "/"]
OwnPrefix == [t \in Target |-> t]

\* Every target covers every URL; one target is the other's sub-path.
WholePrefix == [t \in Target |-> Url]
SubPrefix == [t \in Target |-> IF t = t1 THEN Url ELSE {u1}]

NoAlias == [u \in Url |-> u]
Alias == [u \in Url |-> u1]      \* u2 redirects to u1

\* Contents are interchangeable wherever no liveness is checked.
HashSymmetry == Permutations(Hash)

=============================================================================
