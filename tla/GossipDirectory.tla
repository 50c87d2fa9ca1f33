--------------------------- MODULE GossipDirectory ---------------------------
(***************************************************************************)
(* What gossip promises (docs/COMMUNITY_SEARCH_PROTOCOL.md, section 5),    *)
(* without lists in flight, names or times: every engine keeps a directory *)
(* of engines that always holds itself, grows by engines somebody has      *)
(* announced, and shrinks only when its operator removes an entry.         *)
(***************************************************************************)
CONSTANTS Node

VARIABLES
    known       \* [Node -> SUBSET Node]: whom each engine has discovered

Init == known = [n \in Node |-> {n}]

\* A directory takes over entries; the others are left alone.
Learn(n) ==
    \E S \in SUBSET Node : known' = [known EXCEPT ![n] = @ \cup S]

\* The operator removes one entry, never the engine's own.
Remove(n, e) ==
    /\ e \in known[n] \ {n}
    /\ known' = [known EXCEPT ![n] = @ \ {e}]

Next == \E n \in Node : Learn(n) \/ \E e \in Node : Remove(n, e)

Spec == Init /\ [][Next]_known

=============================================================================
