------------------------------ MODULE MCGossip ------------------------------
(* A line of three engines: the middle one serves one end while its own
   exchange with the other end is under way.  They differ in the minor version;
   a fourth engine, of another major, posts to the first. *)
EXTENDS Gossip

CONSTANTS a, b, c, d, old, new

Line == {<<a, b>>, <<b, c>>, <<d, a>>}
Forgotten == {<<b, a>>}
NothingOrLast == {{}, {c}}
Versions == [n \in Node |-> [major |-> IF n = d THEN 2 ELSE 1,
                             minor |-> IF n = a THEN 1 ELSE 0]]
AllOld == [n \in Node |-> old]

=============================================================================
