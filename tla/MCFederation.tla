---------------------------- MODULE MCFederation ----------------------------
(***************************************************************************)
(* Two peers, one search at a time, and an index of which one document is  *)
(* old: its score is halved.  A peer's answer ties with a local result.    *)
(***************************************************************************)
EXTENDS Federation

CONSTANTS u1, u2, c, s1

MCRequest == {[via |-> "sse", depth |-> 1, query |-> "fine"],
              [via |-> "json", depth |-> 3, query |-> "fine"],
              [via |-> "mcp", depth |-> 0, query |-> "malformed"],
              [via |-> "json", depth |-> 0, query |-> "blank"]}
MCIndex == <<[bm25 |-> 2, age |-> 1, domain |-> "d", coll |-> "c"],
             [bm25 |-> 1, age |-> 0, domain |-> "d", coll |-> "c"]>>
MCPeerScores == [u \in Url |-> IF u = u1 THEN <<2, 4>> ELSE <<3>>]
MCWeight == [u \in Url |-> IF u = u1 THEN 2 ELSE 1]

=============================================================================
