----------------------------- MODULE MCCatalog -----------------------------
(***************************************************************************)
(* Two collection names, one page, one foreign host, one peer.  The first  *)
(* archive has a ranked collection and a subscription, the second the same *)
(* page under the other name, without a ranking.  The third lists the page *)
(* under two targets, which the schema refuses.                            *)
(***************************************************************************)
EXTENDS Catalog

CONSTANTS p, q, u, h, x, y, e, r, k1, k2

MCArchive(name, rank, peers, subs) ==
    [version |-> FORMAT_VERSION,
     colls |-> <<[name |-> name,
                  targets |-> {[prefix |-> p, every |-> 2, delay |-> None,
                                pages |-> {[url |-> u, hash |-> PageHash(1)]}]},
                  rank |-> rank,
                  outlinks |-> {[host |-> h, count |-> 3, examples |-> <<x>>, status |-> "dismissed"]},
                  docs |-> {[url |-> u, body |-> 1]}]>>,
     peers |-> peers, subs |-> subs]

MCArchives == {MCArchive(1, k1, {[url |-> e, enabled |-> FALSE]}, {[local |-> 1, url |-> e, remote |-> r]}),
               MCArchive(2, None, {}, {[local |-> 2, url |-> e, remote |-> r]}),
               [MCArchive(2, None, {[url |-> e, enabled |-> FALSE]}, {}) EXCEPT
                  !.colls[1].targets = @ \cup {[prefix |-> q, every |-> 2, delay |-> None,
                                                pages |-> {[url |-> u, hash |-> PageHash(1)]}]}]}

=============================================================================
