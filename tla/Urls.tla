-------------------------------- MODULE Urls --------------------------------
(***************************************************************************)
(* URLs as the crawler classifies them: url_class.rs, parser.rs,           *)
(* canonical.rs and the part of page.rs that decides where a page is filed *)
(* and which of its links are followed.                                    *)
(*                                                                         *)
(* A URL that parses is a record.  Its host is the sequence of its labels, *)
(* its path a sequence of tokens (pieces of text that no two URLs of a     *)
(* model divide differently), its query the sequence of its decoded pairs. *)
(* None is a URL that does not parse.                                      *)
(***************************************************************************)
EXTENDS Integers, FiniteSets, Sequences, SequencesExt

CONSTANTS
    None,
    TRACKING_PARAMS, BLACKLISTED_OUTLINK_HOSTS,
    KeyOrder            \* the keys of queries, in alphabetical order

\* What parses: of a URL that http serves the path starts with "/"; no label of a
\* host is what ends a host; a port is given or not.
Http(u) == u.scheme \in {"http", "https"}
Label == STRING \ {"/", ":"}
ParsedUrl ==
    {u \in [scheme : STRING, userinfo : BOOLEAN, host : Seq(Label), port : {""} \cup STRING,
            path : Seq(STRING), query : Seq(Range(KeyOrder) \X STRING), fragment : BOOLEAN] :
        Http(u) => u.path # <<>> /\ Head(u.path) = "/"}

ASSUME UrlAssumption ==
    /\ None \notin ParsedUrl
    /\ BLACKLISTED_OUTLINK_HOSTS \subseteq Seq(Label)
    /\ KeyOrder \in Seq(STRING) /\ \A i, j \in DOMAIN KeyOrder : KeyOrder[i] = KeyOrder[j] => i = j

DefaultPort == [http |-> "80", https |-> "443"]

-----------------------------------------------------------------------------
(* url_class.rs *)

is_tracking_param(k) == k \in TRACKING_PARAMS

\* The pairs of a query whose keys are among these, in their order.
Having(query, keys) ==
    FlattenSeq([n \in DOMAIN query |-> IF query[n][1] \in keys THEN <<query[n]>> ELSE <<>>])
Kept(query) == Having(query, {k \in Range(KeyOrder) : ~is_tracking_param(k)})

\* Mutant: the pairs stay as they come.
QueryAsWritten(query) == Kept(query)
\* A stable sort by key of the pairs that are kept.
CanonicalQuery(query) ==
    FlattenSeq([i \in DOMAIN KeyOrder |-> Having(Kept(query), {KeyOrder[i]})])

normalize_url(u) ==
    IF u = None THEN None
    ELSE [u EXCEPT !.fragment = FALSE, !.userinfo = FALSE,
                   !.port = IF Http(u) /\ @ = DefaultPort[u.scheme] THEN "" ELSE @,
                   !.query = CanonicalQuery(@)]

HasWww(host) == Len(host) > 1 /\ Head(host) = "www"
StripWww(host) == IF HasWww(host) THEN Tail(host) ELSE host

\* strip_leading_www replaces the first "://www." of the text: that of a path,
\* when the host has none.
PathText(u) ==
    LET at == {k \in DOMAIN u.path : u.path[k] = "://www."}
        first == CHOOSE k \in at : \A j \in at : k <= j
    IN  IF HasWww(u.host) \/ at = {} THEN u.path ELSE [u.path EXCEPT ![first] = "://"]

\* The text of a normalised URL, stripped.
Text(u) ==
    <<u.scheme, "://">> \o StripWww(u.host) \o (IF u.port = "" THEN <<>> ELSE <<":", u.port>>)
      \o PathText(u)
      \o (IF u.query = <<>> THEN <<>>
          ELSE <<"?">> \o FlattenSeq([k \in DOMAIN u.query |-> <<u.query[k][1], "=", u.query[k][2], "&">>]))

is_in_prefix(u, prefix) ==
    /\ u # None /\ prefix # None
    /\ IsPrefix(Text(normalize_url(prefix)), Text(normalize_url(u)))

\* <<>> for a URL without a host
host_of(u) == StripWww(u.host)

is_blacklisted_outlink_host(u) == \E b \in BLACKLISTED_OUTLINK_HOSTS : IsSuffix(b, u.host)

-----------------------------------------------------------------------------
(* canonical.rs: the prefix stored for a target *)

WithoutSlash(path) == IF path # <<>> /\ Last(path) = "/" THEN Front(path) ELSE path
paths_equivalent(a, b) == a = b \/ WithoutSlash(a) = WithoutSlash(b)

\* answer: where redirects lead and whether that succeeds, None if nothing comes
detect_canonical_prefix(typed, answer) ==
    IF /\ typed # None /\ answer # None
       /\ answer.success
       /\ answer.final # typed
       /\ paths_equivalent(typed.path, answer.final.path)
    THEN normalize_url(answer.final) ELSE None

\* What the handler that adds the target stores.
StoredPrefix(typed, answer) ==
    LET found == detect_canonical_prefix(typed, answer) IN IF found = None THEN typed ELSE found

-----------------------------------------------------------------------------
(* parser.rs: hrefs come resolved, as [blank, url] *)

extract_links(hrefs) == {h.url : h \in {g \in Range(hrefs) : ~g.blank /\ g.url # None /\ Http(g.url)}}

\* The first <link rel=canonical> with a href that is not blank and leads to
\* http; one that does not resolve ends the search.
extract_canonical(tags) ==
    LET candidate(g) == g.canonical /\ ~g.blank /\ (g.url = None \/ Http(g.url))
        found == {k \in DOMAIN tags : candidate(tags[k])}
        first == CHOOSE k \in found : \A j \in found : k <= j
    IN  IF found = {} THEN None ELSE tags[first].url

-----------------------------------------------------------------------------
(* page.rs: a fresh page [final, tags, hrefs], fetched from u *)

InPrefixOrNone(u, prefix) == IF is_in_prefix(u, prefix) THEN u ELSE None

redirect_url(u, page, prefix) ==
    LET n == normalize_url(page.final)
    IN  IF n = normalize_url(u) THEN None ELSE InPrefixOrNone(n, prefix)

\* Mutant: a canonical link may lead anywhere.
CanonicalAnywhere(u, page, prefix) ==
    LET n == normalize_url(extract_canonical(page.tags))
    IN  IF n = normalize_url(u) \/ n = redirect_url(u, page, prefix) THEN None ELSE n
canonical_url(u, page, prefix) ==
    LET n == normalize_url(extract_canonical(page.tags))
    IN  IF n = normalize_url(u) \/ n = redirect_url(u, page, prefix) THEN None
        ELSE InPrefixOrNone(n, prefix)

index_url(u, page, prefix) ==
    CASE redirect_url(u, page, prefix) # None -> redirect_url(u, page, prefix)
      [] OTHER -> IF canonical_url(u, page, prefix) # None THEN canonical_url(u, page, prefix) ELSE u

Links(page) == {normalize_url(l) : l \in extract_links(page.hrefs)}
in_prefix_links(u, page, prefix) ==
    ({redirect_url(u, page, prefix), canonical_url(u, page, prefix)} \ {None})
      \cup {l \in Links(page) : is_in_prefix(l, prefix)}
OutlinkHosts(page, prefix) ==
    {host_of(l) : l \in {m \in Links(page) : ~is_in_prefix(m, prefix) /\ ~is_blacklisted_outlink_host(m)}}

-----------------------------------------------------------------------------
(* References the classification is checked against *)

Port(u) == IF u.port # "" \/ ~Http(u) THEN u.port ELSE DefaultPort[u.scheme]

\* Two URLs of one resource: the same place and, key by key, the same values.
SamePage(a, b) ==
    /\ <<a.scheme, a.host, a.path>> = <<b.scheme, b.host, b.path>> /\ Port(a) = Port(b)
    /\ \A k \in Range(KeyOrder) \ TRACKING_PARAMS :
          Having(a.query, {k}) = Having(b.query, {k})

\* Two URLs of one site.
SameSite(a, b) == a.scheme = b.scheme /\ StripWww(a.host) = StripWww(b.host) /\ Port(a) = Port(b)

=============================================================================
