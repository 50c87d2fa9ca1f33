---------------------------- MODULE MCDiscovery ----------------------------
(***************************************************************************)
(* Two targets of one site, crawled at once.  The admin typed the first    *)
(* with www. and the site redirects it.  Its robots.txt names an index     *)
(* that lists itself and more documents than the cap admits; the other     *)
(* origin, www., disallows a path its sibling allows.                      *)
(***************************************************************************)
EXTENDS Discovery

CONSTANTS t1, t2

U(host, path, query) == [scheme |-> "https", host |-> host, port |-> "", userinfo |-> FALSE,
                         path |-> path, query |-> query, fragment |-> FALSE]
Site == <<"example", "com">>
Www == <<"www", "example", "com">>
Home == U(Site, <<"/">>, <<>>)
Blog == U(Site, <<"/", "blog", "/">>, <<>>)
Post == U(Site, <<"/", "blog", "/", "post">>, <<<<"id", "1">>, <<"v", "2">>>>)
PostSpelled == [Post EXCEPT !.port = "443", !.userinfo = TRUE, !.fragment = TRUE,
                            !.query = <<<<"v", "2">>, <<"utm_id", "x">>, <<"id", "1">>>>]
Private == U(Www, <<"/", "private">>, <<>>)
Xml(name) == U(Site, <<"/", name>>, <<>>)
Other == U(<<"other", "org">>, <<"/">>, <<>>)
Share == U(<<"m", "facebook", "com">>, <<"/">>, <<>>)
Mail == [Other EXCEPT !.scheme = "mailto"]

MCBlacklist == {<<"facebook", "com">>}
MCKeyOrder == <<"id", "utm_id", "v">>
MCAdded == [t \in Task |->
    IF t = t1 THEN [typed |-> U(Www, <<"/", "blog">>, <<>>), answer |-> [final |-> Blog, success |-> TRUE]]
    ELSE [typed |-> Home, answer |-> None]]
MCOrigin == [scheme : {"https"}, host : {Site, Www}, port : {""}]
MCRobots == [o \in MCOrigin |->
    IF o.host = Site THEN [disallow |-> {<<"/", "blog", "/", "draft">>}, sitemaps |-> <<Xml("index.xml")>>]
    ELSE [disallow |-> {<<"/", "private">>}, sitemaps |-> <<>>]]
MCSitemap ==
    (Xml("index.xml") :> [index |-> TRUE, locs |-> <<Xml("index.xml"), Xml("a.xml"), Xml("b.xml"), Xml("c.xml")>>])
    @@ (Xml("a.xml") :> [index |-> TRUE, locs |-> <<Xml("d.xml")>>])
    @@ (Xml("sitemap.xml") :> [index |-> FALSE, locs |-> <<PostSpelled, Post, Mail, None, Private, Home>>])
Href(u) == [blank |-> FALSE, url |-> u]
Tag(u) == [canonical |-> TRUE, blank |-> FALSE, url |-> u]
MCPage ==
    (Home :> [final |-> Home, tags |-> <<Tag(Mail), Tag(Other)>>,
              hrefs |-> <<Href(PostSpelled), Href(None), Href(Share), Href(Mail), Href(Other)>>])
    @@ (Blog :> [final |-> PostSpelled, tags |-> <<>>, hrefs |-> <<Href(Home)>>])
    @@ (Post :> [final |-> Post, tags |-> <<Tag(Blog)>>, hrefs |-> <<>>])

=============================================================================
