------------------------------- MODULE MCChart ------------------------------
(***************************************************************************)
(* Chart with every combination of where the client credential, the        *)
(* scopes, the cookie secret and the session store come from, with         *)
(* refresh or without, an allow-list or none, network policies or none,    *)
(* and four lists of routes.                                               *)
(***************************************************************************)
EXTENDS Chart

Route(name, protected, authenticatedOnly, target, backend) ==
    [name |-> name, protected |-> protected,
     authenticatedOnly |-> authenticatedOnly, target |-> target,
     backend |-> backend]

App == Route("app", TRUE, FALSE, None, TRUE)
Self == Route("self", TRUE, TRUE, None, TRUE)
Open == Route("open", FALSE, FALSE, None, TRUE)
Attached == Route("attached", TRUE, FALSE, "elsewhere", FALSE)
NoBackend == Route("broken", FALSE, FALSE, None, FALSE)

RouteLists == {{App}, {Self, Open}, {App, Attached}, {Open, NoBackend}}

\* mode, clientSecret, project
Clients == {<<"zitadel", FALSE, TRUE>>, <<"zitadel", FALSE, FALSE>>,
            <<"static", TRUE, FALSE>>, <<"static", FALSE, FALSE>>}

ScopeLists == {{}, {"openid"}, {"openid", "groups", "offline_access"}}

\* networkPolicy.enabled, networkPolicy.port
Networks == {<<FALSE, 0>>, <<TRUE, 0>>, <<TRUE, 8080>>}

Setting(client, groups, scopes, refresh, storeUrl, cookieSecret, network, routes) ==
    [enabled |-> TRUE, mode |-> client[1], clientSecret |-> client[2],
     project |-> client[3], groups |-> groups, scopes |-> scopes,
     refresh |-> refresh, storeUrl |-> storeUrl,
     cookieSecret |-> cookieSecret, networkPolicy |-> network[1],
     port |-> network[2], routes |-> routes]

Default ==
    Setting(<<"zitadel", FALSE, TRUE>>, TRUE, {}, FALSE, FALSE, FALSE, <<TRUE, 0>>, {App})

AllSettings(routeLists) ==
    {Setting(c, g, s, r, u, k, n, l) :
        c \in Clients, g \in BOOLEAN, s \in ScopeLists, r \in BOOLEAN,
        u \in BOOLEAN, k \in BOOLEAN, n \in Networks, l \in routeLists}
    \cup {[Default EXCEPT !.enabled = FALSE]}

\* Own store and own cookie, or a given cookie; any routes.
MCSettings ==
    {v \in AllSettings(RouteLists) : v.cookieSecret \/ ~v.storeUrl}

\* Also a shared store without a shared cookie secret.
MCCookieSettings == AllSettings({{App}})
=============================================================================
