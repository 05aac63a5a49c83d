------------------------------- MODULE Chart --------------------------------
(***************************************************************************)
(* The Helm chart (charts/gateway-auth/templates): which objects it        *)
(* renders for which values, how they refer to one another, and what       *)
(* becomes of an install over a sequence of upgrades.  The operators that  *)
(* act on the rendered objects (Zitadel's, External Secrets, Valkey's) and *)
(* the start of the oauth2-proxy pods are external.                        *)
(*                                                                         *)
(* A value of values.yaml is represented by what the templates branch on.  *)
(* Names are represented by their suffix: every object of an install       *)
(* starts with the install's name.                                         *)
(***************************************************************************)
EXTENDS Integers, FiniteSets

CONSTANTS
    Settings,     \* the values that the install may be given
    MaxUpgrades,  \* bound: how often the install is upgraded
    None          \* no route, no install

\* No values, and no rule of a policy, are the absent one.
ASSUME SettingsAssumption ==
    /\ None \notin Settings
    /\ \A v \in Settings : None # [provider |-> v.mode, groups |-> v.groups]

ASSUME UpgradesAssumption == MaxUpgrades \in Nat

VARIABLES
    applied,   \* the values of the last render that succeeded, or None
    installed, \* the objects of the install
    secrets,   \* the Secrets that operators have created for it
    formed,    \* the session store of the install has formed its cluster
    ready,     \* the proxy's pods run with the present objects
    upgrades   \* how often helm was run

vars == <<applied, installed, secrets, formed, ready, upgrades>>

Obj(kind, name) == [kind |-> kind, name |-> name]

-----------------------------------------------------------------------------
(***************************************************************************)
(* Names (_helpers.tpl).                                                   *)
(***************************************************************************)

\* oidcSecretName: the caller's Secret in static mode.
OidcSecretName(v) == IF v.mode = "static" THEN "given-client" ELSE "oidc-client"

\* cookieName: the Secret shared between installs, or this install's own.
CookieName(v) == IF v.cookieSecret THEN "given-cookie" ELSE "cookie"

\* The Secrets that the caller supplies exist already.
GivenSecrets == {"given-client", "given-cookie"}

\* jwtProviderName: the name that the provider block and the authorization
\* rule of a policy use.
JwtProviderName(v) == v.mode

(***************************************************************************)
(* The configuration of oauth2-proxy (oauth2ProxyCfg).                     *)
(***************************************************************************)

\* Mutant: the groups scope is never added.
ScopesWithoutGroups(v) ==
    IF v.scopes # {} THEN v.scopes
    ELSE {"openid"} \cup (IF v.refresh THEN {"offline_access"} ELSE {})

\* The scopes that are requested: the explicit ones, or the default ones with
\* groups and offline_access where they are needed.
Scopes(v) ==
    IF v.scopes # {} THEN v.scopes
    ELSE {"openid"}
             \cup (IF v.groups THEN {"groups"} ELSE {})
             \cup (IF v.refresh THEN {"offline_access"} ELSE {})

(***************************************************************************)
(* What makes rendering fail.                                              *)
(***************************************************************************)

\* Mutant: an explicit scope list is taken as it is.
ScopesConflictIgnored(v) == FALSE

\* Explicit scopes and session.refresh without offline_access.
ScopesConflict(v) ==
    v.scopes # {} /\ v.refresh /\ "offline_access" \notin v.scopes

\* Mutant: a protected route without an allow-list is rendered.
LacksGroupsIgnored(v, route) == FALSE

\* A protected route that is not authenticatedOnly needs an allow-list.
LacksGroups(v, route) ==
    route.protected /\ ~route.authenticatedOnly /\ ~v.groups

\* A required value is missing: the existing Secret of static mode, the
\* project of the OIDCApp, or the backend of a route that is not attached.
LacksRequired(v) ==
    \/ v.mode = "static" /\ ~v.clientSecret
    \/ v.mode = "zitadel" /\ ~v.project
    \/ \E route \in v.routes : route.target = None /\ ~route.backend

Fails(v) ==
    /\ v.enabled
    /\ \/ LacksRequired(v)
       \/ ScopesConflict(v)
       \/ \E route \in v.routes : LacksGroups(v, route)

(***************************************************************************)
(* What is rendered (exposure).                                            *)
(***************************************************************************)

\* The OIDCApp, outside static mode.
Client(v) ==
    IF v.mode = "static" THEN {} ELSE {Obj("OIDCApp", "oidc")}

\* The session store and, inside the same condition, the generator of the
\* cookie secret.
Store(v) ==
    IF v.storeUrl THEN {}
    ELSE {Obj("ValkeyCluster", "sessions"), Obj("Password", CookieName(v))}

\* The ExternalSecret that turns the generated password into the Secret.
Cookie(v) ==
    IF v.cookieSecret THEN {} ELSE {Obj("ExternalSecret", CookieName(v))}

\* The proxy and its own, unprotected, HTTPRoute.
Proxy ==
    {Obj("Service", "oauth2-proxy"), Obj("Deployment", "oauth2-proxy"),
     Obj("ConfigMap", "oauth2-proxy"), Obj("HTTPRoute", "proxy")}

\* The HTTPRoute of each route that is not attached to an existing one.
AppRoutes(v) ==
    {Obj("HTTPRoute", route.name) : route \in {r \in v.routes : r.target = None}}

\* The HTTPRoute that a route's policy is bound to.
SecTarget(route) == IF route.target = None THEN route.name ELSE route.target

\* The SecurityPolicy of a protected route; an authenticatedOnly one has no
\* jwt provider and no authorization rule.
Policy(v, route) ==
    [kind     |-> "SecurityPolicy",
     name     |-> route.name,
     target   |-> SecTarget(route),
     extAuth  |-> "oauth2-proxy",
     provider |-> IF route.authenticatedOnly THEN None ELSE JwtProviderName(v),
     rule     |-> IF route.authenticatedOnly THEN None
                  ELSE [provider |-> JwtProviderName(v), groups |-> v.groups]]

Policies(v) ==
    {Policy(v, route) : route \in {r \in v.routes : r.protected}}

\* A NetworkPolicy: the pods it selects, the clients and ports it admits.
NetworkPolicy(name, pods, admits) ==
    [kind |-> "NetworkPolicy", name |-> name, pods |-> pods, admits |-> admits]

\* Mutant: the session store admits its operator only.
StoreClientsOperator == {<<"valkey-operator", 6379>>, <<"valkey-operator", 16379>>}

\* The clients of the session store, which is of one node.
StoreClients ==
    {<<"valkey-operator", 6379>>, <<"valkey-operator", 16379>>, <<"oauth2-proxy", 6379>>}

\* Envoy, on networkPolicy.port; 0 is a port that was not set.
ProxyClients(v) == {<<"envoy", IF v.port = 0 THEN 4180 ELSE v.port>>}

\* The ingress policies of the proxy and of the session store.
NetworkPolicies(v) ==
    IF v.networkPolicy
      THEN {NetworkPolicy("oauth2-proxy-ingress", "oauth2-proxy", ProxyClients(v)),
            NetworkPolicy("sessions-operator", "sessions", StoreClients)}
      ELSE {}

Render(v) ==
    IF v.enabled
      THEN UNION {Client(v), Store(v), Cookie(v), Proxy, AppRoutes(v),
                  Policies(v), NetworkPolicies(v)}
      ELSE {}

-----------------------------------------------------------------------------
(***************************************************************************)
(* The life of an install.                                                 *)
(***************************************************************************)
Init ==
    /\ applied = None
    /\ installed = {}
    /\ secrets = {}
    /\ formed = FALSE
    /\ ready = FALSE
    /\ upgrades = 0

\* External: the Secrets whose owner is no longer installed are collected.
Owned(objects) ==
    {s \in {"oidc-client", "cookie"} :
        \/ s = "oidc-client" /\ Obj("OIDCApp", "oidc") \in objects
        \/ s = "cookie" /\ Obj("ExternalSecret", "cookie") \in objects}

\* Mutant: the objects of the previous values are left behind.
UpgradeKeepsOld ==
    /\ upgrades < MaxUpgrades
    /\ upgrades' = upgrades + 1
    /\ \E v \in {w \in Settings : ~Fails(w)} :
         /\ applied' = v
         /\ installed' = installed \cup Render(v)
    /\ UNCHANGED <<secrets, formed>>
    /\ ready' = FALSE

\* helm upgrade --install: a failing render changes nothing.  New pods are
\* rolled out.
Upgrade ==
    /\ upgrades < MaxUpgrades
    /\ upgrades' = upgrades + 1
    /\ \E v \in Settings :
         IF Fails(v)
           THEN UNCHANGED <<applied, installed, secrets, formed, ready>>
           ELSE /\ applied' = v
                /\ installed' = Render(v)
                /\ secrets' = secrets \cap Owned(Render(v))
                /\ formed' = (formed /\ Obj("ValkeyCluster", "sessions") \in Render(v))
                /\ ready' = FALSE

\* External: the Zitadel operator mints the client and its Secret.
MintClient ==
    /\ Obj("OIDCApp", "oidc") \in installed
    /\ secrets' = secrets \cup {"oidc-client"}
    /\ UNCHANGED <<applied, installed, formed, ready, upgrades>>

\* External: External Secrets runs the generator that the ExternalSecret
\* names, once (refreshPolicy CreatedOnce).
GenerateCookie ==
    /\ Obj("ExternalSecret", "cookie") \in installed
    /\ Obj("Password", "cookie") \in installed
    /\ secrets' = secrets \cup {"cookie"}
    /\ UNCHANGED <<applied, installed, formed, ready, upgrades>>

\* External: pods that a NetworkPolicy selects accept what one of those admits
\* and nothing else.
Admitted(pods, client, port) ==
    LET selecting == {o \in installed : o.kind = "NetworkPolicy" /\ o.pods = pods}
    IN  selecting = {} \/ \E o \in selecting : <<client, port>> \in o.admits

\* External: the Valkey operator assigns the slots and marks the cluster ready.
FormStore ==
    /\ Obj("ValkeyCluster", "sessions") \in installed
    /\ \A port \in {6379, 16379} : Admitted("sessions", "valkey-operator", port)
    /\ formed' = TRUE
    /\ UNCHANGED <<applied, installed, secrets, ready, upgrades>>

\* External: the pods start when every Secret and ConfigMap they refer to
\* exists and they reach a session store.
StartProxy ==
    /\ Obj("Deployment", "oauth2-proxy") \in installed
    /\ Obj("ConfigMap", "oauth2-proxy") \in installed
    /\ {OidcSecretName(applied), CookieName(applied)} \subseteq secrets \cup GivenSecrets
    /\ applied.storeUrl \/ (formed /\ Admitted("sessions", "oauth2-proxy", 6379))
    /\ ready' = TRUE
    /\ UNCHANGED <<applied, installed, secrets, formed, upgrades>>

Next == Upgrade \/ MintClient \/ GenerateCookie \/ FormStore \/ StartProxy

\* The operators and the kubelet do their work.
Fairness ==
    /\ WF_vars(MintClient) /\ WF_vars(GenerateCookie)
    /\ WF_vars(FormStore) /\ WF_vars(StartProxy)

Spec == Init /\ [][Next]_vars /\ Fairness

-----------------------------------------------------------------------------
Enabled == applied # None /\ applied.enabled

\* Every variable has its type, and the install has the objects of the values
\* that were applied last, no more and no less.
TypeOK ==
    /\ applied \in Settings \cup {None}
    /\ applied # None => installed = Render(applied)
    /\ secrets \subseteq {"oidc-client", "cookie"}
    /\ formed \in BOOLEAN /\ ready \in BOOLEAN
    /\ upgrades \in 0..MaxUpgrades

\* networkPolicy.port is the port that the proxy listens on, which is no value.
PortFits(v) == v.networkPolicy => v.port \in {0, 4180}

\* Every protected route is behind the proxy of this install, which Envoy can
\* reach on the port of ext_authz, and unless it is authenticatedOnly behind a
\* rule with a non-empty allow-list; whatever upgrades led here.  A network
\* policy for another port than the one the proxy listens on renders all the
\* same and shuts Envoy out.
ProtectedIsGuarded ==
    Enabled =>
        \A route \in applied.routes : route.protected =>
            \E p \in installed :
                /\ p.kind = "SecurityPolicy"
                /\ p.target = SecTarget(route)
                /\ Obj("Service", p.extAuth) \in installed
                /\ PortFits(applied) <=> Admitted(p.extAuth, "envoy", 4180)
                /\ ~route.authenticatedOnly => p.rule # None /\ p.rule.groups

\* A rule that reads the groups claim is only installed with a proxy that
\* asks for it, unless the scopes are given explicitly: otherwise nobody at
\* all would be let in.
GroupsAreRequested ==
    Enabled /\ applied.scopes = {}
        => \A p \in installed :
              p.kind = "SecurityPolicy" /\ p.rule # None
                  => "groups" \in Scopes(applied)

\* A session that is to be refreshed has a refresh token: offline_access is
\* requested whenever cookie_refresh is set, explicit scopes or not.
RefreshHasToken ==
    Enabled /\ applied.refresh => "offline_access" \in Scopes(applied)

\* After the last upgrade, an install that was rendered comes up: each Secret
\* its pods refer to is supplied or created, and its own network policies keep
\* neither the operator nor the restarted proxy from the session store.
ComesUp ==
    <>[](Enabled => ready)
=============================================================================
