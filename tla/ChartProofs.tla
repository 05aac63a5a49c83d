----------------------------- MODULE ChartProofs ----------------------------
(***************************************************************************)
(* Proofs about Chart, for any set of values, any routes and any sequence  *)
(* of upgrades.                                                            *)
(***************************************************************************)
EXTENDS Chart, TLAPS

\* What is installed was rendered, without a failure, from the values that
\* were applied last; before the first install there is nothing.
Inv ==
    /\ TypeOK
    /\ applied # None => ~Fails(applied)
    /\ applied = None => installed = {}

USE SettingsAssumption, UpgradesAssumption

\* The invariant holds before the first install.
LEMMA InitInv == Init => Inv
  <1> SUFFICES ASSUME Init PROVE Inv
    OBVIOUS
  <1>1. applied = None /\ installed = {} /\ secrets = {} /\ upgrades = 0
    BY DEF Init
  <1>2. formed \in BOOLEAN /\ ready \in BOOLEAN
    BY Zenon DEF Init
  <1> QED BY <1>1, <1>2 DEF Inv, TypeOK

\* Every step keeps the invariant.
LEMMA StepInv == Inv /\ [Next]_vars => Inv'
  <1> SUFFICES ASSUME Inv, [Next]_vars PROVE Inv'
    OBVIOUS
  <1>0. TypeOK
    BY DEF Inv
  <1>1. CASE Upgrade
    <2>1. upgrades' \in 0..MaxUpgrades
      BY <1>0, <1>1 DEF Upgrade, TypeOK
    <2>2. PICK v \in Settings :
            IF Fails(v)
              THEN UNCHANGED <<applied, installed, secrets, formed, ready>>
              ELSE /\ applied' = v
                   /\ installed' = Render(v)
                   /\ secrets' = secrets \cap Owned(Render(v))
                   /\ formed' = (formed /\ Obj("ValkeyCluster", "sessions") \in Render(v))
                   /\ ready' = FALSE
      BY <1>1, Zenon DEF Upgrade
    <2>3. CASE Fails(v)
      <3>1. UNCHANGED <<applied, installed, secrets, formed, ready>>
        BY <2>2, <2>3
      <3> QED BY <2>1, <3>1 DEF Inv, TypeOK
    <2>4. CASE ~Fails(v)
      <3>1. applied' = v /\ installed' = Render(v) /\ ready' = FALSE
            /\ secrets' \subseteq {"oidc-client", "cookie"}
        BY <1>0, <2>2, <2>4 DEF TypeOK
      <3>2. formed' \in BOOLEAN
        BY <2>2, <2>4, Zenon
      <3> QED BY <2>1, <2>4, <3>1, <3>2 DEF Inv, TypeOK
    <2> QED BY <2>3, <2>4
  <1>2. CASE MintClient \/ GenerateCookie \/ FormStore \/ StartProxy
    <2>1. UNCHANGED <<applied, installed, upgrades>>
      BY <1>2 DEF MintClient, GenerateCookie, FormStore, StartProxy
    <2>2. secrets' \subseteq {"oidc-client", "cookie"}
      <3>1. secrets' \in {secrets, secrets \cup {"oidc-client"}, secrets \cup {"cookie"}}
        BY <1>2 DEF MintClient, GenerateCookie, FormStore, StartProxy
      <3> QED BY <1>0, <3>1 DEF TypeOK
    <2>3. formed' \in BOOLEAN /\ ready' \in BOOLEAN
      <3>1. formed' = formed \/ FormStore
        BY <1>2 DEF MintClient, GenerateCookie, StartProxy
      <3>2. ready' = ready \/ StartProxy
        BY <1>2 DEF MintClient, GenerateCookie, FormStore
      <3>3. formed \in BOOLEAN /\ ready \in BOOLEAN
        BY <1>0 DEF TypeOK
      <3>4. FormStore => formed' = TRUE
        BY DEF FormStore
      <3>5. StartProxy => ready' = TRUE
        BY Zenon DEF StartProxy
      <3>6. formed' \in BOOLEAN
        BY <3>1, <3>3, <3>4, Zenon
      <3>7. ready' \in BOOLEAN
        BY <3>2, <3>3, <3>5, Zenon
      <3> QED BY <3>6, <3>7
    <2> QED BY <1>0, <2>1, <2>2, <2>3 DEF Inv, TypeOK
  <1>3. CASE UNCHANGED vars
    BY <1>3 DEF vars, Inv, TypeOK
  <1> QED BY <1>1, <1>2, <1>3 DEF Next

\* The invariant holds throughout.
LEMMA Invariance == Spec => []Inv
  BY InitInv, StepInv, PTL DEF Spec

-----------------------------------------------------------------------------
(***************************************************************************)
(* What Render returns.                                                    *)
(***************************************************************************)

\* Every rendered object comes from one of the parts.
LEMMA RenderedObject ==
    ASSUME NEW v, NEW o \in Render(v)
    PROVE  /\ v.enabled
           /\ \/ o \in Client(v) \cup Store(v) \cup Cookie(v) \cup Proxy \cup AppRoutes(v)
              \/ o \in Policies(v)
              \/ o \in NetworkPolicies(v)
  BY DEF Render

\* The objects that are neither policies nor network policies.
LEMMA PlainObjects ==
    ASSUME NEW v,
           NEW o \in Client(v) \cup Store(v) \cup Cookie(v) \cup Proxy \cup AppRoutes(v)
    PROVE  o.kind \notin {"SecurityPolicy", "NetworkPolicy"}
  BY DEF Client, Store, Cookie, Proxy, AppRoutes, Obj

\* A SecurityPolicy is that of a protected route.
LEMMA PolicyObjects ==
    ASSUME NEW v, NEW p \in Render(v), p.kind = "SecurityPolicy"
    PROVE  \E route \in v.routes : route.protected /\ p = Policy(v, route)
  <1>1. p \notin NetworkPolicies(v)
    BY DEF NetworkPolicies, NetworkPolicy
  <1>2. p \in Policies(v)
    BY <1>1, RenderedObject, PlainObjects
  <1> QED BY <1>2 DEF Policies

\* The pods of the proxy admit Envoy on the port of ext_authz exactly if the
\* network policy is for that port, and the session store its operator and the
\* proxy, with network policies or without.
LEMMA ClientsAreAdmitted ==
    ASSUME applied.enabled, installed = Render(applied)
    PROVE  /\ PortFits(applied) <=> Admitted("oauth2-proxy", "envoy", 4180)
           /\ \A port \in {6379, 16379} : Admitted("sessions", "valkey-operator", port)
           /\ Admitted("sessions", "oauth2-proxy", 6379)
  <1> DEFINE P == NetworkPolicy("oauth2-proxy-ingress", "oauth2-proxy", ProxyClients(applied))
             S == NetworkPolicy("sessions-operator", "sessions", StoreClients)
  <1>1. ASSUME NEW o \in installed, o.kind = "NetworkPolicy"
        PROVE  applied.networkPolicy /\ o \in {P, S}
    <2>1. o \notin Policies(applied)
      BY <1>1 DEF Policies, Policy
    <2>2. o \in NetworkPolicies(applied)
      BY <1>1, <2>1, RenderedObject, PlainObjects
    <2> QED BY <2>2 DEF NetworkPolicies
  <1>2. CASE ~applied.networkPolicy
    BY <1>1, <1>2 DEF Admitted, PortFits
  <1>3. CASE applied.networkPolicy
    <2>1. P \in installed /\ S \in installed
      BY <1>3 DEF Render, NetworkPolicies
    <2>2. /\ P.kind = "NetworkPolicy" /\ P.pods = "oauth2-proxy"
          /\ <<"envoy", 4180>> \in P.admits <=> applied.port \in {0, 4180}
      BY DEF NetworkPolicy, ProxyClients
    <2>3. /\ S.kind = "NetworkPolicy" /\ S.pods = "sessions"
          /\ <<"valkey-operator", 6379>> \in S.admits
          /\ <<"valkey-operator", 16379>> \in S.admits
          /\ <<"oauth2-proxy", 6379>> \in S.admits
      BY DEF NetworkPolicy, StoreClients
    <2> HIDE DEF P, S
    <2>4. Admitted("oauth2-proxy", "envoy", 4180) <=> <<"envoy", 4180>> \in P.admits
      BY <1>1, <2>1, <2>2, <2>3 DEF Admitted
    <2> QED BY <1>3, <2>1, <2>2, <2>3, <2>4 DEF Admitted, PortFits
  <1> QED BY <1>2, <1>3

-----------------------------------------------------------------------------
\* Every variable keeps its type; the install has the objects of the values that
\* were applied last.
LEMMA TypeCorrect == Spec => []TypeOK
  <1>1. Inv => TypeOK
    BY DEF Inv
  <1> QED BY Invariance, <1>1, PTL

\* For any values and routes the chart accepts, every protected route is
\* guarded by the proxy and, unless it is authenticatedOnly, by a rule with a
\* non-empty allow-list; Envoy reaches the proxy unless a network policy names
\* another port than the one the proxy listens on.
THEOREM ProtectedAlwaysGuarded == Spec => []ProtectedIsGuarded
  <1>1. ASSUME Inv, Enabled, NEW route \in applied.routes, route.protected
        PROVE  \E p \in installed :
                /\ p.kind = "SecurityPolicy"
                /\ p.target = SecTarget(route)
                /\ Obj("Service", p.extAuth) \in installed
                /\ PortFits(applied) <=> Admitted(p.extAuth, "envoy", 4180)
                /\ ~route.authenticatedOnly => p.rule # None /\ p.rule.groups
    <2> DEFINE p == Policy(applied, route)
    <2>0. applied \in Settings /\ applied.enabled /\ installed = Render(applied)
          /\ ~Fails(applied)
      BY <1>1 DEF Enabled, Inv, TypeOK
    <2>1. p \in installed
      BY <1>1, <2>0 DEF Render, Policies
    <2>2. p.kind = "SecurityPolicy" /\ p.target = SecTarget(route) /\ p.extAuth = "oauth2-proxy"
      BY DEF Policy
    <2>3. Obj("Service", "oauth2-proxy") \in installed
      BY <2>0 DEF Render, Proxy
    <2>4. PortFits(applied) <=> Admitted("oauth2-proxy", "envoy", 4180)
      BY <2>0, ClientsAreAdmitted
    <2>5. ASSUME ~route.authenticatedOnly
          PROVE  p.rule # None /\ p.rule.groups
      <3>1. applied.groups
        BY <1>1, <2>0, <2>5 DEF Fails, LacksGroups
      <3>2. p.rule = [provider |-> applied.mode, groups |-> applied.groups]
        BY <2>5 DEF Policy, JwtProviderName
      <3>3. p.rule # None
        BY <2>0, <3>2
      <3>4. p.rule.groups = applied.groups
        BY <3>2
      <3> QED BY <3>1, <3>3, <3>4
    <2> HIDE DEF p
    <2> QED BY <2>1, <2>2, <2>3, <2>4, <2>5
  <1>2. Inv => ProtectedIsGuarded
    BY <1>1 DEF ProtectedIsGuarded
  <1> QED BY Invariance, <1>2, PTL

\* A rule that reads the groups claim comes with a proxy that asks for it,
\* unless the scopes are explicit.
THEOREM GroupsAlwaysRequested == Spec => []GroupsAreRequested
  <1>1. ASSUME Inv, Enabled, applied.scopes = {},
               NEW p \in installed, p.kind = "SecurityPolicy", p.rule # None
        PROVE  "groups" \in Scopes(applied)
    <2>0. applied.enabled /\ installed = Render(applied) /\ ~Fails(applied)
      BY <1>1 DEF Enabled, Inv, TypeOK
    <2>1. PICK route \in applied.routes : route.protected /\ p = Policy(applied, route)
      BY <1>1, <2>0, PolicyObjects
    <2>2. ~route.authenticatedOnly
      BY <1>1, <2>1 DEF Policy
    <2>3. applied.groups
      BY <2>0, <2>1, <2>2 DEF Fails, LacksGroups
    <2> QED BY <1>1, <2>3 DEF Scopes
  <1>2. Inv => GroupsAreRequested
    BY <1>1 DEF GroupsAreRequested
  <1> QED BY Invariance, <1>2, PTL

\* An install with session.refresh requests offline_access, explicit scopes or
\* not: the values for which it would not are refused.
THEOREM RefreshAlwaysHasToken == Spec => []RefreshHasToken
  <1>1. Inv => RefreshHasToken
    BY DEF Inv, Enabled, RefreshHasToken, Fails, ScopesConflict, Scopes
  <1> QED BY Invariance, <1>1, PTL

-----------------------------------------------------------------------------
\* What the pods of the proxy wait for is supplied, or installed objects see to
\* it: each Secret they mount, and a session store they can reach and whose
\* operator can form it.
StartIsProvided ==
    Enabled =>
        /\ {Obj("Deployment", "oauth2-proxy"), Obj("ConfigMap", "oauth2-proxy")} \subseteq installed
        /\ \/ OidcSecretName(applied) \in GivenSecrets
           \/ OidcSecretName(applied) = "oidc-client" /\ Obj("OIDCApp", "oidc") \in installed
        /\ \/ CookieName(applied) \in GivenSecrets
           \/ /\ CookieName(applied) = "cookie"
              /\ {Obj("ExternalSecret", "cookie"), Obj("Password", "cookie")} \subseteq installed
        /\ \/ applied.storeUrl
           \/ /\ Obj("ValkeyCluster", "sessions") \in installed
              /\ \A port \in {6379, 16379} : Admitted("sessions", "valkey-operator", port)
              /\ Admitted("sessions", "oauth2-proxy", 6379)

\* The safety half of ComesUp: an install whose values do not ask for an
\* external session store without a cookie secret of the caller's lacks nothing
\* that its proxy waits for.  Without that condition nothing generates the
\* cookie secret: the generator is rendered with the session store.
THEOREM NothingIsMissing ==
    ASSUME \A v \in Settings : v.storeUrl => v.cookieSecret
    PROVE  Spec => []StartIsProvided
  <1>1. ASSUME Inv, Enabled
        PROVE  StartIsProvided
    <2>0. applied \in Settings /\ applied.enabled /\ installed = Render(applied)
      BY <1>1 DEF Enabled, Inv, TypeOK
    <2>1. {Obj("Deployment", "oauth2-proxy"), Obj("ConfigMap", "oauth2-proxy")} \subseteq installed
      BY <2>0 DEF Render, Proxy
    <2>2. \/ OidcSecretName(applied) \in GivenSecrets
          \/ OidcSecretName(applied) = "oidc-client" /\ Obj("OIDCApp", "oidc") \in installed
      BY <2>0 DEF Render, Client, OidcSecretName, GivenSecrets
    <2>3. \/ CookieName(applied) \in GivenSecrets
          \/ /\ CookieName(applied) = "cookie"
             /\ {Obj("ExternalSecret", "cookie"), Obj("Password", "cookie")} \subseteq installed
      <3>1. CASE applied.cookieSecret
        BY <3>1 DEF CookieName, GivenSecrets
      <3>2. CASE ~applied.cookieSecret
        <4>1. ~applied.storeUrl /\ CookieName(applied) = "cookie"
          BY <2>0, <3>2 DEF CookieName
        <4>2. /\ Obj("ExternalSecret", "cookie") \in Cookie(applied)
              /\ Obj("Password", "cookie") \in Store(applied)
          BY <3>2, <4>1 DEF Cookie, Store
        <4> QED BY <2>0, <4>1, <4>2 DEF Render
      <3> QED BY <3>1, <3>2
    <2>4. applied.storeUrl \/ Obj("ValkeyCluster", "sessions") \in installed
      BY <2>0 DEF Render, Store
    <2>5. /\ \A port \in {6379, 16379} : Admitted("sessions", "valkey-operator", port)
          /\ Admitted("sessions", "oauth2-proxy", 6379)
      BY <2>0, ClientsAreAdmitted
    <2> QED BY <2>1, <2>2, <2>3, <2>4, <2>5 DEF StartIsProvided
  <1>2. Inv => StartIsProvided
    BY <1>1 DEF StartIsProvided
  <1> QED BY Invariance, <1>2, PTL
=============================================================================
