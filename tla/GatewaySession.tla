--------------------------- MODULE GatewaySession ---------------------------
(***************************************************************************)
(* A browser's session at the gateway, as the chart configures oauth2-proxy *)
(* and Envoy (charts/gateway-auth/templates/_exposure.tpl): Envoy asks the *)
(* proxy about each request (ext_authz), which signs the user in, renews   *)
(* the access token in the session or passes it on, and then checks the    *)
(* token itself (jwt).  Both programs and the provider are external; what  *)
(* is modelled of them is what the chart's lines set and their comments    *)
(* rely on.  Requests of one browser overlap, and share its cookies.       *)
(*                                                                         *)
(* Two clocks run: the cookie dates from the sign-in, since a cookie that  *)
(* the proxy sets while it answers ext_authz need not reach the browser;   *)
(* the token in the stored session dates from the last renewal.            *)
(***************************************************************************)
EXTENDS Integers

CONSTANTS
    Requests,      \* the requests of a browser that may overlap
    None,          \* no session, no cookie, no token
    Settings,      \* values: session.expire, session.refresh (0: unset), proxyPrefix
    DefaultExpire, \* the default of session.expire, eleven hours
    Lifetime,      \* of an access token, which the provider sets
    Margin,        \* how far under Lifetime a session is to end, an hour
    MaxFlight,     \* bound: time between two steps of a request at the gateway
    MaxIncidents   \* bound: how often the user signs out or the store is lost

ASSUME LifetimesAssumption ==
    /\ MaxFlight \in Nat /\ Margin \in Nat /\ Lifetime \in Nat
    /\ DefaultExpire \in Nat \ {0}
    /\ 0 < MaxFlight /\ MaxFlight <= Margin /\ 0 < Lifetime
    /\ None \notin 0..Lifetime
    /\ MaxIncidents \in Nat

ASSUME SettingsAssumption ==
    Settings \subseteq [expire : Nat, refresh : Nat, prefix : {"oauth2", "_gwauth"}]

VARIABLES
    settings,  \* the values of the install
    session,   \* the age of the cookie and of the token, or None
    csrf,      \* the browser's CSRF cookies: whose verifier each one holds
    up,        \* whether the provider answers
    pc,        \* where each request is
    flight,    \* how long it has been there
    carried,   \* the age of the token that Envoy has added to it, or None
    incidents  \* how often the session was ended from outside

vars == <<settings, session, csrf, up, pc, flight, carried, incidents>>

Min2(a, b) == IF a < b THEN a ELSE b

-----------------------------------------------------------------------------
(***************************************************************************)
(* What the chart sets.                                                    *)
(***************************************************************************)
\* The expiry that values stand for: a fixed default, whatever tokens live.
Expire(s) == IF s.expire = 0 THEN DefaultExpire ELSE s.expire

\* Mutant: the session lasts for the margin as well.
CookieExpireLate == Expire(settings) + Margin

\* cookie_expire.
CookieExpire == Expire(settings)

\* Mutant: cookie_refresh is not rendered.
CookieRefreshNever == 0

\* cookie_refresh, 0 if it is left out.
CookieRefresh == settings.refresh

\* The chart's first way to keep a session from outliving its token: the
\* session ends first, by the margin.
Aligned(s) == Expire(s) + Margin <= Lifetime

\* The second way: the token is renewed, before it ends.
Renewed(s) == s.refresh # 0 /\ s.refresh < Lifetime

\* The condition on refresh that the chart documents.
RefreshedBeforeExpiry(s) == s.refresh # 0 /\ s.refresh < Expire(s)

\* Mutant: one CSRF cookie for all sign-ins.
CsrfCookieShared(r) == CHOOSE q \in Requests : TRUE

\* cookie_csrf_per_request: the cookie of a sign-in is named after its state.
CsrfCookie(r) == r

\* Mutant: the cookie is not among the headers.
HeadersToExtAuthBare == {"x-forwarded-proto", "x-forwarded-host", "x-forwarded-uri"}

\* headersToExtAuth: the request headers that reach the proxy.
HeadersToExtAuth ==
    {"cookie", "x-forwarded-proto", "x-forwarded-host", "x-forwarded-uri"}

\* Mutant: the token is not copied.
HeadersToBackendBare == {"x-auth-request-user", "x-auth-request-email"}

\* headersToBackend: the proxy's headers that Envoy copies onto the request.
HeadersToBackend ==
    {"x-auth-request-access-token", "x-auth-request-user",
     "x-auth-request-email", "x-auth-request-groups"}

\* The HTTPRoute of the proxy: proxyPrefix, well-formed, and a slash.
ProxyRoute == [slash |-> TRUE, name |-> settings.prefix, trailing |-> FALSE]

(***************************************************************************)
(* SignOutURL (signout.go).  A prefix is a name with or without the slash  *)
(* before it and slashes after it.                                         *)
(***************************************************************************)
Unset == [slash |-> FALSE, name |-> "", trailing |-> FALSE]

\* The prefixes that an application may pass for this install.
Spellings ==
    [slash : BOOLEAN, name : {settings.prefix}, trailing : BOOLEAN]
        \cup (IF settings.prefix = "oauth2" THEN {Unset} ELSE {})

\* Mutant: the prefix is used as it was passed.
SignOutURLVerbatim(prefix) == prefix

\* SignOutURL without its /sign_out and rd: a default, a leading slash, no
\* trailing ones.
SignOutURL(prefix) ==
    [slash |-> TRUE, trailing |-> FALSE,
     name |-> IF prefix = Unset THEN "oauth2" ELSE prefix.name]

-----------------------------------------------------------------------------
Init ==
    /\ settings \in Settings
    /\ session = None
    /\ csrf = [r \in Requests |-> None]
    /\ up = TRUE
    /\ pc = [r \in Requests |-> "idle"]
    /\ flight = [r \in Requests |-> 0]
    /\ carried = [r \in Requests |-> None]
    /\ incidents = 0

Goto(r, l) ==
    /\ pc' = [pc EXCEPT ![r] = l]
    /\ flight' = [flight EXCEPT ![r] = 0]

\* The browser sends a request to a protected route.
Ask(r) ==
    /\ pc[r] = "idle"
    /\ Goto(r, "asking")
    /\ UNCHANGED <<settings, session, csrf, up, carried, incidents>>

\* The proxy finds a session that has not expired.
Live ==
    /\ "cookie" \in HeadersToExtAuth
    /\ session # None /\ session.cookie < CookieExpire

\* The token is older than cookie_refresh.
NeedsRefresh == CookieRefresh # 0 /\ session.token > CookieRefresh

\* The proxy redirects to the provider (skip_provider_button), with a CSRF
\* cookie that holds this sign-in's PKCE verifier.
SignIn(r) ==
    /\ Goto(r, "signing_in")
    /\ csrf' = [csrf EXCEPT ![CsrfCookie(r)] = r]
    /\ UNCHANGED <<settings, up, carried, incidents>>

\* The proxy answers 200 and Envoy adds the token to the request.
Allow(r, token) ==
    /\ Goto(r, "checking")
    /\ carried' = [carried EXCEPT ![r] =
                     IF "x-auth-request-access-token" \in HeadersToBackend
                       THEN token ELSE None]
    /\ UNCHANGED <<settings, csrf, up, incidents>>

\* ext_authz without a session.
Redirect(r) ==
    /\ pc[r] = "asking" /\ ~Live
    /\ SignIn(r)
    /\ UNCHANGED session

\* ext_authz with a session whose token is not due for renewal: the proxy does
\* not look at the token's own expiry.
PassOn(r) ==
    /\ pc[r] = "asking" /\ Live /\ ~NeedsRefresh
    /\ Allow(r, session.token)
    /\ UNCHANGED session

\* ext_authz renews the token; whether the browser gets a new cookie depends
\* on what Envoy does with the proxy's Set-Cookie.
Renew(r) ==
    /\ pc[r] = "asking" /\ Live /\ NeedsRefresh /\ up
    /\ \E cookie \in {0, session.cookie} :
          session' = [cookie |-> cookie, token |-> 0]
    /\ Allow(r, 0)

\* ext_authz cannot renew the token: a session whose token is still alive is
\* kept, any other is dropped.
RenewFails(r) ==
    /\ pc[r] = "asking" /\ Live /\ NeedsRefresh
    /\ IF session.token < Lifetime
         THEN Allow(r, session.token) /\ UNCHANGED session
         ELSE SignIn(r) /\ session' = None

\* The user comes back from the provider: the code is exchanged if the CSRF
\* cookie still holds this sign-in's verifier, and the browser is sent to
\* where it wanted to go.
Callback(r) ==
    /\ pc[r] = "signing_in"
    /\ IF up /\ csrf[CsrfCookie(r)] = r
         THEN /\ session' = [cookie |-> 0, token |-> 0]
              /\ csrf' = [csrf EXCEPT ![CsrfCookie(r)] = None]
              /\ Goto(r, "asking")
         ELSE Goto(r, "failed") /\ UNCHANGED <<session, csrf>>
    /\ UNCHANGED <<settings, up, carried, incidents>>

\* The jwt check of Envoy, or on an authenticatedOnly route the verifier of
\* the application.
CheckToken(r) ==
    /\ pc[r] = "checking"
    /\ Goto(r, IF carried[r] # None /\ carried[r] < Lifetime THEN "app" ELSE "401")
    /\ carried' = [carried EXCEPT ![r] = None]
    /\ UNCHANGED <<settings, session, csrf, up, incidents>>

Answers == {"app", "401", "failed"}

\* The browser shows the answer.
Finish(r) ==
    /\ pc[r] \in Answers
    /\ Goto(r, "idle")
    /\ UNCHANGED <<settings, session, csrf, up, carried, incidents>>

\* The user follows the link that the application built with SignOutURL; a
\* link to anywhere but the proxy's route ends no session.
SignOut ==
    /\ incidents < MaxIncidents
    /\ incidents' = incidents + 1
    /\ \E prefix \in Spellings :
          session' = IF SignOutURL(prefix) = ProxyRoute THEN None ELSE session
    /\ UNCHANGED <<settings, csrf, up, pc, flight, carried>>

\* The session store loses the session.
Lose ==
    /\ incidents < MaxIncidents
    /\ incidents' = incidents + 1
    /\ session' = None
    /\ UNCHANGED <<settings, csrf, up, pc, flight, carried>>

\* The provider stops or resumes answering.
Flip ==
    /\ up' = ~up
    /\ UNCHANGED <<settings, session, csrf, pc, flight, carried, incidents>>

\* One unit of time, longer than cookie_csrf_expire, passes; requests do not
\* stay at the gateway for longer than MaxFlight, users at the provider may.
Pass ==
    /\ \A r \in Requests : pc[r] \in {"asking", "checking"} => flight[r] < MaxFlight
    /\ flight' = [r \in Requests |->
                    IF pc[r] = "idle" THEN 0 ELSE Min2(flight[r] + 1, MaxFlight)]
    /\ session' = IF session = None THEN None
                  ELSE [cookie |-> Min2(session.cookie + 1, CookieExpire),
                        token  |-> Min2(session.token + 1, Lifetime)]
    /\ carried' = [r \in Requests |->
                     IF carried[r] = None THEN None
                     ELSE Min2(carried[r] + 1, Lifetime)]
    /\ csrf' = [r \in Requests |-> None]
    /\ UNCHANGED <<settings, up, pc, incidents>>

ExtAuthz(r) == Redirect(r) \/ PassOn(r) \/ Renew(r) \/ RenewFails(r)

Next ==
    \/ \E r \in Requests :
          Ask(r) \/ ExtAuthz(r) \/ Callback(r) \/ CheckToken(r) \/ Finish(r)
    \/ SignOut \/ Lose \/ Flip \/ Pass

\* Envoy and the proxy answer, and the user completes the sign-in.
Fairness ==
    \A r \in Requests :
        WF_vars(ExtAuthz(r)) /\ WF_vars(Callback(r)) /\ WF_vars(CheckToken(r))

Spec == Init /\ [][Next]_vars /\ Fairness

-----------------------------------------------------------------------------
\* Every variable has its type, and what Envoy checks is a token.
TypeOK ==
    /\ settings \in Settings
    /\ session # None => /\ session.cookie \in 0..CookieExpire
                         /\ session.token \in 0..Lifetime
    /\ csrf \in [Requests -> Requests \cup {None}]
    /\ up \in BOOLEAN
    /\ pc \in [Requests -> {"idle", "asking", "signing_in", "checking"} \cup Answers]
    /\ flight \in [Requests -> 0..MaxFlight]
    /\ carried \in [Requests -> 0..Lifetime \cup {None}]
    /\ \A r \in Requests : pc[r] = "checking" <=> carried[r] # None
    /\ incidents \in 0..MaxIncidents

\* No session outlives the token inside it: ext_authz lets no request through
\* with an expired token, which would strand the user on Envoy's "Jwt is
\* expired" until the cookie dies; also when renewals fail, when the new
\* cookie does not reach the browser, and when refresh is set longer than
\* expire.
NeverStranded ==
    [][\A r \in Requests :
         pc[r] = "asking" /\ pc'[r] = "checking" /\ carried'[r] # None
             => carried'[r] < Lifetime]_vars

\* Without refresh the margin keeps the boundary on the side of the session:
\* not even a request that is on its way while time passes meets the jwt check
\* with an expired token.
MarginHolds ==
    CookieRefresh = 0 \/ CookieRefresh >= CookieExpire
        => \A r \in Requests : pc[r] # "401"

\* Overlapping sign-ins of one browser do not disturb one another: one fails
\* only if the provider does or if the user took longer than the CSRF cookie
\* lasts.
SignInsAreIndependent ==
    [][\A r \in Requests :
         pc[r] = "signing_in" /\ pc'[r] = "failed" => ~up \/ flight[r] > 0]_vars

\* The application's sign-out link reaches the proxy, whichever way the
\* prefix is spelled, and no session is left after it.
SignOutEndsSession == [][incidents' > incidents => session' = None]_vars

\* Every request is answered in the end: the sign-in does not loop.
NoLoginLoop ==
    \A r \in Requests : pc[r] = "asking" ~> pc[r] \in Answers
=============================================================================
