------------------------------ MODULE Verifier ------------------------------
(***************************************************************************)
(* The verifying Authenticator: NewVerifier (profile.go, discovery.go) and *)
(* the steps of concurrent calls of Authenticate (verify.go).  The key set *)
(* is what KeyFeed promises and KeySet implements: it may be replaced      *)
(* between any two steps of a call, in particular between the two times a  *)
(* call reads it, for the access token and for the display cookie.  The    *)
(* userinfo fallback is what Userinfo promises: the caller's own profile,  *)
(* or nothing.  Tokens expire at any time.                                 *)
(***************************************************************************)
EXTENDS Tokens

CONSTANTS
    Requests,   \* concurrent calls of Authenticate
    Headers     \* the sets of headers that requests carry

ASSUME HeadersAssumption == Headers \subseteq HeaderSets

VARIABLES
    keys,     \* the version of the key set in place
    version,  \* the version the provider publishes
    expired,  \* the tokens that have expired
    boot,     \* how far NewVerifier has come
    config,   \* the Config; userinfo is cleared if discovery finds no endpoint
    pc,       \* where each call of Authenticate is
    headers,  \* the headers of its request
    set,      \* the key set that parse has read
    result,   \* what the call returns
    shown,    \* whose name and email identity holds, or None
    since,    \* history: the key set in place when the call was made
    dead      \* history: the tokens that had expired when the call was made

callVars == <<pc, headers, set, result, shown, since, dead>>
vars == <<keys, version, expired, boot, config, pc, headers, set, result,
          shown, since, dead>>

Feed == INSTANCE KeyFeed

Results == {"none", "no_credential", "invalid_token", "identity"}

NoHeaders == [accessToken |-> None, authorization |-> None, cookie |-> None]

\* The raw token of the call's request.
Raw(r) == DefaultSource(headers[r])

Init ==
    /\ Feed!Init
    /\ expired = {}
    /\ boot = "discovering"
    /\ config \in Configs
    /\ pc = [r \in Requests |-> "idle"]
    /\ headers = [r \in Requests |-> NoHeaders]
    /\ set = [r \in Requests |-> 0]
    /\ result = [r \in Requests |-> "none"]
    /\ shown = [r \in Requests |-> None]
    /\ since = [r \in Requests |-> 0]
    /\ dead = [r \in Requests |-> {}]

(***************************************************************************)
(* NewVerifier.                                                            *)
(***************************************************************************)

\* The early returns of discover: no response, status, body, another issuer,
\* no jwks_uri.
DiscoveryErrors == {"transport", "status", "undecodable", "issuer", "no_jwks_uri"}

\* discover returns; the fallback is kept only if the document names an
\* endpoint.
Discover ==
    /\ boot = "discovering"
    /\ \E answer \in DiscoveryErrors \cup {"document"}, endpoint \in BOOLEAN :
         IF answer = "document"
           THEN /\ boot' = "fetching"
                /\ config' = [config EXCEPT !.userinfo = @ /\ endpoint]
           ELSE /\ boot' = "failed"
                /\ UNCHANGED config
    /\ UNCHANGED <<keys, version, expired, callVars>>

\* newKeySet returns, with keys or with an error.
NewKeySet ==
    /\ boot = "fetching"
    /\ \/ boot' = "ready" /\ Feed!Replace
       \/ boot' = "failed" /\ UNCHANGED <<keys, version>>
    /\ UNCHANGED <<expired, config, callVars>>

\* The key set is refreshed in the background.
Refreshed ==
    /\ boot = "ready"
    /\ Feed!Replace
    /\ UNCHANGED <<expired, boot, config, callVars>>

\* External: the provider publishes another key set.
Published ==
    /\ Feed!Publish
    /\ UNCHANGED <<expired, boot, config, callVars>>

\* Time reaches the exp claim of a token.
Expire(t) ==
    /\ t \notin expired
    /\ expired' = expired \cup {t}
    /\ UNCHANGED <<keys, version, boot, config, callVars>>

(***************************************************************************)
(* Authenticate.                                                           *)
(***************************************************************************)
Goto(r, l) == pc' = [pc EXCEPT ![r] = l]

Return(r, res) ==
    /\ Goto(r, "done")
    /\ result' = [result EXCEPT ![r] = res]

\* Mutant: requests are served while NewVerifier is still running.
CallEarly(r) ==
    /\ pc[r] = "idle"
    /\ \E h \in Headers : headers' = [headers EXCEPT ![r] = h]
    /\ since' = [since EXCEPT ![r] = keys]
    /\ dead' = [dead EXCEPT ![r] = expired]
    /\ Goto(r, "source")
    /\ UNCHANGED <<keys, version, expired, boot, config, set, result, shown>>

\* A request reaches the authenticator.
Call(r) ==
    /\ boot = "ready"
    /\ pc[r] = "idle"
    /\ \E h \in Headers : headers' = [headers EXCEPT ![r] = h]
    /\ since' = [since EXCEPT ![r] = keys]
    /\ dead' = [dead EXCEPT ![r] = expired]
    /\ Goto(r, "source")
    /\ UNCHANGED <<keys, version, expired, boot, config, set, result, shown>>

\* v.source.Token(h), and parse's v.keys.Set() if there is a token.
Source(r) ==
    /\ pc[r] = "source"
    /\ IF Raw(r) = None
         THEN Return(r, "no_credential") /\ UNCHANGED set
         ELSE /\ Goto(r, "parse")
              /\ set' = [set EXCEPT ![r] = keys]
              /\ UNCHANGED result
    /\ UNCHANGED <<keys, version, expired, boot, config, headers, shown,
                   since, dead>>

\* jwt.ParseString with the key set that was read.
Passes(r, t) == t \notin expired /\ Valid(t, set[r], config.audience)

\* parse returns, and the mapper reads the claims off a verified token.
Parse(r) ==
    /\ pc[r] = "parse"
    /\ IF Passes(r, Raw(r))
         THEN /\ Goto(r, "mapped")
              /\ shown' = [shown EXCEPT ![r] =
                             IF Raw(r).named THEN Raw(r).sub ELSE None]
              /\ UNCHANGED result
         ELSE Return(r, "invalid_token") /\ UNCHANGED shown
    /\ UNCHANGED <<keys, version, expired, boot, config, headers, set, since,
                   dead>>

\* A call with no display claims yet looks for the cookie, if one is
\* configured, and reads the key set again to verify it.
LookForCookie(r) ==
    /\ pc[r] = "mapped"
    /\ IF shown[r] = None /\ config.cookie /\ headers[r].cookie # None
         THEN /\ Goto(r, "cookie")
              /\ set' = [set EXCEPT ![r] = keys]
         ELSE Goto(r, "fallback") /\ UNCHANGED set
    /\ UNCHANGED <<keys, version, expired, boot, config, headers, result,
                   shown, since, dead>>

\* Mutant: the cookie's subject is not compared with the token's.
CookieMatchesAny(r) == Passes(r, headers[r].cookie)

\* The cookie is a valid token of the caller.
CookieMatches(r) ==
    /\ Passes(r, headers[r].cookie)
    /\ headers[r].cookie.sub = Raw(r).sub

\* fillFromDisplayCookie; the claims of a matching cookie may be empty too.
ReadCookie(r) ==
    /\ pc[r] = "cookie"
    /\ shown' = [shown EXCEPT ![r] =
                   IF CookieMatches(r) /\ headers[r].cookie.named
                     THEN headers[r].cookie.sub ELSE @]
    /\ Goto(r, "fallback")
    /\ UNCHANGED <<keys, version, expired, boot, config, headers, set, result,
                   since, dead>>

\* The userinfo fallback, if it is configured and still needed, and the
\* return of the identity.
Fallback(r) ==
    /\ pc[r] = "fallback"
    /\ \E s \in IF shown[r] = None /\ config.userinfo
                  THEN {Raw(r).sub, None} ELSE {shown[r]} :
          shown' = [shown EXCEPT ![r] = s]
    /\ Return(r, "identity")
    /\ UNCHANGED <<keys, version, expired, boot, config, headers, set, since,
                   dead>>

\* The caller has taken the result.
Forget(r) ==
    /\ pc[r] = "done"
    /\ Goto(r, "idle")
    /\ headers' = [headers EXCEPT ![r] = NoHeaders]
    /\ set' = [set EXCEPT ![r] = 0]
    /\ result' = [result EXCEPT ![r] = "none"]
    /\ shown' = [shown EXCEPT ![r] = None]
    /\ since' = [since EXCEPT ![r] = 0]
    /\ dead' = [dead EXCEPT ![r] = {}]
    /\ UNCHANGED <<keys, version, expired, boot, config>>

Step(r) == Source(r) \/ Parse(r) \/ LookForCookie(r) \/ ReadCookie(r) \/ Fallback(r)

Next ==
    \/ Discover \/ NewKeySet \/ Refreshed \/ Published
    \/ \E t \in Tokens : Expire(t)
    \/ \E r \in Requests : Call(r) \/ Step(r) \/ Forget(r)

Spec == Init /\ [][Next]_vars

-----------------------------------------------------------------------------
PCs == {"idle", "source", "parse", "mapped", "cookie", "fallback", "done"}

\* Every variable has its type; no call runs before NewVerifier has returned.
TypeOK ==
    /\ keys \in 0..MaxVersion
    /\ version \in Versions
    /\ expired \subseteq Tokens
    /\ boot \in {"discovering", "fetching", "ready", "failed"}
    /\ config \in Configs
    /\ pc \in [Requests -> PCs]
    /\ headers \in [Requests -> HeaderSets]
    /\ set \in [Requests -> 0..MaxVersion]
    /\ result \in [Requests -> Results]
    /\ shown \in [Requests -> Subjects \cup {None}]
    /\ since \in [Requests -> 0..MaxVersion]
    /\ dead \in [Requests -> SUBSET Tokens]
    /\ boot # "ready" => pc = [r \in Requests |-> "idle"]

\* Authenticate as its callers see it: nothing of a call shows before it
\* returns.
Promise == INSTANCE Authn WITH
    audience <- config.audience,
    phase <- [r \in Requests |-> IF pc[r] \in {"idle", "done"}
                                   THEN IF pc[r] = "idle" THEN "idle" ELSE "decided"
                                   ELSE "pending"],
    token <- [r \in Requests |-> Raw(r)],
    shown <- [r \in Requests |-> IF pc[r] = "done" THEN shown[r] ELSE None]

\* The verifier implements Authn: however rotations, expiries and other calls
\* interleave with it, a call accepts only a token that passed against keys in
\* place during the call, rejects only one that failed against such keys,
\* never fails because of the cookie or of userinfo, and never shows the name
\* of anyone but the token's subject.
AuthnSpec == Promise!Spec

\* The credential a handler forwards on behalf of the caller is the one that
\* was verified, when the request carries only one.
ForwardsVerified ==
    \A r \in Requests :
        /\ result[r] = "identity"
        /\ None \in {headers[r].accessToken, headers[r].authorization}
        => ForwardAuthorization(headers[r]) = Bearer(Raw(r))
=============================================================================
