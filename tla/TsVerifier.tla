----------------------------- MODULE TsVerifier -----------------------------
(***************************************************************************)
(* The verifying Authenticator of the TypeScript package (ts/src/verify.ts, *)
(* ts/src/discovery.ts and ts/src/userinfo.ts).  It runs on one event      *)
(* loop: a call gives way to others at each await, which are the           *)
(* verification by jose, the userinfo request and the reading of its body; *)
(* everything between two awaits is one step.  Unlike the Go verifier it   *)
(* has no display cookie, leaves the keys to jose (here: jose accepts a    *)
(* token or rejects it), and waits for userinfo without a timeout of its   *)
(* own.                                                                    *)
(***************************************************************************)
CONSTANTS
    Requests,   \* concurrent calls of authenticate
    Subjects,   \* the users of the provider
    None,       \* no token, no profile, no body
    Bodies      \* what userinfo may answer: a subset of AllBodies

\* A JSON object for some user, a JSON value without members, null, and what
\* is not JSON.
AllBodies == [kind : {"object"}, of : Subjects]
                 \cup [kind : {"scalar", "null", "not_json"}, of : {None}]

ASSUME BodiesAssumption == Bodies \subseteq AllBodies

VARIABLES
    boot,     \* how far createVerifier has come
    fallback, \* userinfoFallback, and from "ready" on also an endpoint for it
    pc,       \* where each call is
    token,    \* its token: the subject and whether it carries a name or email
    body,     \* the answer of userinfo it is reading
    shown,    \* whose name and email identity holds, or None
    result,   \* "none", "identity", or the error the promise is rejected with
    entry,    \* the cache: whose profile each subject's entry holds, or None
    stale     \* the subjects whose entry is older than userinfoTTL

callVars == <<pc, token, body, shown, result>>
startup == <<boot, fallback>>
vars == <<boot, fallback, pc, token, body, shown, result, entry, stale>>

Tokens == [sub : Subjects, named : BOOLEAN]

\* No token, body or user is the absent one.
ASSUME NoneAssumption ==
    None \notin Subjects /\ None \notin Tokens /\ None \notin Bodies

Init ==
    /\ boot = "starting"
    /\ fallback = FALSE
    /\ pc = [r \in Requests |-> "idle"]
    /\ token = [r \in Requests |-> None]
    /\ body = [r \in Requests |-> None]
    /\ shown = [r \in Requests |-> None]
    /\ result = [r \in Requests |-> "none"]
    /\ entry = [s \in Subjects |-> None]
    /\ stale = {}

\* createVerifier up to discover's request, with any options: injected
\* endpoints are used as they are, an injected key alone leaves no userinfo
\* endpoint; no issuer, or no key and no place to get one, is an error.
CreateVerifier ==
    /\ boot = "starting"
    /\ \E issuer, wanted, jwks, endpoints, jwksUri, userinfoUri \in BOOLEAN :
         IF ~issuer THEN boot' = "failed" /\ UNCHANGED fallback
         ELSE IF endpoints
           THEN /\ boot' = IF jwks \/ jwksUri THEN "ready" ELSE "failed"
                /\ fallback' = (wanted /\ userinfoUri)
         ELSE /\ boot' = IF jwks THEN "ready" ELSE "discovering"
              /\ fallback' = (wanted /\ ~jwks)
    /\ UNCHANGED <<callVars, entry, stale>>

\* The ways discover throws: the request, its timeout included, the status,
\* the body, another issuer, no jwks_uri.
DiscoveryErrors == {"transport", "status", "undecodable", "issuer", "no_jwks_uri"}

\* discover settles and createVerifier returns or throws.
Discover ==
    /\ boot = "discovering"
    /\ \E answer \in DiscoveryErrors \cup {"document"}, userinfoUri \in BOOLEAN :
         /\ boot' = IF answer = "document" THEN "ready" ELSE "failed"
         /\ fallback' = (fallback /\ answer = "document" /\ userinfoUri)
    /\ UNCHANGED <<callVars, entry, stale>>

Goto(r, l) == pc' = [pc EXCEPT ![r] = l]

Settle(r, res) ==
    /\ Goto(r, "settled")
    /\ result' = [result EXCEPT ![r] = res]

\* authenticate up to jwtVerify: without a token the promise is rejected.
Authenticate(r) ==
    /\ boot = "ready"
    /\ pc[r] = "idle"
    /\ \E t \in Tokens \cup {None} :
         /\ token' = [token EXCEPT ![r] = t]
         /\ IF t = None
              THEN Settle(r, "NoCredentialError")
              ELSE Goto(r, "verifying") /\ UNCHANGED result
    /\ UNCHANGED <<startup, body, shown, entry, stale>>

\* Mutant: the error of jose is passed on as it is.
RejectedAsIs(r) ==
    /\ pc[r] = "verifying"
    /\ Settle(r, "JWTExpired")
    /\ UNCHANGED <<startup, token, body, shown, entry, stale>>

\* jwtVerify throws.
Rejected(r) ==
    /\ pc[r] = "verifying"
    /\ Settle(r, "InvalidTokenError")
    /\ UNCHANGED <<startup, token, body, shown, entry, stale>>

\* The entry of the subject is younger than userinfoTTL.
Fresh(s) == entry[s] # None /\ s \notin stale

\* jwtVerify returns: the claims are mapped, and fill runs up to its request
\* if the identity lacks both name and email.
Verified(r) ==
    /\ pc[r] = "verifying"
    /\ LET t == token[r]
       IN  IF t.named \/ ~fallback
             THEN /\ shown' = [shown EXCEPT ![r] = IF t.named THEN t.sub ELSE None]
                  /\ Settle(r, "identity")
           ELSE IF Fresh(t.sub)
             THEN /\ shown' = [shown EXCEPT ![r] = entry[t.sub]]
                  /\ Settle(r, "identity")
           ELSE Goto(r, "asking") /\ UNCHANGED <<shown, result>>
    /\ UNCHANGED <<startup, token, body, entry, stale>>

\* The request throws or is refused.
Refused(r) ==
    /\ pc[r] = "asking"
    /\ Settle(r, "identity")
    /\ UNCHANGED <<startup, token, body, shown, entry, stale>>

\* The response is 200; its body is read.
Responded(r) ==
    /\ pc[r] = "asking"
    /\ \E b \in Bodies : body' = [body EXCEPT ![r] = b]
    /\ Goto(r, "reading")
    /\ UNCHANGED <<startup, token, shown, result, entry, stale>>

\* Mutant: the answer is shown whoever it is for.
IsCallerAny(r) == body[r].kind = "object"

\* body.sub === identity.subject, for a body that has members.
IsCaller(r) == body[r].kind = "object" /\ body[r].of = token[r].sub

\* Mutant: undecodable bodies are not caught either.
ThrowsMore(b) == b.kind \in {"null", "not_json"}

\* body.sub throws for null: nothing catches it before authenticate's caller.
Throws(b) == b.kind = "null"

\* response.json() settles and fill returns or throws.
Read(r) ==
    /\ pc[r] = "reading"
    /\ IF Throws(body[r])
         THEN Settle(r, "TypeError") /\ UNCHANGED <<shown, entry, stale>>
       ELSE IF IsCaller(r)
         THEN /\ shown' = [shown EXCEPT ![r] = body[r].of]
              /\ entry' = [entry EXCEPT ![token[r].sub] = body[r].of]
              /\ stale' = stale \ {token[r].sub}
              /\ Settle(r, "identity")
       ELSE Settle(r, "identity") /\ UNCHANGED <<shown, entry, stale>>
    /\ UNCHANGED <<startup, token, body>>

\* The caller has taken the result.
Forget(r) ==
    /\ pc[r] = "settled"
    /\ Goto(r, "idle")
    /\ token' = [token EXCEPT ![r] = None]
    /\ body' = [body EXCEPT ![r] = None]
    /\ shown' = [shown EXCEPT ![r] = None]
    /\ result' = [result EXCEPT ![r] = "none"]
    /\ UNCHANGED <<startup, entry, stale>>

\* An entry reaches userinfoTTL.
Age(s) ==
    /\ Fresh(s)
    /\ stale' = stale \cup {s}
    /\ UNCHANGED <<startup, callVars, entry>>

Next ==
    \/ CreateVerifier \/ Discover
    \/ \E s \in Subjects : Age(s)
    \/ \E r \in Requests :
         \/ Authenticate(r) \/ Rejected(r) \/ Verified(r) \/ Refused(r)
         \/ Responded(r) \/ Read(r) \/ Forget(r)

Spec == Init /\ [][Next]_vars

-----------------------------------------------------------------------------
\* Every variable has its type; no call runs before createVerifier has
\* returned.
TypeOK ==
    /\ boot \in {"starting", "discovering", "ready", "failed"}
    /\ boot # "ready" => pc = [r \in Requests |-> "idle"]
    /\ fallback \in BOOLEAN
    /\ pc \in [Requests -> {"idle", "verifying", "asking", "reading", "settled"}]
    /\ token \in [Requests -> Tokens \cup {None}]
    /\ body \in [Requests -> Bodies \cup {None}]
    /\ shown \in [Requests -> Subjects \cup {None}]
    /\ result \in [Requests -> {"none", "identity", "NoCredentialError",
                                "InvalidTokenError", "TypeError"}]
    /\ entry \in [Subjects -> Subjects \cup {None}]
    /\ stale \subseteq Subjects

\* Nobody is shown another user's name, directly or out of the cache, when
\* calls of several users interleave at their awaits.
OwnProfile ==
    /\ \A r \in Requests : shown[r] # None => shown[r] = token[r].sub
    /\ \A s \in Subjects : entry[s] \in {s, None}

\* Once the token has been verified nothing that userinfo answers fails the
\* call: failures only degrade display, as the comments of userinfo.ts say.
DisplayNeverFails ==
    [][\A r \in Requests :
         pc[r] \in {"asking", "reading"} /\ pc'[r] = "settled"
             => result'[r] = "identity"]_vars
=============================================================================
