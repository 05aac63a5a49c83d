------------------------------- MODULE Authn --------------------------------
(***************************************************************************)
(* What Authenticate promises its callers (gatewayauth.go, the comments of *)
(* Authenticator and of the two sentinel errors), without saying how: one  *)
(* decision per call, taken from the token alone against keys that were in *)
(* place during the call; display claims of nobody but the caller.         *)
(***************************************************************************)
EXTENDS Tokens

CONSTANT Requests    \* concurrent calls of Authenticate

VARIABLES
    keys,     \* the version of the key set in place
    version,  \* the version the provider publishes
    audience, \* the configured audience
    expired,  \* the tokens that have expired
    phase,    \* "idle", "pending" or "decided", per call
    token,    \* what the token source found in the call's request
    since,    \* the key set in place when the call was made
    dead,     \* the tokens that had expired when the call was made
    result,   \* the decision
    shown     \* whose name and email the identity shows, or None

callVars == <<phase, token, since, dead, result, shown>>
vars == <<keys, version, audience, expired, phase, token, since, dead,
          result, shown>>

Feed == INSTANCE KeyFeed

Results == {"none", "no_credential", "invalid_token", "identity"}

Init ==
    /\ Feed!Init
    /\ audience \in {"", "api"}
    /\ expired = {}
    /\ phase = [r \in Requests |-> "idle"]
    /\ token = [r \in Requests |-> None]
    /\ since = [r \in Requests |-> 0]
    /\ dead = [r \in Requests |-> {}]
    /\ result = [r \in Requests |-> "none"]
    /\ shown = [r \in Requests |-> None]

\* Keys are published and replaced, and tokens expire.
Environment ==
    /\ \/ Feed!Next /\ UNCHANGED expired
       \/ /\ \E t \in Tokens \ expired : expired' = expired \cup {t}
          /\ UNCHANGED <<keys, version>>
    /\ UNCHANGED <<audience, callVars>>

\* A call is made, once there are keys.
Submit(r) ==
    /\ keys > 0
    /\ phase[r] = "idle"
    /\ phase' = [phase EXCEPT ![r] = "pending"]
    /\ \E t \in Tokens \cup {None} : token' = [token EXCEPT ![r] = t]
    /\ since' = [since EXCEPT ![r] = keys]
    /\ dead' = [dead EXCEPT ![r] = expired]
    /\ UNCHANGED <<keys, version, audience, expired, result, shown>>

\* The call's token passed at some moment of the call, with the keys then in
\* place.
MayAccept(r) ==
    /\ token[r] # None /\ token[r] \notin dead[r]
    /\ \E v \in since[r]..keys : Valid(token[r], v, audience)

\* The call's token failed at some moment of the call.
MayReject(r) ==
    /\ token[r] # None
    /\ \/ token[r] \in expired
       \/ \E v \in since[r]..keys : ~Valid(token[r], v, audience)

\* The decision.
Decide(r) ==
    /\ phase[r] = "pending"
    /\ phase' = [phase EXCEPT ![r] = "decided"]
    /\ \/ /\ token[r] = None
          /\ result' = [result EXCEPT ![r] = "no_credential"]
          /\ UNCHANGED shown
       \/ /\ MayReject(r)
          /\ result' = [result EXCEPT ![r] = "invalid_token"]
          /\ UNCHANGED shown
       \/ /\ MayAccept(r)
          /\ result' = [result EXCEPT ![r] = "identity"]
          /\ \E s \in {token[r].sub, None} :
                /\ token[r].named => s # None
                /\ shown' = [shown EXCEPT ![r] = s]
    /\ UNCHANGED <<keys, version, audience, expired, token, since, dead>>

\* The caller has taken the result.
Forget(r) ==
    /\ phase[r] = "decided"
    /\ phase' = [phase EXCEPT ![r] = "idle"]
    /\ token' = [token EXCEPT ![r] = None]
    /\ since' = [since EXCEPT ![r] = 0]
    /\ dead' = [dead EXCEPT ![r] = {}]
    /\ result' = [result EXCEPT ![r] = "none"]
    /\ shown' = [shown EXCEPT ![r] = None]
    /\ UNCHANGED <<keys, version, audience, expired>>

Next ==
    \/ Environment
    \/ \E r \in Requests : Submit(r) \/ Decide(r) \/ Forget(r)

Spec == Init /\ [][Next]_vars
=============================================================================
