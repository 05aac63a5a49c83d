--------------------------- MODULE VerifierProofs ---------------------------
(***************************************************************************)
(* Proofs about Verifier, for any number of concurrent calls, any tokens   *)
(* and headers and any sequence of key sets: its invariants, and that it   *)
(* implements Authn.                                                       *)
(***************************************************************************)
EXTENDS Verifier, TLAPS

\* NewVerifier returns only once there are keys, which are then never taken
\* away; they are keys the provider has published.
BootInv ==
    /\ keys <= version
    /\ boot = "ready" => keys > 0

\* Authn would accept the call as it stands: its token passed against keys
\* that were in place since the call was made, and whatever is shown is the
\* token's subject.
Accepted(r) ==
    /\ Raw(r) \notin dead[r]
    /\ \E v \in since[r]..keys : Valid(Raw(r), v, config.audience)
    /\ shown[r] \in {Raw(r).sub, None}
    /\ Raw(r).named => shown[r] = Raw(r).sub

\* A call between two of its steps.
CallInv(r) ==
    /\ pc[r] = "idle" => /\ headers[r] = NoHeaders
                         /\ set[r] = 0 /\ since[r] = 0 /\ dead[r] = {}
    /\ pc[r] # "idle" => since[r] \in 1..keys /\ dead[r] \subseteq expired
    /\ pc[r] \in {"idle", "source", "parse"} => shown[r] = None
    /\ pc[r] # "done" => result[r] = "none"
    /\ pc[r] \in {"parse", "mapped", "cookie", "fallback"} => Raw(r) # None
    /\ pc[r] = "parse" => set[r] \in since[r]..keys
    /\ pc[r] \in {"mapped", "cookie", "fallback"} => Accepted(r)
    /\ result[r] = "identity" => Raw(r) # None

Inv == TypeOK /\ BootInv /\ \A r \in Requests : CallInv(r)

USE HeadersAssumption, TokensAssumption, VersionsAssumption

-----------------------------------------------------------------------------
(***************************************************************************)
(* The operators of Tokens.                                                *)
(***************************************************************************)

\* A header value is a record, never the absent one.
LEMMA ValuesArePresent == None \notin Values
  BY DEF Values

\* A source finds a token of its header, or nothing.
LEMMA SourceFindsTokens ==
    ASSUME NEW value \in Values \cup {None}, NEW scheme
    PROVE  HeaderSource(value, scheme) \in Tokens \cup {None}
  BY ValuesArePresent DEF HeaderSource, Values

\* A header value behind no scheme is a header value.
LEMMA BareIsValue ==
    ASSUME NEW t \in Tokens
    PROVE  Bare(t) \in Values
  BY DEF Bare, Values

\* The chain of sources finds one of the request's tokens, or nothing.
LEMMA DefaultSourceFindsTokens ==
    ASSUME NEW h \in HeaderSets
    PROVE  DefaultSource(h) \in Tokens \cup {None}
  <1>1. h.accessToken \in Values \cup {None} /\ h.authorization \in Values \cup {None}
    BY BareIsValue DEF HeaderSets
  <1>2. /\ HeaderSource(h.accessToken, "none") \in Tokens \cup {None}
        /\ HeaderSource(h.authorization, "bearer") \in Tokens \cup {None}
    BY <1>1, SourceFindsTokens
  <1> QED BY <1>2 DEF DefaultSource, ChainSource

\* A request without headers carries no credential.
LEMMA NoHeadersNoToken == NoHeaders \in HeaderSets /\ DefaultSource(NoHeaders) = None
  BY DEF NoHeaders, HeaderSets, DefaultSource, ChainSource, HeaderSource

\* With a single credential, what ForwardAuthorization passes on is what
\* DefaultSource found, behind "Bearer ".
LEMMA ForwardsWhatWasFound ==
    ASSUME NEW h \in HeaderSets,
           None \in {h.accessToken, h.authorization},
           DefaultSource(h) # None
    PROVE  ForwardAuthorization(h) = Bearer(DefaultSource(h))
  <1>1. CASE h.accessToken = None
    <2>1. DefaultSource(h) = HeaderSource(h.authorization, "bearer")
      BY <1>1 DEF DefaultSource, ChainSource, HeaderSource
    <2>2. /\ h.authorization \in Values
          /\ h.authorization.scheme = "bearer"
          /\ DefaultSource(h) = h.authorization.token
      BY <2>1 DEF HeaderSource, HeaderSets
    <2>3. h.authorization = Bearer(DefaultSource(h))
      BY <2>2 DEF Values, Bearer
    <2> QED BY <2>2, <2>3, ValuesArePresent DEF ForwardAuthorization
  <1>2. CASE h.accessToken # None
    <2>1. h.authorization = None
      BY <1>2
    <2>2. PICK t \in Tokens : h.accessToken = Bare(t)
      BY <1>2 DEF HeaderSets
    <2>3. DefaultSource(h) = h.accessToken.token
      BY <1>2, <2>2 DEF DefaultSource, ChainSource, HeaderSource, Bare
    <2> QED BY <1>2, <2>1, <2>3 DEF ForwardAuthorization
  <1> QED BY <1>1, <1>2

-----------------------------------------------------------------------------
(***************************************************************************)
(* The invariant.                                                          *)
(***************************************************************************)

\* The raw token of a call is a token, or absent.
LEMMA RawIsToken ==
    ASSUME TypeOK, NEW r \in Requests
    PROVE  Raw(r) \in Tokens \cup {None}
  BY DefaultSourceFindsTokens DEF Raw, TypeOK

\* The invariant holds when the program starts.
LEMMA InitInv == Init => Inv
  <1> SUFFICES ASSUME Init PROVE Inv
    OBVIOUS
  <1>1. TypeOK
    BY NoHeadersNoToken DEF Init, Feed!Init, TypeOK, Versions, PCs, Results
  <1>2. BootInv
    BY DEF Init, Feed!Init, BootInv
  <1>3. ASSUME NEW r \in Requests PROVE CallInv(r)
    BY DEF Init, CallInv, Raw
  <1> QED BY <1>1, <1>2, <1>3 DEF Inv

\* A call that does not move keeps its part of the invariant while keys are
\* replaced and tokens expire: the window of keys it may be judged by only
\* grows.
LEMMA CallKept ==
    ASSUME TypeOK, keys' \in Nat, keys <= keys', expired \subseteq expired',
           config'.audience = config.audience,
           NEW q \in Requests, CallInv(q),
           pc'[q] = pc[q], headers'[q] = headers[q], set'[q] = set[q],
           result'[q] = result[q], shown'[q] = shown[q],
           since'[q] = since[q], dead'[q] = dead[q]
    PROVE  CallInv(q)'
  <1>1. keys \in Nat /\ since[q] \in Nat /\ set[q] \in Nat
    BY DEF TypeOK
  <1>2. Raw(q)' = Raw(q)
    BY DEF Raw
  <1>3. Accepted(q) => Accepted(q)'
    BY <1>1, <1>2 DEF Accepted
  <1> QED BY <1>1, <1>2, <1>3 DEF CallInv

\* A step that touches no call keeps the invariant if the key set only moves
\* forward.
LEMMA EnvironmentKept ==
    ASSUME Inv, TypeOK', BootInv', keys <= keys', expired \subseteq expired',
           config'.audience = config.audience, UNCHANGED callVars
    PROVE  Inv'
  <1>1. TypeOK /\ keys' \in Nat
    BY DEF Inv, TypeOK
  <1>2. ASSUME NEW q \in Requests PROVE CallInv(q)'
    BY <1>1, CallKept DEF Inv, callVars
  <1> QED BY <1>2 DEF Inv

\* A step of one call keeps the invariant if it keeps the call's own part.
LEMMA OneCallKept ==
    ASSUME Inv, TypeOK', NEW r \in Requests, CallInv(r)',
           UNCHANGED <<keys, version, expired, boot, config>>,
           \A q \in Requests \ {r} :
              /\ pc'[q] = pc[q] /\ headers'[q] = headers[q] /\ set'[q] = set[q]
              /\ result'[q] = result[q] /\ shown'[q] = shown[q]
              /\ since'[q] = since[q] /\ dead'[q] = dead[q]
    PROVE  Inv'
  <1>1. TypeOK /\ keys \in Nat
    BY DEF Inv, TypeOK
  <1>2. ASSUME NEW q \in Requests PROVE CallInv(q)'
    <2>1. CASE q = r
      BY <2>1
    <2>2. CASE q # r
      BY <1>1, <2>2, CallKept DEF Inv
    <2> QED BY <2>1, <2>2
  <1>3. BootInv'
    BY DEF Inv, BootInv
  <1> QED BY <1>2, <1>3 DEF Inv

\* A call that goes on is the only one that moves.
LEMMA GotoTypes ==
    ASSUME TypeOK, NEW r \in Requests, NEW l \in PCs, Goto(r, l), boot = "ready"
    PROVE  /\ pc' \in [Requests -> PCs] /\ pc'[r] = l
           /\ \A q \in Requests \ {r} : pc'[q] = pc[q]
  BY DEF Goto, TypeOK

\* Only a verifier that is ready has calls.
LEMMA CallsAreServed ==
    ASSUME TypeOK, NEW r \in Requests, pc[r] # "idle"
    PROVE  boot = "ready"
  BY DEF TypeOK

\* The steps of startup, of the provider and of time keep the invariant.
LEMMA StepEnvironment ==
    ASSUME Inv,
           Discover \/ NewKeySet \/ Refreshed \/ Published \/ (\E t \in Tokens : Expire(t))
    PROVE  Inv'
  <1>0. TypeOK /\ BootInv
    BY DEF Inv
  <1>1. CASE Discover
    <2>1. /\ boot' \in {"fetching", "failed"} /\ boot = "discovering"
          /\ UNCHANGED <<keys, version, expired, callVars>>
      BY <1>1 DEF Discover
    <2>2. config' \in Configs /\ config'.audience = config.audience
      <3>1. CASE config' = config
        BY <1>0, <3>1 DEF TypeOK
      <3>2. CASE config' # config
        <4>1. PICK endpoint \in BOOLEAN :
                 config' = [config EXCEPT !.userinfo = config.userinfo /\ endpoint]
          BY <1>1, <3>2 DEF Discover
        <4>2. config \in [audience : {"", "api"}, cookie : BOOLEAN, userinfo : BOOLEAN]
          BY <1>0 DEF TypeOK, Configs
        <4>3. (config.userinfo /\ endpoint) \in BOOLEAN
          BY Zenon
        <4> QED BY <4>1, <4>2, <4>3 DEF Configs
      <3> QED BY <3>1, <3>2
    <2>3. TypeOK'
      BY <1>0, <2>1, <2>2 DEF TypeOK, callVars
    <2>4. BootInv'
      BY <1>0, <2>1 DEF BootInv
    <2> QED BY <1>0, <2>1, <2>2, <2>3, <2>4, EnvironmentKept DEF TypeOK
  <1>2. CASE NewKeySet \/ Refreshed
    <2>1. /\ version' = version
          /\ \/ keys' = keys /\ boot' = "failed" /\ boot = "fetching"
             \/ keys' \in 1..version /\ keys' >= keys /\ boot' = "ready"
      BY <1>2 DEF NewKeySet, Refreshed, Feed!Replace
    <2>2. UNCHANGED <<expired, config, callVars>>
      BY <1>2 DEF NewKeySet, Refreshed
    <2>3. keys \in 0..MaxVersion /\ version \in 1..MaxVersion
      BY <1>0 DEF TypeOK, Versions
    <2>4. keys' \in 0..MaxVersion /\ keys <= keys' /\ keys' <= version
      BY <1>0, <2>1, <2>3 DEF BootInv
    <2>5. TypeOK'
      BY <1>0, <2>1, <2>2, <2>4 DEF TypeOK, callVars
    <2>6. BootInv'
      BY <2>1, <2>3, <2>4 DEF BootInv
    <2> QED BY <2>2, <2>4, <2>5, <2>6, EnvironmentKept
  <1>3. CASE Published
    <2>1. /\ version < MaxVersion /\ version' = version + 1 /\ keys' = keys
          /\ UNCHANGED <<expired, boot, config, callVars>>
      BY <1>3 DEF Published, Feed!Publish
    <2>2. keys \in 0..MaxVersion /\ version \in 1..MaxVersion
      BY <1>0 DEF TypeOK, Versions
    <2>3. TypeOK'
      BY <1>0, <2>1, <2>2 DEF TypeOK, callVars, Versions
    <2>4. BootInv'
      BY <1>0, <2>1, <2>2 DEF BootInv
    <2> QED BY <2>1, <2>2, <2>3, <2>4, EnvironmentKept
  <1>4. CASE \E t \in Tokens : Expire(t)
    <2>1. /\ expired \subseteq expired' /\ expired' \subseteq Tokens
          /\ UNCHANGED <<keys, version, boot, config, callVars>>
      BY <1>0, <1>4 DEF Expire, TypeOK
    <2>2. TypeOK'
      BY <1>0, <2>1 DEF TypeOK, callVars
    <2>3. BootInv'
      BY <1>0, <2>1 DEF BootInv
    <2> QED BY <1>0, <2>1, <2>2, <2>3, EnvironmentKept DEF TypeOK
  <1> QED BY <1>1, <1>2, <1>3, <1>4

\* The steps of a call keep the invariant.
LEMMA StepCall ==
    ASSUME Inv, NEW r \in Requests, Call(r) \/ Step(r) \/ Forget(r)
    PROVE  Inv'
  <1>0. TypeOK /\ BootInv /\ CallInv(r) /\ Raw(r) \in Tokens \cup {None}
    BY RawIsToken DEF Inv
  <1>1. keys \in Nat /\ since[r] \in Nat /\ set[r] \in Nat
    BY <1>0 DEF TypeOK
  <1>2. boot = "ready"
    BY <1>0, CallsAreServed
       DEF Call, Step, Source, Parse, LookForCookie, ReadCookie, Fallback, Forget
  <1>3. CASE Call(r)
    <2>1. PICK h \in Headers : headers' = [headers EXCEPT ![r] = h]
      BY <1>3 DEF Call
    <2>2. /\ pc[r] = "idle" /\ Goto(r, "source")
          /\ since' = [since EXCEPT ![r] = keys]
          /\ dead' = [dead EXCEPT ![r] = expired]
          /\ UNCHANGED <<keys, version, expired, boot, config, set, result, shown>>
      BY <1>3 DEF Call
    <2>3. /\ pc' \in [Requests -> PCs] /\ pc'[r] = "source"
          /\ \A q \in Requests \ {r} : pc'[q] = pc[q]
      BY <1>0, <1>2, <2>2, GotoTypes DEF PCs
    <2>4. TypeOK'
      BY <1>0, <1>2, <2>1, <2>2, <2>3 DEF TypeOK
    <2>5. since'[r] = keys /\ dead'[r] = expired
      BY <1>0, <2>2 DEF TypeOK
    <2>6. CallInv(r)'
      BY <1>0, <1>1, <1>2, <2>2, <2>3, <2>5 DEF CallInv, BootInv
    <2>7. \A q \in Requests \ {r} : headers'[q] = headers[q] /\ since'[q] = since[q]
                                    /\ dead'[q] = dead[q]
      BY <1>0, <2>1, <2>2 DEF TypeOK
    <2> QED BY <2>2, <2>3, <2>4, <2>6, <2>7, OneCallKept
  <1>4. CASE Source(r)
    <2>1. UNCHANGED <<keys, version, expired, boot, config, headers, shown, since, dead>>
          /\ pc[r] = "source"
      BY <1>4 DEF Source
    <2>2. Raw(r)' = Raw(r)
      BY <2>1 DEF Raw
    <2>3. CASE Raw(r) = None
      <3>1. Goto(r, "done") /\ result' = [result EXCEPT ![r] = "no_credential"] /\ set' = set
        BY <1>4, <2>3 DEF Source, Return
      <3>2. /\ pc' \in [Requests -> PCs] /\ pc'[r] = "done"
            /\ \A q \in Requests \ {r} : pc'[q] = pc[q]
        BY <1>0, <1>2, <3>1, GotoTypes DEF PCs
      <3>3. TypeOK'
        BY <1>0, <1>2, <2>1, <3>1, <3>2 DEF TypeOK, Results
      <3>4. /\ result'[r] = "no_credential"
            /\ \A q \in Requests \ {r} : result'[q] = result[q]
        BY <1>0, <3>1 DEF TypeOK
      <3>5. CallInv(r)'
        BY <1>0, <2>1, <3>2, <3>4 DEF CallInv
      <3> QED BY <2>1, <3>1, <3>2, <3>3, <3>4, <3>5, OneCallKept
    <2>4. CASE Raw(r) # None
      <3>1. Goto(r, "parse") /\ set' = [set EXCEPT ![r] = keys] /\ result' = result
        BY <1>4, <2>4 DEF Source
      <3>2. /\ pc' \in [Requests -> PCs] /\ pc'[r] = "parse"
            /\ \A q \in Requests \ {r} : pc'[q] = pc[q]
        BY <1>0, <1>2, <3>1, GotoTypes DEF PCs
      <3>3. TypeOK'
        BY <1>0, <1>2, <2>1, <3>1, <3>2 DEF TypeOK
      <3>4. set'[r] = keys /\ \A q \in Requests \ {r} : set'[q] = set[q]
        BY <1>0, <3>1 DEF TypeOK
      <3>5. CallInv(r)'
        BY <1>0, <1>1, <2>1, <2>2, <2>4, <3>1, <3>2, <3>4 DEF CallInv
      <3> QED BY <2>1, <3>1, <3>2, <3>3, <3>4, <3>5, OneCallKept
    <2> QED BY <2>3, <2>4
  <1>5. CASE Parse(r)
    <2>1. UNCHANGED <<keys, version, expired, boot, config, headers, set, since, dead>>
          /\ pc[r] = "parse"
      BY <1>5 DEF Parse
    <2>2. Raw(r)' = Raw(r) /\ Raw(r) \in Tokens
      BY <1>0, <2>1 DEF Raw, CallInv
    <2>3. CASE Passes(r, Raw(r))
      <3> DEFINE name == IF Raw(r).named THEN Raw(r).sub ELSE None
      <3>1. Goto(r, "mapped") /\ shown' = [shown EXCEPT ![r] = name] /\ result' = result
        BY <1>5, <2>3 DEF Parse
      <3>2. name \in Subjects \cup {None}
        BY <2>2
      <3>3. /\ pc' \in [Requests -> PCs] /\ pc'[r] = "mapped"
            /\ \A q \in Requests \ {r} : pc'[q] = pc[q]
        BY <1>0, <1>2, <3>1, GotoTypes DEF PCs
      <3>4. TypeOK'
        <4> HIDE DEF name
        <4> QED BY <1>0, <1>2, <2>1, <3>1, <3>2, <3>3 DEF TypeOK
      <3>5. shown'[r] = name /\ \A q \in Requests \ {r} : shown'[q] = shown[q]
        <4> HIDE DEF name
        <4> QED BY <1>0, <3>1 DEF TypeOK
      <3>6. Accepted(r)'
        <4>1. Raw(r) \notin dead[r]
          BY <1>0, <2>1, <2>3 DEF CallInv, Passes
        <4>2. set[r] \in since[r]..keys /\ Valid(Raw(r), set[r], config.audience)
          BY <1>0, <2>1, <2>3 DEF CallInv, Passes
        <4> QED BY <2>1, <2>2, <3>5, <4>1, <4>2 DEF Accepted
      <3>7. CallInv(r)'
        BY <1>0, <2>1, <2>2, <3>1, <3>3, <3>6 DEF CallInv
      <3> QED BY <2>1, <3>1, <3>3, <3>4, <3>5, <3>7, OneCallKept
    <2>4. CASE ~Passes(r, Raw(r))
      <3>1. Goto(r, "done") /\ result' = [result EXCEPT ![r] = "invalid_token"]
            /\ shown' = shown
        BY <1>5, <2>4 DEF Parse, Return
      <3>2. /\ pc' \in [Requests -> PCs] /\ pc'[r] = "done"
            /\ \A q \in Requests \ {r} : pc'[q] = pc[q]
        BY <1>0, <1>2, <3>1, GotoTypes DEF PCs
      <3>3. TypeOK'
        BY <1>0, <1>2, <2>1, <3>1, <3>2 DEF TypeOK, Results
      <3>4. /\ result'[r] = "invalid_token"
            /\ \A q \in Requests \ {r} : result'[q] = result[q]
        BY <1>0, <3>1 DEF TypeOK
      <3>5. CallInv(r)'
        BY <1>0, <2>1, <3>2, <3>4 DEF CallInv
      <3> QED BY <2>1, <3>1, <3>2, <3>3, <3>4, <3>5, OneCallKept
    <2> QED BY <2>3, <2>4
  <1>6. CASE LookForCookie(r)
    <2>1. UNCHANGED <<keys, version, expired, boot, config, headers, result, shown, since, dead>>
          /\ pc[r] = "mapped"
      BY <1>6 DEF LookForCookie
    <2>2. PICK l \in {"cookie", "fallback"} : Goto(r, l)
      BY <1>6 DEF LookForCookie
    <2>3. set' = [set EXCEPT ![r] = keys] \/ set' = set
      BY <1>6 DEF LookForCookie
    <2>4. /\ pc' \in [Requests -> PCs] /\ pc'[r] = l
          /\ \A q \in Requests \ {r} : pc'[q] = pc[q]
      BY <1>0, <1>2, <2>2, GotoTypes DEF PCs
    <2>5. TypeOK'
      BY <1>0, <1>2, <2>1, <2>3, <2>4 DEF TypeOK
    <2>6. \A q \in Requests \ {r} : set'[q] = set[q]
      BY <1>0, <2>3 DEF TypeOK
    <2>7. Accepted(r)' /\ Raw(r)' = Raw(r)
      BY <1>0, <2>1 DEF CallInv, Accepted, Raw
    <2>8. CallInv(r)'
      BY <1>0, <2>1, <2>4, <2>7 DEF CallInv
    <2> QED BY <2>1, <2>4, <2>5, <2>6, <2>8, OneCallKept
  <1>7. CASE ReadCookie(r)
    <2> DEFINE name == IF CookieMatches(r) /\ headers[r].cookie.named
                         THEN headers[r].cookie.sub ELSE shown[r]
    <2>1. /\ UNCHANGED <<keys, version, expired, boot, config, headers, set, result, since, dead>>
          /\ pc[r] = "cookie" /\ Goto(r, "fallback")
          /\ shown' = [shown EXCEPT ![r] = name]
      BY <1>7 DEF ReadCookie
    <2>2. Raw(r)' = Raw(r) /\ Raw(r) \in Tokens /\ Accepted(r)
      BY <1>0, <2>1 DEF Raw, CallInv
    <2>3. name = Raw(r).sub \/ name = shown[r]
      BY DEF CookieMatches
    <2>4. name \in {Raw(r).sub, None} /\ (Raw(r).named => name = Raw(r).sub)
      BY <2>2, <2>3 DEF Accepted
    <2>5. /\ pc' \in [Requests -> PCs] /\ pc'[r] = "fallback"
          /\ \A q \in Requests \ {r} : pc'[q] = pc[q]
      BY <1>0, <1>2, <2>1, GotoTypes DEF PCs
    <2> HIDE DEF name
    <2>6. TypeOK'
      BY <1>0, <1>2, <2>1, <2>2, <2>4, <2>5 DEF TypeOK
    <2>7. shown'[r] = name /\ \A q \in Requests \ {r} : shown'[q] = shown[q]
      BY <1>0, <2>1 DEF TypeOK
    <2>8. Accepted(r)'
      BY <2>1, <2>2, <2>4, <2>7 DEF Accepted
    <2>9. CallInv(r)'
      BY <1>0, <2>1, <2>2, <2>5, <2>8 DEF CallInv
    <2> QED BY <2>1, <2>5, <2>6, <2>7, <2>9, OneCallKept
  <1>8. CASE Fallback(r)
    <2>1. /\ UNCHANGED <<keys, version, expired, boot, config, headers, set, since, dead>>
          /\ pc[r] = "fallback" /\ Goto(r, "done")
          /\ result' = [result EXCEPT ![r] = "identity"]
      BY <1>8 DEF Fallback, Return
    <2>2. Raw(r)' = Raw(r) /\ Raw(r) \in Tokens /\ Accepted(r)
      BY <1>0, <2>1 DEF Raw, CallInv
    <2>3. PICK s \in {Raw(r).sub, None} : shown' = [shown EXCEPT ![r] = s]
      BY <1>8, <2>2 DEF Fallback, Accepted
    <2>4. /\ pc' \in [Requests -> PCs] /\ pc'[r] = "done"
          /\ \A q \in Requests \ {r} : pc'[q] = pc[q]
      BY <1>0, <1>2, <2>1, GotoTypes DEF PCs
    <2>5. TypeOK'
      BY <1>0, <1>2, <2>1, <2>2, <2>3, <2>4 DEF TypeOK, Results
    <2>6. \A q \in Requests \ {r} : shown'[q] = shown[q] /\ result'[q] = result[q]
      BY <1>0, <2>1, <2>3 DEF TypeOK
    <2>7. CallInv(r)'
      BY <1>0, <2>1, <2>2, <2>4 DEF CallInv
    <2> QED BY <2>1, <2>4, <2>5, <2>6, <2>7, OneCallKept
  <1>9. CASE Forget(r)
    <2>1. /\ pc[r] = "done" /\ Goto(r, "idle")
          /\ headers' = [headers EXCEPT ![r] = NoHeaders]
          /\ set' = [set EXCEPT ![r] = 0]
          /\ result' = [result EXCEPT ![r] = "none"]
          /\ shown' = [shown EXCEPT ![r] = None]
          /\ since' = [since EXCEPT ![r] = 0]
          /\ dead' = [dead EXCEPT ![r] = {}]
          /\ UNCHANGED <<keys, version, expired, boot, config>>
      BY <1>9 DEF Forget
    <2>2. /\ pc' \in [Requests -> PCs] /\ pc'[r] = "idle"
          /\ \A q \in Requests \ {r} : pc'[q] = pc[q]
      BY <1>0, <1>2, <2>1, GotoTypes DEF PCs
    <2>3. TypeOK'
      <3>1. /\ headers' \in [Requests -> HeaderSets]
            /\ shown' \in [Requests -> Subjects \cup {None}]
            /\ result' \in [Requests -> Results]
        BY <1>0, <2>1, NoHeadersNoToken DEF TypeOK, Results
      <3>2. /\ set' \in [Requests -> 0..MaxVersion]
            /\ since' \in [Requests -> 0..MaxVersion]
            /\ dead' \in [Requests -> SUBSET Tokens]
        BY <1>0, <2>1 DEF TypeOK
      <3> QED BY <1>0, <1>2, <2>1, <2>2, <3>1, <3>2 DEF TypeOK
    <2>4. CallInv(r)'
      BY <1>0, <2>1, <2>2 DEF CallInv, TypeOK
    <2>5. \A q \in Requests \ {r} :
             /\ headers'[q] = headers[q] /\ set'[q] = set[q] /\ result'[q] = result[q]
             /\ shown'[q] = shown[q] /\ since'[q] = since[q] /\ dead'[q] = dead[q]
      BY <1>0, <2>1 DEF TypeOK
    <2> QED BY <2>1, <2>2, <2>3, <2>4, <2>5, OneCallKept
  <1> QED BY <1>3, <1>4, <1>5, <1>6, <1>7, <1>8, <1>9 DEF Step

\* The invariant holds throughout.
LEMMA Invariance == Spec => []Inv
  <1>1. Inv /\ [Next]_vars => Inv'
    <2> SUFFICES ASSUME Inv, [Next]_vars PROVE Inv'
      OBVIOUS
    <2>1. CASE Discover \/ NewKeySet \/ Refreshed \/ Published
               \/ (\E t \in Tokens : Expire(t))
      BY <2>1, StepEnvironment
    <2>2. ASSUME NEW r \in Requests, Call(r) \/ Step(r) \/ Forget(r) PROVE Inv'
      BY <2>2, StepCall
    <2>3. CASE UNCHANGED vars
      BY <2>3 DEF vars, Inv, TypeOK, BootInv, CallInv, Accepted, Raw
    <2> QED BY <2>1, <2>2, <2>3 DEF Next
  <1> QED BY InitInv, <1>1, PTL DEF Spec

-----------------------------------------------------------------------------
\* Every variable keeps its type, and no call of Authenticate runs before
\* NewVerifier has returned with keys, or after it has failed.
THEOREM TypeCorrect == Spec => []TypeOK
  <1>1. Inv => TypeOK
    BY DEF Inv
  <1> QED BY Invariance, <1>1, PTL

\* For any headers and tokens: a handler that forwards the caller's credential
\* forwards the one that was verified, when the request carries only one.
THEOREM ForwardedIsVerified == Spec => []ForwardsVerified
  <1>1. Inv => ForwardsVerified
    <2> SUFFICES ASSUME Inv, NEW r \in Requests, result[r] = "identity",
                        None \in {headers[r].accessToken, headers[r].authorization}
                 PROVE  ForwardAuthorization(headers[r]) = Bearer(Raw(r))
      BY DEF ForwardsVerified
    <2>1. headers[r] \in HeaderSets /\ DefaultSource(headers[r]) # None
      BY DEF Inv, TypeOK, CallInv, Raw
    <2> QED BY <2>1, ForwardsWhatWasFound DEF Raw
  <1> QED BY Invariance, <1>1, PTL

-----------------------------------------------------------------------------
(***************************************************************************)
(* The verifier implements Authn.  The refinement mapping, by name:        *)
(***************************************************************************)
Phase == [r \in Requests |-> IF pc[r] \in {"idle", "done"}
                               THEN IF pc[r] = "idle" THEN "idle" ELSE "decided"
                               ELSE "pending"]

Token == [r \in Requests |-> Raw(r)]

Seen == [r \in Requests |-> IF pc[r] = "done" THEN shown[r] ELSE None]

\* A verifier that has just started is one that Authn may start from.
LEMMA InitImplements == Init => Promise!Init
  <1> SUFFICES ASSUME Init PROVE Promise!Init
    OBVIOUS
  <1>1. config.audience \in {"", "api"}
    BY DEF Init, Configs
  <1>2. /\ Phase = [r \in Requests |-> "idle"]
        /\ Token = [r \in Requests |-> None]
        /\ Seen = [r \in Requests |-> None]
    BY NoHeadersNoToken DEF Init, Phase, Token, Seen, Raw
  <1> QED BY <1>1, <1>2 DEF Init, Feed!Init, Promise!Init, Promise!Feed!Init, Phase, Token, Seen

\* A step that is not of a call is one of Authn's environment, or none.
LEMMA EnvironmentImplements ==
    ASSUME Inv, Inv',
           Discover \/ NewKeySet \/ Refreshed \/ Published \/ (\E t \in Tokens : Expire(t))
    PROVE  Promise!Environment \/ UNCHANGED Promise!vars
  <1>1. UNCHANGED callVars
    BY DEF Discover, NewKeySet, Refreshed, Published, Expire
  <1>2. Phase' = Phase /\ Token' = Token /\ Seen' = Seen
    BY <1>1 DEF callVars, Phase, Token, Seen, Raw
  <1>3. config'.audience = config.audience
    <2>1. config \in [audience : {"", "api"}, cookie : BOOLEAN, userinfo : BOOLEAN]
      BY DEF Inv, TypeOK, Configs
    <2> QED BY <2>1 DEF Discover, NewKeySet, Refreshed, Published, Expire
  <1>4. UNCHANGED <<config.audience, Promise!callVars>>
    BY <1>1, <1>2, <1>3 DEF Promise!callVars, callVars, Phase, Token, Seen
  <1>5. CASE Discover
    BY <1>1, <1>2, <1>3, <1>5 DEF Discover, callVars, Promise!vars, Phase, Token, Seen
  <1>6. CASE NewKeySet \/ Refreshed \/ Published
    <2>1. expired' = expired
      BY <1>6 DEF NewKeySet, Refreshed, Published
    <2>2. CASE UNCHANGED <<keys, version>>
      BY <1>1, <1>2, <1>3, <2>1, <2>2 DEF callVars, Promise!vars, Phase, Token, Seen
    <2>3. CASE ~UNCHANGED <<keys, version>>
      <3>1. Feed!Replace \/ Feed!Publish
        BY <1>6, <2>3 DEF NewKeySet, Refreshed, Published
      <3>2. Promise!Feed!Next
        BY <3>1 DEF Feed!Replace, Feed!Publish, Promise!Feed!Next,
           Promise!Feed!Replace, Promise!Feed!Publish
      <3> QED BY <1>4, <2>1, <3>2 DEF Promise!Environment
    <2> QED BY <2>2, <2>3
  <1>7. ASSUME NEW t \in Tokens, Expire(t)
        PROVE  Promise!Environment
    <2>1. t \in Tokens \ expired /\ expired' = expired \cup {t} /\ UNCHANGED <<keys, version>>
      BY <1>7 DEF Expire
    <2> QED BY <1>4, <2>1 DEF Promise!Environment
  <1> QED BY <1>5, <1>6, <1>7

\* A step of a call is one of Authn's steps of it, or shows nothing: a call
\* shows only that it has been made, what it returns, and that it is over.
LEMMA CallImplements ==
    ASSUME Inv, Inv', NEW r \in Requests, Call(r) \/ Step(r) \/ Forget(r)
    PROVE  \/ Promise!Submit(r) \/ Promise!Decide(r) \/ Promise!Forget(r)
           \/ UNCHANGED Promise!vars
  <1>0. TypeOK /\ TypeOK' /\ BootInv /\ CallInv(r) /\ Raw(r) \in Tokens \cup {None}
    BY RawIsToken DEF Inv
  <1>1. CASE Call(r)
    <2>1. PICK h \in Headers : headers' = [headers EXCEPT ![r] = h]
      BY <1>1 DEF Call
    <2>2. /\ boot = "ready" /\ pc[r] = "idle" /\ pc' = [pc EXCEPT ![r] = "source"]
          /\ UNCHANGED <<keys, version, expired, config, result, shown>>
          /\ since' = [since EXCEPT ![r] = keys]
          /\ dead' = [dead EXCEPT ![r] = expired]
      BY <1>1 DEF Call, Goto
    <2>3. keys > 0 /\ Phase[r] = "idle"
      BY <1>0, <2>2 DEF BootInv, Phase
    <2>4. Phase' = [Phase EXCEPT ![r] = "pending"]
      BY <1>0, <2>2 DEF Phase, TypeOK
    <2>5. Token' = [Token EXCEPT ![r] = DefaultSource(h)] /\ DefaultSource(h) \in Tokens \cup {None}
      BY <1>0, <2>1, DefaultSourceFindsTokens DEF Token, Raw, TypeOK
    <2>6. Seen' = Seen
      BY <1>0, <2>2 DEF Seen, TypeOK
    <2> QED BY <2>2, <2>3, <2>4, <2>5, <2>6 DEF Promise!Submit, Phase, Token, Seen
  <1>2. CASE Step(r)
    <2>0. UNCHANGED <<keys, version, expired, config, headers, since, dead>>
          /\ pc[r] \in {"source", "parse", "mapped", "cookie", "fallback"}
      BY <1>2 DEF Step, Source, Parse, LookForCookie, ReadCookie, Fallback
    <2>1. Token' = Token /\ Token[r] = Raw(r)
      BY <2>0 DEF Token, Raw
    <2>2. Seen[r] = None /\ Phase[r] = "pending"
      BY <2>0 DEF Seen, Phase
    <2>3. ASSUME NEW l \in {"parse", "mapped", "cookie", "fallback"}, Goto(r, l),
                 result' = result, \A q \in Requests \ {r} : shown'[q] = shown[q]
          PROVE  UNCHANGED Promise!vars
      <3>1. Phase' = Phase
        BY <1>0, <2>0, <2>3 DEF Goto, Phase, TypeOK
      <3>2. Seen' = Seen
        BY <1>0, <2>0, <2>3 DEF Goto, Seen, TypeOK
      <3> QED BY <2>0, <2>1, <2>3, <3>1, <3>2 DEF Promise!vars, Phase, Token, Seen
    <2>4. ASSUME NEW res, Return(r, res),
                 \A q \in Requests \ {r} : shown'[q] = shown[q]
          PROVE  /\ Phase' = [Phase EXCEPT ![r] = "decided"]
                 /\ Seen' = [Seen EXCEPT ![r] = shown'[r]]
                 /\ result' = [result EXCEPT ![r] = res]
      BY <1>0, <2>0, <2>4 DEF Return, Goto, Phase, Seen, TypeOK
    <2>5. CASE Source(r)
      <3>1. CASE Raw(r) = None
        <4>1. Return(r, "no_credential") /\ shown' = shown /\ shown[r] = None
          BY <1>0, <2>5, <3>1 DEF Source, CallInv
        <4>2. /\ Phase' = [Phase EXCEPT ![r] = "decided"]
              /\ Seen' = Seen
              /\ result' = [result EXCEPT ![r] = "no_credential"]
          BY <2>2, <2>4, <4>1 DEF Seen
        <4> QED BY <2>0, <2>1, <2>2, <3>1, <4>2 DEF Promise!Decide, Phase, Token, Seen
      <3>2. CASE Raw(r) # None
        BY <2>3, <2>5, <3>2 DEF Source
      <3> QED BY <3>1, <3>2
    <2>6. CASE Parse(r)
      <3>1. CASE Passes(r, Raw(r))
        BY <1>0, <2>3, <2>6, <3>1 DEF Parse, TypeOK
      <3>2. CASE ~Passes(r, Raw(r))
        <4>1. Return(r, "invalid_token") /\ shown' = shown /\ shown[r] = None
          BY <1>0, <2>6, <3>2 DEF Parse, CallInv
        <4>2. /\ Phase' = [Phase EXCEPT ![r] = "decided"]
              /\ Seen' = Seen
              /\ result' = [result EXCEPT ![r] = "invalid_token"]
          BY <2>2, <2>4, <4>1 DEF Seen
        <4>3. set[r] \in since[r]..keys /\ Raw(r) # None
          BY <1>0, <2>6 DEF Parse, CallInv
        <4>4. Promise!MayReject(r)
          BY <2>1, <3>2, <4>3 DEF Passes, Promise!MayReject, Promise!Valid, Valid, Token
        <4> QED BY <2>0, <2>1, <2>2, <4>2, <4>4 DEF Promise!Decide, Phase, Token, Seen
      <3> QED BY <3>1, <3>2
    <2>7. CASE LookForCookie(r)
      <3>1. result' = result /\ shown' = shown
            /\ \E l \in {"cookie", "fallback"} : Goto(r, l)
        BY <2>7 DEF LookForCookie
      <3> QED BY <2>3, <3>1
    <2>8. CASE ReadCookie(r)
      BY <1>0, <2>3, <2>8 DEF ReadCookie, TypeOK
    <2>9. CASE Fallback(r)
      <3>1. Accepted(r) /\ Raw(r) \in Tokens
        BY <1>0, <2>9 DEF Fallback, CallInv
      <3>2. PICK s \in {Raw(r).sub, None} :
              shown' = [shown EXCEPT ![r] = s] /\ (Raw(r).named => s # None)
        BY <2>9, <3>1 DEF Fallback, Accepted
      <3>3. shown'[r] = s /\ \A q \in Requests \ {r} : shown'[q] = shown[q]
        BY <1>0, <3>2 DEF TypeOK
      <3>4. /\ Phase' = [Phase EXCEPT ![r] = "decided"]
            /\ Seen' = [Seen EXCEPT ![r] = s]
            /\ result' = [result EXCEPT ![r] = "identity"]
        BY <2>4, <2>9, <3>3 DEF Fallback
      <3>5. Promise!MayAccept(r)
        BY <2>1, <3>1 DEF Accepted, Promise!MayAccept, Promise!Valid, Valid, Token
      <3> QED BY <2>0, <2>1, <2>2, <3>2, <3>4, <3>5 DEF Promise!Decide, Phase, Token, Seen
    <2> QED BY <1>2, <2>5, <2>6, <2>7, <2>8, <2>9 DEF Step
  <1>3. CASE Forget(r)
    <2>1. /\ pc[r] = "done" /\ pc' = [pc EXCEPT ![r] = "idle"]
          /\ headers' = [headers EXCEPT ![r] = NoHeaders]
          /\ since' = [since EXCEPT ![r] = 0]
          /\ dead' = [dead EXCEPT ![r] = {}]
          /\ result' = [result EXCEPT ![r] = "none"]
          /\ shown' = [shown EXCEPT ![r] = None]
          /\ UNCHANGED <<keys, version, expired, config>>
      BY <1>3 DEF Forget, Goto
    <2>2. Phase[r] = "decided" /\ Phase' = [Phase EXCEPT ![r] = "idle"]
      BY <1>0, <2>1 DEF Phase, TypeOK
    <2>3. Token' = [Token EXCEPT ![r] = None]
      BY <1>0, <2>1, NoHeadersNoToken DEF Token, Raw, TypeOK
    <2>4. Seen' = [Seen EXCEPT ![r] = None]
      BY <1>0, <2>1 DEF Seen, TypeOK
    <2> QED BY <2>1, <2>2, <2>3, <2>4 DEF Promise!Forget, Phase, Token, Seen
  <1> QED BY <1>1, <1>2, <1>3

\* The verifier implements Authn, for any number of calls: however rotations,
\* expiries and other calls interleave with it, a call accepts only a token
\* that passed against keys in place during the call, rejects only one that
\* failed against such keys, never fails because of the cookie or of userinfo,
\* and never shows the name of anyone but the token's subject.
THEOREM ImplementsAuthn == Spec => AuthnSpec
  <1>1. Inv /\ Inv' /\ [Next]_vars => [Promise!Next]_(Promise!vars)
    <2> SUFFICES ASSUME Inv, Inv', [Next]_vars PROVE [Promise!Next]_(Promise!vars)
      OBVIOUS
    <2>1. CASE Discover \/ NewKeySet \/ Refreshed \/ Published
               \/ (\E t \in Tokens : Expire(t))
      BY <2>1, EnvironmentImplements DEF Promise!Next
    <2>2. ASSUME NEW r \in Requests, Call(r) \/ Step(r) \/ Forget(r)
          PROVE  [Promise!Next]_(Promise!vars)
      BY <2>2, CallImplements DEF Promise!Next
    <2>3. CASE UNCHANGED vars
      BY <2>3 DEF vars, Promise!vars, Raw
    <2> QED BY <2>1, <2>2, <2>3 DEF Next
  <1> QED BY InitImplements, <1>1, Invariance, PTL DEF Spec, AuthnSpec, Promise!Spec
=============================================================================
