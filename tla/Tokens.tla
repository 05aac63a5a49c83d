------------------------------- MODULE Tokens -------------------------------
(***************************************************************************)
(* Access and ID tokens, the headers that carry them, and what verifying   *)
(* one means (source.go, claims.go and the parse method of verify.go).     *)
(*                                                                         *)
(* A token is a record: sub, the key that signed it, its issuer, the set   *)
(* of audiences and whether it carries a name or an email.  A header value *)
(* is a credential under a scheme; white space is trimmed by the code and  *)
(* is not represented.                                                     *)
(***************************************************************************)
EXTENDS Integers

CONSTANTS
    Tokens,      \* every token a request may carry
    Subjects,    \* the users of the provider
    None,        \* an absent header, cookie or token
    Issuer,      \* Config.Issuer
    KeysIn,      \* the keys of each version of the issuer's key set
    MaxVersion   \* bound: how many key sets the provider publishes

Versions == 1..MaxVersion

\* The sub of a token is one of its issuer's users, and no token, header value
\* or user is the absent one.
ASSUME TokensAssumption ==
    /\ \A t \in Tokens : t.sub \in Subjects /\ t.named \in BOOLEAN
    /\ None \notin Tokens /\ None \notin Subjects
    /\ \A t \in Tokens, scheme \in {"none", "bearer", "basic"} :
          None # [scheme |-> scheme, token |-> t]

ASSUME VersionsAssumption == MaxVersion \in Nat \ {0}

\* The Config fields that decide what a token must carry and where display
\* claims may come from; "" is no audience.
Configs == [audience : {"", "api"}, cookie : BOOLEAN, userinfo : BOOLEAN]

\* A header value: a bare token, or one behind an authentication scheme.
Values == [scheme : {"none", "bearer", "basic"}, token : Tokens]

Bare(t) == [scheme |-> "none", token |-> t]

Bearer(t) == [scheme |-> "bearer", token |-> t]

\* The three headers that are read: X-Auth-Request-Access-Token, which has no
\* scheme, Authorization, and the display cookie of Cookie.
HeaderSets == [accessToken   : {Bare(t) : t \in Tokens} \cup {None},
               authorization : Values \cup {None},
               cookie        : Tokens \cup {None}]

-----------------------------------------------------------------------------
\* HeaderSource.Token: the token behind the scheme; an absent header, or a
\* value under another scheme, is no credential.  A source without a scheme
\* takes the value as it is; its header only ever holds bare tokens.
HeaderSource(value, scheme) ==
    IF value # None /\ value.scheme = scheme THEN value.token ELSE None

\* ChainSource.Token over two sources: the first credential found.
ChainSource(first, second) ==
    IF first # None THEN first ELSE second

\* DefaultSource: the proxy's header before Authorization.
DefaultSource(h) ==
    ChainSource(HeaderSource(h.accessToken, "none"),
                HeaderSource(h.authorization, "bearer"))

\* Mutant: the proxy's header is not looked at.
ForwardAuthorizationOnly(h) == h.authorization

\* ForwardAuthorization: the Authorization header verbatim, whatever its
\* scheme, before the proxy's header behind "Bearer ".
ForwardAuthorization(h) ==
    IF h.authorization # None THEN h.authorization
    ELSE IF h.accessToken # None THEN Bearer(h.accessToken.token)
    ELSE None

\* jwt.ParseString, expiry apart: a signature by a key of version v, the
\* issuer, and the audience if one is configured.
Valid(t, v, audience) ==
    /\ t.key \in KeysIn[v]
    /\ t.iss = Issuer
    /\ audience # "" => audience \in t.aud
=============================================================================
