------------------------------ MODULE Adapters ------------------------------
(***************************************************************************)
(* The framework adapters (adapters/fibermw, adapters/humamw,              *)
(* adapters/connectmw, ts/src/adapters.ts): a request goes through a stack *)
(* of middlewares, each of which authenticates it again and maps its       *)
(* claims again, before it reaches the handler.  The credential may        *)
(* expire, and the authenticator's keys may lose it, between two of them;  *)
(* the TypeScript verifier may also be unable to verify it for a while.    *)
(*                                                                         *)
(* A middleware is a record: its kind, the roles it was given (a set), and *)
(* for Huma the operation's security requirements, each of them the roles  *)
(* listed under SchemeName, or None for a requirement of another scheme.   *)
(***************************************************************************)
EXTENDS Claims

CONSTANTS
    Stacks,   \* the stacks of middlewares that routes may have
    Issued,   \* the values of a roles claim, each with the groups it is for
    Sent      \* the groups headers of the proxy, likewise

Middlewares ==
    [kind : {"fiber.Require", "fiber.Optional", "connect.Interceptor",
             "connect.OptionalInterceptor", "ts.middleware"}]
        \cup [kind : {"fiber.RequireRoles", "ts.requireRoles"}, roles : SUBSET Roles]
        \cup [kind : {"huma"}, security : Seq({None} \cup SUBSET Roles)]

Ts(m) == m.kind \in {"ts.middleware", "ts.requireRoles"}

\* Connect's and Huma's middlewares, whose handlers know nothing of Fiber.
Inner(m) == m.kind \in {"connect.Interceptor", "connect.OptionalInterceptor", "huma"}

\* A stack is of one program, TypeScript or Go, and of the latter's frameworks
\* Fiber is the outer one.
ASSUME StacksAssumption ==
    /\ Stacks \subseteq Seq(Middlewares)
    /\ \A s \in Stacks : \A i, j \in DOMAIN s :
          /\ Ts(s[i]) <=> Ts(s[j])
          /\ i < j /\ Inner(s[i]) => Inner(s[j])

\* A claim or a header stands for the groups whose names are in it; an object
\* may have any groups in it, under names of its own (realm_access.roles).
ASSUME EncodingsAssumption ==
    /\ "" \notin Roles /\ None \notin Roles
    /\ \A roles \in SUBSET Roles : roles # None
    /\ \A i \in Issued : i.raw = None => i.groups = {}
    /\ \A i \in Issued : i.raw # None =>
          \/ i.raw \in {Str(""), Other} /\ i.groups = {}
          \/ i.raw = Object /\ i.groups \subseteq Roles
          \/ \E role \in Roles : i.raw = Str(role) /\ i.groups = {role}
          \/ /\ i.raw = Array(i.raw.items) /\ i.raw.items \in Seq(Roles \cup {None})
             /\ i.groups = {i.raw.items[k] : k \in DOMAIN i.raw.items} \ {None}
    /\ \A s \in Sent :
          /\ s.parts \in Seq([text : Roles \cup {""}, padded : BOOLEAN])
          /\ s.groups = {s.parts[k].text : k \in DOMAIN s.parts} \ {""}

VARIABLES
    mode,     \* which Authenticator the service was built with
    mapper,   \* Config.Claims of the verifier
    devRoles, \* the roles NewDisabled was given
    stack,    \* the middlewares of the route
    reader,   \* where the handler looks: "locals" (From, req.identity) or "context"
    at,       \* the middleware whose turn it is
    caller,   \* the request: its credential, the caller's groups, claims, header
    locals,   \* the identity in Fiber's Locals or in req.identity, or None
    context,  \* the identity in the request's context, or None
    outcome   \* "running", the status of the response, or "handled"

setup == <<mode, mapper, devRoles, stack, reader>>
vars == <<setup, at, caller, locals, context, outcome>>

Modes == {"verifier", "trust", "disabled"}

Mappers == [name : {""}, email : {""}, roles : {"", "roles", "realm_access"}]

DevRoles == {<<>>} \cup {<<role>> : role \in Roles}

\* A token that is valid may be one that the verifier cannot verify for now.
Credentials == {"absent", "invalid", "valid", "unverifiable"}

\* External: the provider asserts the groups under the claim that the mapper
\* was told of, and something else under the other; the email is no string.
TokenWith(m, raw) ==
    LET named == IF m.roles = "" THEN "groups" ELSE m.roles
        decoy == IF m.roles = "" THEN "roles" ELSE "groups"
        names == {"name", "email", decoy} \cup (IF raw = None THEN {} ELSE {named})
    IN  [c \in names |-> CASE c = "name"  -> Str("ann")
                           [] c = "email" -> Other
                           [] c = decoy   -> Str("decoy")
                           [] OTHER       -> raw]

\* External: what a request carries.  Only the verifier looks into a token
\* and only header trust at the groups header.
Caller(credential, groups, token, header) ==
    [credential |-> credential, groups |-> groups, token |-> token,
     header |-> header]

NoToken == [c \in {} |-> None]

Callers ==
    {Caller(c, {}, NoToken, <<>>) : c \in {"absent", "invalid"}}
        \cup {Caller("valid", s.groups, NoToken, s.parts) :
                 s \in IF mode = "trust" THEN Sent ELSE {}}
        \cup {Caller("valid", i.groups, TokenWith(mapper, i.raw), <<>>) :
                 i \in IF mode = "verifier" THEN Issued ELSE {}}

-----------------------------------------------------------------------------
\* Enabled: only the disabled authenticator verifies nothing.
Enabled == mode # "disabled"

\* disabled.Authenticate: a fixed identity, in which NewDisabled put the roles.
Disabled(roles) == [name |-> "local operator", email |-> "local@localhost",
                    roles |-> roles, claims |-> NoToken]

\* headerTrust.Authenticate: the identity headers as they are.
HeaderTrust(header) == [name |-> "ann", email |-> "",
                        roles |-> SplitAndTrim(header), claims |-> NoToken]

\* Every identity that an authenticator returns.
Identities ==
    {Disabled(roles) : roles \in DevRoles}
        \cup {HeaderTrust(s.parts) : s \in Sent}
        \cup {IdentityOf(m, TokenWith(m, i.raw)) : m \in Mappers, i \in Issued}

ASSUME IdentitiesAssumption == None \notin Identities

\* Authenticate of the three authenticators: header trust accepts any identity
\* headers, the verifier a valid token that it can verify.  None stands for any
\* error, a sentinel or not: every adapter answers it with 401.
Authenticate ==
    CASE mode = "disabled" -> Disabled(devRoles)
      [] mode = "trust" /\ caller.credential = "valid" -> HeaderTrust(caller.header)
      [] mode = "verifier" /\ caller.credential = "valid" ->
             IdentityOf(mapper, caller.token)
      [] OTHER -> None

\* Which handlers a stack may end in: Connect's and Huma's read the context,
\* those of TypeScript the request, and behind Fiber there are Fiber's own
\* handlers and adapted net/http ones.
Readers(s) ==
    IF s = <<>> THEN {"locals", "context"}
    ELSE CASE Ts(s[Len(s)]) -> {"locals"}
           [] Inner(s[Len(s)]) -> {"context"}
           [] OTHER -> {"locals", "context"}

Init ==
    /\ mode \in Modes
    /\ mapper \in Mappers
    /\ devRoles \in DevRoles
    /\ mode # "verifier" => mapper.roles = ""
    /\ mode # "disabled" => devRoles = <<>>
    /\ stack \in Stacks
    /\ reader \in Readers(stack)
    /\ at = 1
    /\ caller \in Callers
    /\ locals = None /\ context = None
    /\ outcome = "running"


\* statusFor, sendAuthError, huma.WriteErr, connect.NewError.
Reject(status) ==
    /\ outcome' = status
    /\ UNCHANGED <<setup, at, caller, locals, context>>

\* Mutant: next is called twice.
NextTwice == at' = at + 2 /\ UNCHANGED <<setup, caller, outcome>>

\* c.Next, next: the turn of the next middleware, or of the handler.
CallNext == at' = at + 1 /\ UNCHANGED <<setup, caller, outcome>>

\* Mutant: the identity is only put where Fiber's own handlers look.
AttachLocals(identity) == locals' = identity /\ UNCHANGED context

\* attach of fibermw: both kinds of handler find the identity.
Attach(identity) == locals' = identity /\ context' = identity

\* gatewayauth.WithIdentity: a derived context, whose value hides an earlier
\* one; FromContext finds it.
WithIdentity(identity) == context' = identity /\ UNCHANGED locals

\* The middleware whose turn it is has this kind.
Turn(kind) ==
    /\ outcome = "running"
    /\ at <= Len(stack)
    /\ stack[at].kind = kind

Here == stack[at]

(***************************************************************************)
(* The middlewares.                                                        *)
(***************************************************************************)
\* fibermw.Require.
Require ==
    /\ Turn("fiber.Require")
    /\ IF Authenticate = None THEN Reject("401")
                              ELSE Attach(Authenticate) /\ CallNext

\* fibermw.Optional: after an error the request goes on with what an earlier
\* middleware attached, if anything.
Optional ==
    /\ Turn("fiber.Optional")
    /\ IF Authenticate = None THEN UNCHANGED <<locals, context>>
                              ELSE Attach(Authenticate)
    /\ CallNext

\* Mutant: the caller must hold all of the roles.
LacksRolesAll(roles) == Enabled /\ \E role \in roles : ~HasRole(Authenticate, role)

\* The role check that RequireRoles, requireRoles and Huma share.
LacksRoles(roles) == Enabled /\ ~HasAnyRole(Authenticate, roles)

\* fibermw.RequireRoles: no roles at all are held by nobody.
RequireRoles ==
    /\ Turn("fiber.RequireRoles")
    /\ IF Authenticate = None THEN Reject("401")
       ELSE IF LacksRoles(Here.roles) THEN Reject("403")
       ELSE Attach(Authenticate) /\ CallNext

\* connectmw.Interceptor.
Interceptor ==
    /\ Turn("connect.Interceptor")
    /\ IF Authenticate = None THEN Reject("401")
                              ELSE WithIdentity(Authenticate) /\ CallNext

\* connectmw.OptionalInterceptor.
OptionalInterceptor ==
    /\ Turn("connect.OptionalInterceptor")
    /\ IF Authenticate = None THEN UNCHANGED <<locals, context>>
                              ELSE WithIdentity(Authenticate)
    /\ CallNext

\* req.identity of adapters.ts.
SetReqIdentity(identity) == locals' = identity /\ UNCHANGED context

\* middleware of adapters.ts.
TsMiddleware ==
    /\ Turn("ts.middleware")
    /\ IF Authenticate = None THEN Reject("401")
                              ELSE SetReqIdentity(Authenticate) /\ CallNext

\* requireRoles of adapters.ts: an empty list of roles is not checked.
TsRequireRoles ==
    /\ Turn("ts.requireRoles")
    /\ IF Authenticate = None THEN Reject("401")
       ELSE IF Here.roles # {} /\ LacksRoles(Here.roles) THEN Reject("403")
       ELSE SetReqIdentity(Authenticate) /\ CallNext

\* requiredRoles of humamw: the first requirement that names the scheme, or
\* None.
RequiredRoles(security) ==
    LET named == {i \in DOMAIN security : security[i] # None}
    IN  IF named = {} THEN None
        ELSE security[CHOOSE i \in named : \A j \in named : i <= j]

\* The middleware of humamw; an operation that does not name the scheme is
\* anonymous, one that names it without roles is open to any caller.
Huma ==
    /\ Turn("huma")
    /\ LET roles == RequiredRoles(Here.security)
       IN  IF roles = None THEN CallNext /\ UNCHANGED <<locals, context>>
           ELSE IF Authenticate = None THEN Reject("401")
           ELSE IF roles # {} /\ LacksRoles(roles) THEN Reject("403")
           ELSE WithIdentity(Authenticate) /\ CallNext

\* What the handler finds: From or req.identity, or FromContext.
Seen == IF reader = "locals" THEN locals ELSE context

\* The handler runs.
Handle ==
    /\ outcome = "running"
    /\ at > Len(stack)
    /\ outcome' = "handled"
    /\ UNCHANGED <<setup, at, caller, locals, context>>

\* External: the token expires, or its key is withdrawn, on the way through
\* the stack.
Expire ==
    /\ outcome = "running"
    /\ mode = "verifier"
    /\ caller.credential \in {"valid", "unverifiable"}
    /\ caller' = [caller EXCEPT !.credential = "invalid"]
    /\ UNCHANGED <<setup, at, locals, context, outcome>>

\* The program that the stack belongs to is one in TypeScript.
InTypeScript == \E i \in DOMAIN stack : Ts(stack[i])

\* The credential becomes one that the verifier can, or cannot, verify.
Verifiability(from, to) ==
    /\ outcome = "running"
    /\ mode = "verifier"
    /\ InTypeScript
    /\ caller.credential = from
    /\ caller' = [caller EXCEPT !.credential = to]
    /\ UNCHANGED <<setup, at, locals, context, outcome>>

\* The TypeScript verifier cannot verify a valid token: jose cannot fetch the
\* keys, which is an InvalidTokenError, or userinfo answers null, which is a
\* TypeError.  The Go verifier has its keys at hand (a token that these do not
\* verify is invalid) and drops what userinfo answers.
Fault == Verifiability("valid", "unverifiable")

\* External: the provider is well again.
Recover == Verifiability("unverifiable", "valid")

Step ==
    \/ Require \/ Optional \/ RequireRoles
    \/ Interceptor \/ OptionalInterceptor
    \/ TsMiddleware \/ TsRequireRoles
    \/ Huma \/ Handle

Next == Step \/ Expire \/ Fault \/ Recover

\* The framework calls the middlewares and the handler.
Spec == Init /\ [][Next]_vars /\ WF_vars(Step)

-----------------------------------------------------------------------------
\* None, or an identity whose roles are strings.
IsIdentity(i) ==
    \/ i = None
    \/ /\ DOMAIN i = {"name", "email", "roles", "claims"}
       /\ i.roles \in Seq(Roles \cup {""})

\* Every variable has its type.
TypeOK ==
    /\ mode \in Modes
    /\ mapper \in Mappers
    /\ devRoles \in Seq(Roles)
    /\ stack \in Stacks
    /\ reader \in {"locals", "context"}
    /\ at \in 1..Len(stack) + 1
    /\ caller.credential \in Credentials /\ caller.groups \subseteq Roles
    /\ IsIdentity(locals) /\ IsIdentity(context)
    /\ outcome \in {"running", "401", "403", "handled"}

\* The roles a middleware insists on: a set of which the caller must hold one,
\* None if it does not insist on an identity.
Insists(m) ==
    CASE m.kind \in {"fiber.Require", "connect.Interceptor", "ts.middleware"} -> {}
      [] m.kind \in {"fiber.RequireRoles", "ts.requireRoles"} -> m.roles
      [] m.kind = "huma" -> RequiredRoles(m.security)
      [] OTHER -> None

\* A handler behind a middleware that insists on an identity finds one, be it
\* Fiber's own or an adapted net/http handler behind Fiber's middlewares, and
\* also when the credential expires before a later, optional middleware sees
\* it.
HandlerSeesIdentity ==
    outcome = "handled" /\ (\E i \in DOMAIN stack : Insists(stack[i]) # None)
        => Seen # None

\* A handler behind several role checks finds an identity that satisfies all
\* of them, not just the last one, unless authentication is disabled.
EveryRoleCheckHolds ==
    outcome = "handled" /\ Enabled
        => \A i \in DOMAIN stack :
              LET roles == Insists(stack[i])
              IN  \/ roles = None
                  \/ roles = {} /\ stack[i].kind # "fiber.RequireRoles"
                  \/ HasAnyRole(Seen, roles)

\* The claim that the mapper reads is an object.
Nested ==
    LET name == WithDefaults(mapper).roles
    IN  name \in DOMAIN caller.token /\ caller.token[name].shape = "object"

\* Whatever the provider puts into the configured claim, and however the proxy
\* writes the groups into its header, the handler's caller holds no role that
\* was not asserted, and holds all that were unless they are inside an object:
\* as a string, in an array in any order and next to items of other types, or
\* in a header with blanks ("getting this wrong silently strips everyone's
\* role", claims.go).
RolesArrive ==
    outcome = "handled" /\ Enabled /\ Seen # None
        => \A role \in Roles :
              /\ HasRole(Seen, role) => role \in caller.groups
              /\ role \in caller.groups => HasRole(Seen, role) \/ Nested

\* With the roles claim pointed at realm_access, as ClaimsMapper suggests for
\* providers that put the roles into an object of that name, the roles arrive.
RealmAccessArrives ==
    outcome = "handled" /\ mapper.roles = "realm_access" /\ Seen # None
        => \A role \in caller.groups : HasRole(Seen, role)

\* Nobody is answered 403 while holding one of the roles that the middleware
\* asked for, unless they are inside an object; 401 only goes to those without a
\* credential or with one that is invalid or has expired on the way, and in
\* TypeScript to those whose credential cannot be verified for now: the Go
\* middlewares refuse only what the keys at hand do not verify.
RefusedForAReason ==
    /\ outcome = "403" =>
          /\ Enabled /\ Insists(Here) # None
          /\ caller.groups \cap Insists(Here) = {} \/ Nested
    /\ outcome = "401" =>
          /\ Enabled
          /\ \/ caller.credential \in {"absent", "invalid"}
             \/ caller.credential = "unverifiable" /\ Ts(Here)

\* Requiring at least one of the roles admits nobody who holds none of them,
\* whichever list of roles it is: stated by the comment of RequireRoles and,
\* in the same words, of requireRoles.
HoldsOneOfTheRoles ==
    outcome = "handled" /\ Enabled
        => \A i \in DOMAIN stack :
              stack[i].kind \in {"fiber.RequireRoles", "ts.requireRoles"}
                  => HasAnyRole(Seen, stack[i].roles)

=============================================================================
