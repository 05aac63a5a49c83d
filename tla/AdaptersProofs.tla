--------------------------- MODULE AdaptersProofs ---------------------------
(***************************************************************************)
(* Proofs about Adapters, for stacks of any length, any roles and any      *)
(* encodings of the caller's groups.                                       *)
(***************************************************************************)
EXTENDS Adapters, ClaimsProofs, TLAPS

\* The identity that every middleware of the stack gets, as long as the
\* credential is valid: nothing on the way changes it.
Current ==
    IF mode = "disabled" THEN Disabled(devRoles)
    ELSE IF mode = "trust" THEN HeaderTrust(caller.header)
    ELSE IdentityOf(mapper, caller.token)

\* The role check of a middleware, if it has one.
Holds(m) ==
    \/ ~Enabled
    \/ Insists(m) = None
    \/ Insists(m) = {} /\ m.kind # "fiber.RequireRoles"
    \/ HasAnyRole(Current, Insists(m))

\* Every middleware that has had its turn and insists on an identity has put
\* it where the handler looks, and its role check held.
PassedInv ==
    \A i \in DOMAIN stack :
        i < at => /\ Insists(stack[i]) # None => Seen # None
                  /\ Holds(stack[i])

SetupInv ==
    /\ mode \in Modes /\ mapper \in Mappers /\ devRoles \in DevRoles
    /\ stack \in Stacks /\ reader \in Readers(stack)

RequestInv ==
    /\ at \in 1..Len(stack) + 1
    /\ caller = Caller(caller.credential, caller.groups, caller.token, caller.header)
    /\ caller.credential \in Credentials
    /\ caller.credential = "unverifiable" => mode = "verifier" /\ InTypeScript
    /\ outcome \in {"running", "401", "403", "handled"}
    /\ outcome = "handled" => at > Len(stack)
    /\ outcome \in {"401", "403"} => at \in DOMAIN stack

\* Nobody but the caller is found anywhere.
PlacesInv == locals \in {None, Current} /\ context \in {None, Current}

Inv == SetupInv /\ RequestInv /\ PlacesInv /\ PassedInv

\* What is known of the identity: its type, and that it holds exactly the
\* caller's groups unless these are inside an object.
Vouched ==
    /\ DOMAIN Current = {"name", "email", "roles", "claims"}
    /\ Current.roles \in Seq(Roles \cup {""})
    /\ Current # None
    /\ Enabled =>
          \A role \in Roles :
              /\ HasRole(Current, role) => role \in caller.groups
              /\ role \in caller.groups => HasRole(Current, role) \/ Nested

\* An identity that may still be had, or has been put somewhere, is vouched
\* for; a refusal has its reason.
RolesInv ==
    /\ caller.groups \subseteq Roles
    /\ \/ caller.credential \in {"valid", "unverifiable"} \/ ~Enabled
       \/ locals # None \/ context # None
       => Vouched
    /\ RefusedForAReason

USE DEF setup

-----------------------------------------------------------------------------
(***************************************************************************)
(* The stack and its middlewares.                                          *)
(***************************************************************************)

\* A stack is a sequence of middlewares.
LEMMA StackIsSequence ==
    ASSUME SetupInv
    PROVE  /\ Len(stack) \in Nat /\ DOMAIN stack = 1..Len(stack)
           /\ \A i \in DOMAIN stack : stack[i] \in Middlewares
  <1>1. stack \in Seq(Middlewares)
    BY StacksAssumption DEF SetupInv
  <1> QED BY <1>1

\* A middleware that was given roles was given a set of them.
LEMMA RolesArePresent ==
    ASSUME NEW m \in Middlewares, m.kind \in {"fiber.RequireRoles", "ts.requireRoles"}
    PROVE  m.roles # None
  <1>1. m.roles \in SUBSET Roles
    BY DEF Middlewares
  <1> QED BY <1>1, EncodingsAssumption

\* The handler looks where the middlewares of its own framework attach; behind
\* Fiber's it may look in either place.
LEMMA ReaderFits ==
    ASSUME SetupInv, NEW i \in DOMAIN stack
    PROVE  /\ Ts(stack[i]) => reader = "locals"
           /\ Inner(stack[i]) => reader = "context"
  <1>1. /\ Len(stack) \in Nat /\ i \in 1..Len(stack) /\ Len(stack) \in DOMAIN stack
        /\ stack # <<>>
    BY StackIsSequence
  <1>2. Ts(stack[i]) <=> Ts(stack[Len(stack)])
    BY <1>1, StacksAssumption DEF SetupInv
  <1>3. Inner(stack[i]) => Inner(stack[Len(stack)])
    BY <1>1, StacksAssumption DEF SetupInv
  <1>4. ~(Ts(stack[Len(stack)]) /\ Inner(stack[Len(stack)]))
    BY DEF Ts, Inner
  <1>5. reader \in Readers(stack)
    BY DEF SetupInv
  <1>6. Ts(stack[Len(stack)]) => Readers(stack) = {"locals"}
    BY <1>1, <1>4 DEF Readers
  <1>7. Inner(stack[Len(stack)]) => Readers(stack) = {"context"}
    BY <1>1, <1>4 DEF Readers
  <1> QED BY <1>2, <1>3, <1>5, <1>6, <1>7

\* There are two places to look.
LEMMA ReaderIsPlace ==
    ASSUME SetupInv
    PROVE  reader \in {"locals", "context"}
  BY DEF SetupInv, Readers

\* An authenticator returns the same identity or an error.
LEMMA AuthenticateIs ==
    ASSUME mode \in Modes
    PROVE  Authenticate = IF mode = "disabled" \/ caller.credential = "valid"
                            THEN Current ELSE None
  BY DEF Modes, Authenticate, Current

\* What the middleware whose turn it is does, of four things: it answers 401,
\* it answers 403, it lets the request pass without an identity, or with one
\* that the handler finds if the middleware insists on it.
Refuses401 == Authenticate = None /\ Reject("401")

Refuses403 ==
    /\ Authenticate # None /\ Enabled
    /\ Insists(Here) # None /\ ~HasAnyRole(Authenticate, Insists(Here))
    /\ Reject("403")

Skips == Insists(Here) = None /\ UNCHANGED <<locals, context>> /\ CallNext

Admits ==
    /\ Authenticate # None /\ Holds(Here)
    /\ locals' = locals \/ locals' = Authenticate
    /\ context' = context \/ context' = Authenticate
    /\ Insists(Here) # None => Seen' = Authenticate
    /\ CallNext

Middleware ==
    \/ Require \/ Optional \/ RequireRoles \/ Interceptor \/ OptionalInterceptor
    \/ TsMiddleware \/ TsRequireRoles \/ Huma

\* A middleware that may ask for roles and has found that one is held, or that
\* it asks for none.
LEMMA HoldsIfNotLacking ==
    ASSUME mode \in Modes, Authenticate # None,
           \/ ~LacksRoles(Insists(Here))
           \/ Insists(Here) = {} /\ Here.kind # "fiber.RequireRoles"
    PROVE  Holds(Here)
  BY AuthenticateIs DEF Holds, LacksRoles, Enabled

\* Every middleware, of whichever framework, does one of the four.
LEMMA MiddlewareForms ==
    ASSUME SetupInv, at \in 1..Len(stack) + 1, Middleware
    PROVE  /\ outcome = "running" /\ at \in DOMAIN stack
           /\ Refuses401 \/ Refuses403 \/ Skips \/ Admits
  <1>0. outcome = "running" /\ at \in DOMAIN stack
    BY StackIsSequence DEF Middleware, Require, Optional, RequireRoles, Interceptor,
       OptionalInterceptor, TsMiddleware, TsRequireRoles, Huma, Turn
  <1>1. Here \in Middlewares /\ mode \in Modes
    BY <1>0, StackIsSequence DEF Here, SetupInv
  <1>2. /\ Ts(Here) => reader = "locals"
        /\ Inner(Here) => reader = "context"
        /\ reader \in {"locals", "context"}
    BY <1>0, ReaderFits, ReaderIsPlace DEF Here
  <1>3. CASE Require
    <2>1. Here.kind = "fiber.Require" /\ Insists(Here) = {}
      BY <1>3 DEF Require, Turn, Here, Insists
    <2>2. CASE Authenticate = None
      BY <1>0, <1>3, <2>2 DEF Require, Refuses401
    <2>3. CASE Authenticate # None
      <3>1. Attach(Authenticate) /\ CallNext
        BY <1>3, <2>3 DEF Require
      <3>2. Seen' = Authenticate
        BY <1>2, <3>1 DEF Attach, CallNext, Seen
      <3>3. Holds(Here)
        BY <2>1 DEF Holds
      <3> QED BY <1>0, <2>3, <3>1, <3>2, <3>3 DEF Attach, Admits
    <2> QED BY <1>0, <2>2, <2>3
  <1>4. CASE Optional
    <2>1. Here.kind = "fiber.Optional" /\ Insists(Here) = None
      BY <1>4 DEF Optional, Turn, Here, Insists
    <2>2. CallNext /\ \/ UNCHANGED <<locals, context>>
                      \/ Authenticate # None /\ Attach(Authenticate)
      BY <1>4 DEF Optional
    <2> QED BY <1>0, <2>1, <2>2 DEF Skips, Admits, Attach, Holds
  <1>5. CASE RequireRoles
    <2>1. Here.kind = "fiber.RequireRoles" /\ Insists(Here) = Here.roles
      BY <1>5 DEF RequireRoles, Turn, Here, Insists
    <2>2. Insists(Here) # None
      BY <1>1, <2>1, RolesArePresent
    <2>3. CASE Authenticate = None
      BY <1>0, <1>5, <2>3 DEF RequireRoles, Refuses401
    <2>4. CASE Authenticate # None /\ LacksRoles(Here.roles)
      BY <1>0, <1>5, <2>1, <2>2, <2>4 DEF RequireRoles, Refuses403, LacksRoles
    <2>5. CASE Authenticate # None /\ ~LacksRoles(Here.roles)
      <3>1. Attach(Authenticate) /\ CallNext
        BY <1>5, <2>5 DEF RequireRoles
      <3>2. Seen' = Authenticate
        BY <1>2, <3>1 DEF Attach, CallNext, Seen
      <3>3. Holds(Here)
        BY <1>1, <2>1, <2>5, HoldsIfNotLacking
      <3> QED BY <1>0, <2>5, <3>1, <3>2, <3>3 DEF Attach, Admits
    <2> QED BY <1>0, <2>3, <2>4, <2>5
  <1>6. CASE Interceptor
    <2>1. Here.kind = "connect.Interceptor" /\ Insists(Here) = {} /\ Inner(Here)
      BY <1>6 DEF Interceptor, Turn, Here, Insists, Inner
    <2>2. CASE Authenticate = None
      BY <1>0, <1>6, <2>2 DEF Interceptor, Refuses401
    <2>3. CASE Authenticate # None
      <3>1. WithIdentity(Authenticate) /\ CallNext
        BY <1>6, <2>3 DEF Interceptor
      <3>2. Seen' = Authenticate
        BY <1>2, <2>1, <3>1 DEF WithIdentity, CallNext, Seen
      <3>3. Holds(Here)
        BY <2>1 DEF Holds
      <3> QED BY <1>0, <2>3, <3>1, <3>2, <3>3 DEF WithIdentity, Admits
    <2> QED BY <1>0, <2>2, <2>3
  <1>7. CASE OptionalInterceptor
    <2>1. Here.kind = "connect.OptionalInterceptor" /\ Insists(Here) = None
      BY <1>7 DEF OptionalInterceptor, Turn, Here, Insists
    <2>2. CallNext /\ \/ UNCHANGED <<locals, context>>
                      \/ Authenticate # None /\ WithIdentity(Authenticate)
      BY <1>7 DEF OptionalInterceptor
    <2> QED BY <1>0, <2>1, <2>2 DEF Skips, Admits, WithIdentity, Holds
  <1>8. CASE TsMiddleware
    <2>1. Here.kind = "ts.middleware" /\ Insists(Here) = {} /\ Ts(Here)
      BY <1>8 DEF TsMiddleware, Turn, Here, Insists, Ts
    <2>2. CASE Authenticate = None
      BY <1>0, <1>8, <2>2 DEF TsMiddleware, Refuses401
    <2>3. CASE Authenticate # None
      <3>1. SetReqIdentity(Authenticate) /\ CallNext
        BY <1>8, <2>3 DEF TsMiddleware
      <3>2. Seen' = Authenticate
        BY <1>2, <2>1, <3>1 DEF SetReqIdentity, CallNext, Seen
      <3>3. Holds(Here)
        BY <2>1 DEF Holds
      <3> QED BY <1>0, <2>3, <3>1, <3>2, <3>3 DEF SetReqIdentity, Admits
    <2> QED BY <1>0, <2>2, <2>3
  <1>9. CASE TsRequireRoles
    <2>1. Here.kind = "ts.requireRoles" /\ Insists(Here) = Here.roles /\ Ts(Here)
      BY <1>9 DEF TsRequireRoles, Turn, Here, Insists, Ts
    <2>2. Insists(Here) # None
      BY <1>1, <2>1, RolesArePresent
    <2>3. CASE Authenticate = None
      BY <1>0, <1>9, <2>3 DEF TsRequireRoles, Refuses401
    <2>4. CASE Authenticate # None /\ Here.roles # {} /\ LacksRoles(Here.roles)
      BY <1>0, <1>9, <2>1, <2>2, <2>4 DEF TsRequireRoles, Refuses403, LacksRoles
    <2>5. CASE Authenticate # None /\ ~(Here.roles # {} /\ LacksRoles(Here.roles))
      <3>1. SetReqIdentity(Authenticate) /\ CallNext
        BY <1>9, <2>5 DEF TsRequireRoles
      <3>2. Seen' = Authenticate
        BY <1>2, <2>1, <3>1 DEF SetReqIdentity, CallNext, Seen
      <3>3. Holds(Here)
        BY <1>1, <2>1, <2>5, HoldsIfNotLacking
      <3> QED BY <1>0, <2>5, <3>1, <3>2, <3>3 DEF SetReqIdentity, Admits
    <2> QED BY <1>0, <2>3, <2>4, <2>5
  <1>10. CASE Huma
    <2> DEFINE roles == RequiredRoles(Here.security)
    <2>1. Here.kind = "huma" /\ Insists(Here) = roles /\ Inner(Here)
      BY <1>10 DEF Huma, Turn, Here, Insists, Inner
    <2>2. CASE roles = None
      BY <1>0, <1>10, <2>1, <2>2 DEF Huma, Skips
    <2>3. CASE roles # None /\ Authenticate = None
      BY <1>0, <1>10, <2>3 DEF Huma, Refuses401
    <2>4. CASE roles # None /\ Authenticate # None /\ roles # {} /\ LacksRoles(roles)
      BY <1>0, <1>10, <2>1, <2>4 DEF Huma, Refuses403, LacksRoles
    <2>5. CASE roles # None /\ Authenticate # None /\ ~(roles # {} /\ LacksRoles(roles))
      <3>1. WithIdentity(Authenticate) /\ CallNext
        BY <1>10, <2>5 DEF Huma
      <3>2. Seen' = Authenticate
        BY <1>2, <2>1, <3>1 DEF WithIdentity, CallNext, Seen
      <3>3. Holds(Here)
        BY <1>1, <2>1, <2>5, HoldsIfNotLacking
      <3> QED BY <1>0, <2>5, <3>1, <3>2, <3>3 DEF WithIdentity, Admits
    <2> QED BY <1>0, <2>2, <2>3, <2>4, <2>5
  <1> QED BY <1>3, <1>4, <1>5, <1>6, <1>7, <1>8, <1>9, <1>10 DEF Middleware

-----------------------------------------------------------------------------
(***************************************************************************)
(* The invariant.                                                          *)
(***************************************************************************)

\* The invariant holds when the request reaches the first middleware.
LEMMA InitInv == Init => Inv
  <1> SUFFICES ASSUME Init PROVE Inv
    OBVIOUS
  <1>1. SetupInv
    BY DEF Init, SetupInv
  <1>2. \E c \in {"absent", "invalid", "valid"} : \E g, t, h : caller = Caller(c, g, t, h)
    BY DEF Init, Callers
  <1>3. /\ caller = Caller(caller.credential, caller.groups, caller.token, caller.header)
        /\ caller.credential \in {"absent", "invalid", "valid"}
    <2>1. PICK c \in {"absent", "invalid", "valid"} : \E g, t, h : caller = Caller(c, g, t, h)
      BY <1>2
    <2>2. PICK g, t, h : caller = Caller(c, g, t, h)
      BY <2>1
    <2> QED BY <2>2 DEF Caller
  <1>4. at = 1 /\ locals = None /\ context = None /\ outcome = "running"
    BY DEF Init
  <1>5. RequestInv
    BY <1>1, <1>3, <1>4, StackIsSequence DEF RequestInv, Credentials
  <1>6. PassedInv
    BY <1>1, <1>4, StackIsSequence DEF PassedInv
  <1> QED BY <1>1, <1>4, <1>5, <1>6 DEF Inv, PlacesInv

\* What a step that neither replaces the credential nor the setup keeps.
LEMMA SameCaller ==
    ASSUME UNCHANGED <<setup, caller>>
    PROVE  /\ Current' = Current /\ Authenticate' = Authenticate /\ Enabled' = Enabled
           /\ Nested' = Nested
           /\ \A i \in DOMAIN stack : Holds(stack[i])' = Holds(stack[i])
  <1>1. Current' = Current
    BY DEF Current, Disabled, HeaderTrust
  <1>2. Authenticate' = Authenticate
    BY DEF Authenticate, Disabled, HeaderTrust
  <1>3. Enabled' = Enabled
    BY DEF Enabled
  <1>4. Nested' = Nested
    BY DEF Nested
  <1> QED BY <1>1, <1>2, <1>3, <1>4 DEF Holds

\* The credential expires, cannot be verified for a while, or can again.
Changes == Expire \/ Fault \/ Recover

\* Such a step changes nothing else of the caller.
LEMMA OnlyCredentialChanges ==
    ASSUME RequestInv, Changes
    PROVE  /\ UNCHANGED <<setup, at, locals, context, outcome>> /\ outcome = "running"
           /\ caller.credential \in {"valid", "unverifiable"}
           /\ caller'.credential \in {"invalid", "valid", "unverifiable"}
           /\ caller'.credential = "unverifiable" => mode = "verifier" /\ InTypeScript
           /\ caller' = Caller(caller'.credential, caller.groups, caller.token, caller.header)
           /\ caller'.groups = caller.groups /\ caller'.token = caller.token
           /\ caller'.header = caller.header
           /\ Current' = Current /\ Enabled' = Enabled /\ Nested' = Nested
           /\ \A i \in DOMAIN stack : Holds(stack[i])' = Holds(stack[i])
  <1>1. PICK to \in {"invalid", "valid", "unverifiable"} :
            /\ UNCHANGED <<setup, at, locals, context, outcome>> /\ outcome = "running"
            /\ caller.credential \in {"valid", "unverifiable"}
            /\ to = "unverifiable" => mode = "verifier" /\ InTypeScript
            /\ caller' = [caller EXCEPT !.credential = to]
    BY DEF Changes, Expire, Fault, Recover, Verifiability
  <1>2. caller = Caller(caller.credential, caller.groups, caller.token, caller.header)
    BY DEF RequestInv
  <1>3. caller' = Caller(to, caller.groups, caller.token, caller.header)
    BY <1>1, <1>2 DEF Caller
  <1>4. /\ caller'.credential = to /\ caller'.groups = caller.groups
        /\ caller'.token = caller.token /\ caller'.header = caller.header
    BY <1>3 DEF Caller
  <1>5. Current' = Current
    BY <1>1, <1>4 DEF Current, Disabled, HeaderTrust
  <1>6. Enabled' = Enabled /\ Nested' = Nested
    BY <1>1, <1>4 DEF Enabled, Nested
  <1>7. \A i \in DOMAIN stack : Holds(stack[i])' = Holds(stack[i])
    BY <1>1, <1>5, <1>6 DEF Holds
  <1> QED BY <1>1, <1>3, <1>4, <1>5, <1>6, <1>7

\* A request that goes on to the next middleware.
LEMMA PassesOn ==
    ASSUME Inv, at \in DOMAIN stack, CallNext, Holds(Here),
           locals' \in {locals, Current}, context' \in {context, Current},
           Seen # None => Seen' # None,
           Insists(Here) # None => Seen' # None,
           outcome = "running"
    PROVE  Inv'
  <1>0. SetupInv /\ RequestInv /\ PlacesInv /\ PassedInv
    BY DEF Inv
  <1>1. at' = at + 1 /\ UNCHANGED <<setup, caller, outcome>>
    BY DEF CallNext
  <1>2. SetupInv'
    BY <1>0, <1>1 DEF SetupInv
  <1>3. RequestInv'
    BY <1>0, <1>1, StackIsSequence DEF RequestInv, InTypeScript
  <1>4. Current' = Current /\ \A i \in DOMAIN stack : Holds(stack[i])' = Holds(stack[i])
    BY <1>1, SameCaller
  <1>5. PlacesInv'
    BY <1>0, <1>4 DEF PlacesInv
  <1>6. PassedInv'
    <2> SUFFICES ASSUME NEW i \in DOMAIN stack, i < at + 1
                 PROVE  (Insists(stack[i]) # None => Seen' # None) /\ Holds(stack[i])'
      BY <1>1 DEF PassedInv
    <2>1. CASE i = at
      BY <1>4, <2>1 DEF Here
    <2>2. CASE i # at
      <3>1. i < at
        BY <1>0, <2>2, StackIsSequence
      <3> QED BY <1>0, <1>4, <3>1 DEF PassedInv
    <2> QED BY <2>1, <2>2
  <1> QED BY <1>2, <1>3, <1>5, <1>6 DEF Inv

\* Every step keeps the invariant.
LEMMA StepInv == Inv /\ [Next]_vars => Inv'
  <1> SUFFICES ASSUME Inv, [Next]_vars PROVE Inv'
    OBVIOUS
  <1>0. SetupInv /\ RequestInv /\ PlacesInv /\ PassedInv /\ mode \in Modes
    BY DEF Inv, SetupInv
  <1>1. ASSUME NEW status, Reject(status), status \in {"401", "403"},
               at \in DOMAIN stack
        PROVE  Inv'
    <2>1. outcome' = status /\ UNCHANGED <<setup, at, caller, locals, context>>
      BY <1>1 DEF Reject
    <2>2. SetupInv' /\ RequestInv'
      BY <1>0, <1>1, <2>1 DEF SetupInv, RequestInv, InTypeScript
    <2>3. Current' = Current /\ \A i \in DOMAIN stack : Holds(stack[i])' = Holds(stack[i])
      BY <2>1, SameCaller
    <2>4. PlacesInv' /\ PassedInv'
      BY <1>0, <2>1, <2>3 DEF PlacesInv, PassedInv, Seen
    <2> QED BY <2>2, <2>4 DEF Inv
  <1>2. CASE Middleware
    <2>1. /\ outcome = "running" /\ at \in DOMAIN stack
          /\ Refuses401 \/ Refuses403 \/ Skips \/ Admits
      BY <1>0, <1>2, MiddlewareForms DEF RequestInv
    <2>2. CASE Refuses401 \/ Refuses403
      BY <1>1, <2>1, <2>2 DEF Refuses401, Refuses403
    <2>3. CASE Skips
      <3>1. UNCHANGED <<locals, context, reader>> /\ CallNext /\ Insists(Here) = None
        BY <2>3 DEF Skips, CallNext
      <3>2. Seen' = Seen
        BY <3>1 DEF Seen
      <3>3. Holds(Here)
        BY <3>1 DEF Holds
      <3> QED BY <2>1, <3>1, <3>2, <3>3, PassesOn
    <2>4. CASE Admits
      <3>1. /\ Authenticate # None /\ Authenticate = Current
            /\ locals' \in {locals, Current} /\ context' \in {context, Current}
            /\ CallNext /\ Holds(Here)
            /\ Insists(Here) # None => Seen' # None
        BY <1>0, <2>4, AuthenticateIs DEF Admits
      <3>2. reader' = reader
        BY <3>1 DEF CallNext
      <3>3. Seen # None => Seen' # None
        BY <3>1, <3>2 DEF Seen
      <3> QED BY <2>1, <3>1, <3>3, PassesOn
    <2> QED BY <2>1, <2>2, <2>3, <2>4
  <1>3. CASE Handle
    <2>1. /\ at > Len(stack) /\ outcome' = "handled"
          /\ UNCHANGED <<setup, at, caller, locals, context>>
      BY <1>3 DEF Handle
    <2>2. SetupInv' /\ RequestInv'
      BY <1>0, <2>1 DEF SetupInv, RequestInv, InTypeScript
    <2>3. Current' = Current /\ \A i \in DOMAIN stack : Holds(stack[i])' = Holds(stack[i])
      BY <2>1, SameCaller
    <2>4. PlacesInv' /\ PassedInv'
      BY <1>0, <2>1, <2>3 DEF PlacesInv, PassedInv, Seen
    <2> QED BY <2>2, <2>4 DEF Inv
  <1>4. CASE Changes
    <2>1. /\ UNCHANGED <<setup, at, locals, context, outcome>>
          /\ caller' = Caller(caller'.credential, caller'.groups, caller'.token, caller'.header)
          /\ caller'.credential \in Credentials
          /\ caller'.credential = "unverifiable" => mode = "verifier" /\ InTypeScript
          /\ Current' = Current
          /\ \A i \in DOMAIN stack : Holds(stack[i])' = Holds(stack[i])
      BY <1>0, <1>4, OnlyCredentialChanges DEF Credentials
    <2>2. SetupInv' /\ RequestInv'
      BY <1>0, <2>1 DEF SetupInv, RequestInv, InTypeScript
    <2>3. PlacesInv' /\ PassedInv'
      BY <1>0, <2>1 DEF PlacesInv, PassedInv, Seen
    <2> QED BY <2>2, <2>3 DEF Inv
  <1>5. CASE UNCHANGED vars
    <2>1. UNCHANGED <<setup, at, caller, locals, context, outcome>>
      BY <1>5 DEF vars
    <2>2. SetupInv' /\ RequestInv'
      BY <1>0, <2>1 DEF SetupInv, RequestInv, InTypeScript
    <2>3. Current' = Current /\ \A i \in DOMAIN stack : Holds(stack[i])' = Holds(stack[i])
      BY <2>1, SameCaller
    <2>4. PlacesInv' /\ PassedInv'
      BY <1>0, <2>1, <2>3 DEF PlacesInv, PassedInv, Seen
    <2> QED BY <2>2, <2>4 DEF Inv
  <1> QED BY <1>2, <1>3, <1>4, <1>5 DEF Next, Step, Middleware, Changes

\* The invariant holds throughout.
LEMMA Invariance == Spec => []Inv
  BY InitInv, StepInv, PTL DEF Spec

-----------------------------------------------------------------------------
\* A handler behind a stack of any length, of which any middleware insists on
\* an identity, finds one in the place where it looks, whenever the credential
\* expires.
THEOREM HandlersSeeIdentity == Spec => []HandlerSeesIdentity
  <1>1. ASSUME Inv, outcome = "handled", NEW i \in DOMAIN stack, Insists(stack[i]) # None
        PROVE  Seen # None
    <2>1. SetupInv /\ RequestInv /\ PassedInv
      BY <1>1 DEF Inv
    <2>2. i < at
      BY <1>1, <2>1, StackIsSequence DEF RequestInv
    <2> QED BY <1>1, <2>1, <2>2 DEF PassedInv
  <1>2. Inv => HandlerSeesIdentity
    BY <1>1 DEF HandlerSeesIdentity
  <1> QED BY Invariance, <1>2, PTL

\* A handler behind a stack of any length finds an identity that satisfies
\* every role check of the stack.
THEOREM RoleChecksAddUp == Spec => []EveryRoleCheckHolds
  <1>1. ASSUME Inv, outcome = "handled", Enabled, NEW i \in DOMAIN stack,
               Insists(stack[i]) # None,
               ~(Insists(stack[i]) = {} /\ stack[i].kind # "fiber.RequireRoles")
        PROVE  HasAnyRole(Seen, Insists(stack[i]))
    <2>1. SetupInv /\ RequestInv /\ PlacesInv /\ PassedInv
      BY <1>1 DEF Inv
    <2>2. i < at
      BY <1>1, <2>1, StackIsSequence DEF RequestInv
    <2>3. Seen # None /\ Holds(stack[i])
      BY <1>1, <2>1, <2>2 DEF PassedInv
    <2>4. Seen = Current
      BY <2>1, <2>3 DEF PlacesInv, Seen
    <2> QED BY <1>1, <2>3, <2>4 DEF Holds
  <1>2. Inv => EveryRoleCheckHolds
    BY <1>1 DEF EveryRoleCheckHolds
  <1> QED BY Invariance, <1>2, PTL

-----------------------------------------------------------------------------
(***************************************************************************)
(* The conversions of roles.                                               *)
(***************************************************************************)

\* An identity of the right type that holds exactly these groups.
HoldsExactly(identity, groups) ==
    /\ DOMAIN identity = {"name", "email", "roles", "claims"}
    /\ identity.roles \in Seq(Roles \cup {""})
    /\ \A role \in Roles : HasRole(identity, role) <=> role \in groups

\* The mapper, its defaults applied, reads the claim that the provider was told
\* of, and not the other one.
LEMMA MapperReadsItsClaim ==
    ASSUME NEW m \in Mappers, NEW raw
    PROVE  ClaimValues(TokenWith(m, raw), WithDefaults(m).roles)
               = IF raw = None THEN <<>> ELSE StringsFrom(raw)
  <1>1. m.roles \in {"", "roles", "realm_access"}
    BY DEF Mappers
  <1> DEFINE named == IF m.roles = "" THEN "groups" ELSE m.roles
             decoy == IF m.roles = "" THEN "roles" ELSE "groups"
             T == TokenWith(m, raw)
  <1>2. WithDefaults(m).roles = named
    BY <1>1 DEF WithDefaults
  <1>3. DOMAIN T = {"name", "email", decoy} \cup (IF raw = None THEN {} ELSE {named})
    BY DEF TokenWith
  <1>4. named \notin {"name", "email", decoy}
    BY <1>1
  <1>5. CASE raw = None
    BY <1>2, <1>3, <1>4, <1>5 DEF ClaimValues
  <1>6. CASE raw # None
    <2>1. named \in DOMAIN T
      BY <1>3, <1>6
    <2>2. T[named] = raw
      BY <1>1, <1>6 DEF TokenWith
    <2> QED BY <1>2, <1>6, <2>1, <2>2 DEF ClaimValues
  <1> QED BY <1>5, <1>6

\* An object that the provider issued is what the mapper reads.
LEMMA ObjectIsNested ==
    ASSUME NEW m \in Mappers, Object # None
    PROVE  LET name  == WithDefaults(m).roles
               token == TokenWith(m, Object)
           IN  name \in DOMAIN token /\ token[name].shape = "object"
  <1> DEFINE named == IF m.roles = "" THEN "groups" ELSE m.roles
             T == TokenWith(m, Object)
  <1>1. m.roles \in {"", "roles", "realm_access"}
    BY DEF Mappers
  <1>2. WithDefaults(m).roles = named
    BY <1>1 DEF WithDefaults
  <1>3. named \in DOMAIN T
    BY <1>1 DEF TokenWith
  <1>4. T[named] = Object
    BY <1>1 DEF TokenWith
  <1>5. Object.shape = "object"
    BY DEF Object
  <1> HIDE DEF named, T
  <1> QED BY <1>2, <1>3, <1>4, <1>5 DEF T

\* A list of elements of a set.
LEMMA LargerList ==
    ASSUME NEW S, NEW T, NEW list \in Seq(S)
    PROVE  list \in Seq(S \cup T) /\ Held(list) \subseteq S
  <1>1. /\ Len(list) \in Nat /\ DOMAIN list = 1..Len(list)
        /\ \A k \in 1..Len(list) : list[k] \in S
        /\ list = [k \in 1..Len(list) |-> list[k]]
    OBVIOUS
  <1>2. list \in [1..Len(list) -> S \cup T]
    BY <1>1
  <1>3. list \in Seq(S \cup T)
    BY <1>1, <1>2
  <1> QED BY <1>1, <1>3 DEF Held

\* A list of one.
LEMMA ListOfOne ==
    ASSUME NEW S, NEW x \in S
    PROVE  <<x>> \in Seq(S) /\ {<<x>>[k] : k \in DOMAIN <<x>>} = {x}
  OBVIOUS

\* A claim that is a string is a list of one.
LEMMA StringIsList ==
    ASSUME NEW raw, NEW x, raw = Str(x)
    PROVE  StringsFrom(raw) = <<x>>
  <1>1. raw.shape = "string" /\ raw.items = <<x>>
    BY DEF Str
  <1> QED BY <1>1 DEF StringsFrom

\* A list of roles is held exactly by its elements.
LEMMA ListHolds ==
    ASSUME NEW identity, NEW list \in Seq(Roles \cup {""}),
           DOMAIN identity = {"name", "email", "roles", "claims"},
           identity.roles = list
    PROVE  HoldsExactly(identity, {list[k] : k \in DOMAIN list} \ {""})
  BY EncodingsAssumption DEF HoldsExactly, HasRole

\* Whichever way the provider encodes the groups, the mapper finds them, or
\* nothing at all if they are inside an object.
LEMMA IssuedArrives ==
    ASSUME NEW m \in Mappers, NEW i \in Issued
    PROVE  /\ i.groups \subseteq Roles
           /\ \/ HoldsExactly(IdentityOf(m, TokenWith(m, i.raw)), i.groups)
              \/ /\ i.raw = Object /\ i.raw # None
                 /\ HoldsExactly(IdentityOf(m, TokenWith(m, i.raw)), {})
  <1> DEFINE identity == IdentityOf(m, TokenWith(m, i.raw))
             list == IF i.raw = None THEN <<>> ELSE StringsFrom(i.raw)
  <1>1. DOMAIN identity = {"name", "email", "roles", "claims"} /\ identity.roles = list
    BY MapperReadsItsClaim DEF IdentityOf
  <1>2. "" \notin Roles /\ None \notin Roles
    BY EncodingsAssumption
  <1>3. ASSUME NEW x \in Roles \cup {""}, i.raw = Str(x), i.raw # None
        PROVE  list \in Seq(Roles \cup {""}) /\ {list[k] : k \in DOMAIN list} = {x}
    <2>1. list = <<x>>
      BY <1>3, StringIsList
    <2> HIDE DEF list
    <2> QED BY <2>1, ListOfOne
  <1>4. /\ i.groups \subseteq Roles
        /\ list \in Seq(Roles \cup {""})
        /\ \/ {list[k] : k \in DOMAIN list} \ {""} = i.groups
           \/ /\ i.raw = Object /\ i.raw # None
              /\ {list[k] : k \in DOMAIN list} \ {""} = {}
    <2>1. CASE i.raw = None
      <3>1. i.groups = {}
        BY <2>1, EncodingsAssumption
      <3> QED BY <2>1, <3>1
    <2>2. CASE i.raw = Str("") /\ i.groups = {} /\ i.raw # None
      <3>1. list \in Seq(Roles \cup {""}) /\ {list[k] : k \in DOMAIN list} = {""}
        BY <1>3, <2>2
      <3> HIDE DEF list
      <3> QED BY <2>2, <3>1
    <2>3. CASE i.raw = Other /\ i.groups = {} /\ i.raw # None
      <3>1. list = <<>>
        BY <2>3 DEF Other, StringsFrom
      <3> QED BY <2>3, <3>1
    <2>4. CASE (\E role \in Roles : i.raw = Str(role) /\ i.groups = {role}) /\ i.raw # None
      <3>1. PICK role \in Roles : i.raw = Str(role) /\ i.groups = {role}
        BY <2>4
      <3>2. list \in Seq(Roles \cup {""}) /\ {list[k] : k \in DOMAIN list} = {role}
        BY <1>3, <2>4, <3>1
      <3> HIDE DEF list
      <3> QED BY <1>2, <3>1, <3>2
    <2>5. CASE /\ i.raw = Array(i.raw.items) /\ i.raw.items \in Seq(Roles \cup {None})
               /\ i.groups = {i.raw.items[k] : k \in DOMAIN i.raw.items} \ {None}
               /\ i.raw # None
      <3>1. list = StringsFrom(Array(i.raw.items))
        BY <2>5
      <3>2. list \in Seq(Roles) /\ Held(list) = Held(i.raw.items) \ {None}
        BY <2>5, <3>1, StringsFromIsExact, Zenon
      <3> HIDE DEF list
      <3>3. Held(list) = i.groups
        BY <2>5, <3>2, Zenon DEF Held
      <3>4. list \in Seq(Roles \cup {""}) /\ i.groups \subseteq Roles
        BY <3>2, <3>3, LargerList
      <3> QED BY <1>2, <3>3, <3>4 DEF Held
    <2>6. CASE i.raw = Object /\ i.groups \subseteq Roles /\ i.raw # None
      <3>1. list = <<>>
        BY <2>6 DEF Object, StringsFrom
      <3> QED BY <2>6, <3>1
    <2> QED BY <2>1, <2>2, <2>3, <2>4, <2>5, <2>6, EncodingsAssumption
  <1> HIDE DEF identity, list
  <1>5. HoldsExactly(identity, {list[k] : k \in DOMAIN list} \ {""})
    BY <1>1, <1>4, ListHolds
  <1> QED BY <1>4, <1>5 DEF identity

\* Whichever way the proxy writes the groups header, header trust finds them.
LEMMA SentArrives ==
    ASSUME NEW s \in Sent
    PROVE  /\ s.groups \subseteq Roles
           /\ HoldsExactly(HeaderTrust(s.parts), s.groups)
  <1> DEFINE list == SplitAndTrim(s.parts)
  <1>1. "" \notin Roles
    BY EncodingsAssumption
  <1>2. list \in Seq(Roles) /\ Held(list) = {s.parts[k].text : k \in DOMAIN s.parts} \ {""}
    BY EncodingsAssumption, SplitAndTrimIsExact, Zenon
  <1>3. Held(list) = s.groups
    BY <1>2, EncodingsAssumption, Zenon
  <1> HIDE DEF list
  <1>4. {list[k] : k \in DOMAIN list} = s.groups
    BY <1>3, Zenon DEF Held
  <1>5. list \in Seq(Roles \cup {""}) /\ s.groups \subseteq Roles
    <2>1. list \in Seq(Roles)
      BY <1>2
    <2>2. list \in Seq(Roles \cup {""}) /\ Held(list) \subseteq Roles
      BY <2>1, LargerList, Zenon
    <2> QED BY <1>3, <2>2
  <1>6. DOMAIN HeaderTrust(s.parts) = {"name", "email", "roles", "claims"}
        /\ HeaderTrust(s.parts).roles = list
    BY DEF HeaderTrust, list
  <1>7. HoldsExactly(HeaderTrust(s.parts), {list[k] : k \in DOMAIN list} \ {""})
    BY <1>5, <1>6, ListHolds
  <1> QED BY <1>1, <1>4, <1>5, <1>7

\* The identity of a disabled authenticator has its type.
LEMMA DisabledTypes ==
    ASSUME NEW roles \in DevRoles
    PROVE  /\ DOMAIN Disabled(roles) = {"name", "email", "roles", "claims"}
           /\ Disabled(roles).roles \in Seq(Roles \cup {""})
           /\ Disabled(roles) # None
  <1>1. Disabled(roles) # None
    BY IdentitiesAssumption DEF Identities
  <1>2. roles \in Seq(Roles \cup {""})
    <2>1. CASE roles = <<>>
      BY <2>1
    <2>2. ASSUME NEW role \in Roles, roles = <<role>>
          PROVE  roles \in Seq(Roles \cup {""})
      BY <2>2, ListOfOne
    <2> QED BY <2>1, <2>2 DEF DevRoles
  <1> QED BY <1>1, <1>2 DEF Disabled

-----------------------------------------------------------------------------
(***************************************************************************)
(* The roles on their way through the stack.                               *)
(***************************************************************************)

\* The fields of a request.
LEMMA CallerFields ==
    ASSUME NEW credential, NEW groups, NEW token, NEW header
    PROVE  LET c == Caller(credential, groups, token, header)
           IN  c.credential = credential /\ c.groups = groups /\ c.header = header
  BY DEF Caller

\* The requests that there are.
LEMMA CallerForms ==
    ASSUME Init
    PROVE  \/ caller.credential \in {"absent", "invalid"} /\ caller.groups = {}
           \/ /\ mode = "trust" /\ caller.credential = "valid"
              /\ \E s \in Sent : caller = Caller("valid", s.groups, NoToken, s.parts)
           \/ /\ mode = "verifier" /\ caller.credential = "valid"
              /\ \E i \in Issued :
                    caller = Caller("valid", i.groups, TokenWith(mapper, i.raw), <<>>)
  <1>1. caller \in Callers
    BY DEF Init
  <1>2. ASSUME NEW c \in {"absent", "invalid"}, caller = Caller(c, {}, NoToken, <<>>)
        PROVE  caller.credential \in {"absent", "invalid"} /\ caller.groups = {}
    BY <1>2, CallerFields
  <1>3. ASSUME NEW s \in IF mode = "trust" THEN Sent ELSE {},
               caller = Caller("valid", s.groups, NoToken, s.parts)
        PROVE  mode = "trust" /\ s \in Sent /\ caller.credential = "valid"
    BY <1>3, CallerFields
  <1>4. ASSUME NEW i \in IF mode = "verifier" THEN Issued ELSE {},
               caller = Caller("valid", i.groups, TokenWith(mapper, i.raw), <<>>)
        PROVE  mode = "verifier" /\ i \in Issued /\ caller.credential = "valid"
    BY <1>4, CallerFields
  <1>5. \/ \E c \in {"absent", "invalid"} : caller = Caller(c, {}, NoToken, <<>>)
        \/ \E s \in IF mode = "trust" THEN Sent ELSE {} :
              caller = Caller("valid", s.groups, NoToken, s.parts)
        \/ \E i \in IF mode = "verifier" THEN Issued ELSE {} :
              caller = Caller("valid", i.groups, TokenWith(mapper, i.raw), <<>>)
    BY <1>1, Zenon DEF Callers
  <1> QED BY <1>2, <1>3, <1>4, <1>5

\* What a request brings is vouched for.
LEMMA InitRoles ==
    ASSUME Init
    PROVE  RolesInv
  <1>0. /\ mode \in Modes /\ mapper \in Mappers /\ devRoles \in DevRoles
        /\ locals = None /\ context = None /\ outcome = "running"
    BY DEF Init
  <1>1. CASE mode = "disabled"
    <2>1. Current = Disabled(devRoles) /\ ~Enabled
      BY <1>1 DEF Current, Enabled
    <2>2. Vouched
      BY <1>0, <2>1, DisabledTypes DEF Vouched
    <2>3. caller.groups = {}
      BY <1>1, CallerForms
    <2> QED BY <1>0, <2>2, <2>3 DEF RolesInv, RefusedForAReason
  <1>2. CASE mode # "disabled" /\ caller.credential \in {"absent", "invalid"}
    <2>1. caller.groups = {}
      BY <1>2, CallerForms
    <2> QED BY <1>0, <1>2, <2>1 DEF RolesInv, RefusedForAReason, Enabled
  <1>3. CASE mode = "trust" /\ caller.credential = "valid"
    <2>1. PICK s \in Sent : caller = Caller("valid", s.groups, NoToken, s.parts)
      BY <1>3, CallerForms
    <2>2. Current = HeaderTrust(s.parts) /\ caller.groups = s.groups
      BY <1>3, <2>1 DEF Current, Caller
    <2>3. s.groups \subseteq Roles /\ HoldsExactly(HeaderTrust(s.parts), s.groups)
      BY SentArrives
    <2>4. HeaderTrust(s.parts) # None
      BY IdentitiesAssumption DEF Identities
    <2>5. Vouched
      BY <2>2, <2>3, <2>4 DEF Vouched, HoldsExactly
    <2> QED BY <1>0, <2>2, <2>3, <2>5 DEF RolesInv, RefusedForAReason
  <1>4. CASE mode = "verifier" /\ caller.credential = "valid"
    <2>1. PICK i \in Issued : caller = Caller("valid", i.groups, TokenWith(mapper, i.raw), <<>>)
      BY <1>4, CallerForms
    <2>2. Current = IdentityOf(mapper, TokenWith(mapper, i.raw)) /\ caller.groups = i.groups
      BY <1>4, <2>1 DEF Current, Caller
    <2>3. /\ i.groups \subseteq Roles
          /\ \/ HoldsExactly(IdentityOf(mapper, TokenWith(mapper, i.raw)), i.groups)
             \/ /\ i.raw = Object /\ i.raw # None
                /\ HoldsExactly(IdentityOf(mapper, TokenWith(mapper, i.raw)), {})
      BY <1>0, IssuedArrives
    <2>4. IdentityOf(mapper, TokenWith(mapper, i.raw)) # None
      BY <1>0, IdentitiesAssumption DEF Identities
    <2>5. i.raw = Object /\ i.raw # None => Nested
      <3>1. caller.token = TokenWith(mapper, i.raw)
        BY <2>1 DEF Caller
      <3> QED BY <1>0, <3>1, ObjectIsNested DEF Nested
    <2>6. Vouched
      BY <2>2, <2>3, <2>4, <2>5 DEF Vouched, HoldsExactly
    <2> QED BY <1>0, <2>2, <2>3, <2>6 DEF RolesInv, RefusedForAReason
  <1>5. \/ caller.credential \in {"absent", "invalid"}
        \/ mode = "trust" /\ caller.credential = "valid"
        \/ mode = "verifier" /\ caller.credential = "valid"
    BY CallerForms
  <1> QED BY <1>1, <1>2, <1>3, <1>4, <1>5

\* Every step keeps what is known of the roles.
LEMMA StepRoles == Inv /\ RolesInv /\ [Next]_vars => RolesInv'
  <1> SUFFICES ASSUME Inv, RolesInv, [Next]_vars PROVE RolesInv'
    OBVIOUS
  <1>0. SetupInv /\ RequestInv /\ mode \in Modes
    BY DEF Inv, SetupInv
  <1>1. ASSUME UNCHANGED <<setup, caller>>
        PROVE  Vouched => Vouched'
    <2>1. /\ Current' = Current /\ Enabled' = Enabled /\ Nested' = Nested
          /\ caller' = caller
      BY <1>1, SameCaller
    <2> QED BY <2>1, Zenon DEF Vouched, HasRole
  <1>2. Authenticate # None => Vouched /\ Authenticate = Current
    BY <1>0, AuthenticateIs DEF RolesInv, Enabled
  <1>3. Authenticate = None =>
            /\ Enabled
            /\ \/ caller.credential \in {"absent", "invalid"}
               \/ caller.credential = "unverifiable" /\ InTypeScript
    BY <1>0, AuthenticateIs DEF RolesInv, Vouched, Enabled, RequestInv, Credentials
  <1>4. ASSUME UNCHANGED <<setup, caller>>,
               locals' \in {locals, Authenticate}, context' \in {context, Authenticate},
               RefusedForAReason'
        PROVE  RolesInv'
    <2>1. Enabled' = Enabled
      BY <1>4 DEF Enabled
    <2> QED BY <1>1, <1>2, <1>4, <2>1 DEF RolesInv
  <1>5. CASE Middleware
    <2>1. /\ outcome = "running" /\ at \in DOMAIN stack
          /\ Refuses401 \/ Refuses403 \/ Skips \/ Admits
      BY <1>0, <1>5, MiddlewareForms DEF RequestInv
    <2>2. CASE Refuses401
      <3>1. /\ outcome' = "401" /\ UNCHANGED <<setup, at, caller, locals, context>>
            /\ Enabled
            /\ \/ caller.credential \in {"absent", "invalid"}
               \/ caller.credential = "unverifiable" /\ InTypeScript
        BY <1>3, <2>2 DEF Refuses401, Reject
      <3>2. InTypeScript => Ts(Here)
        BY <1>0, <2>1, StacksAssumption DEF InTypeScript, Here, SetupInv
      <3>3. Here' = Here
        BY <3>1 DEF Here
      <3>4. RefusedForAReason'
        BY <3>1, <3>2, <3>3 DEF RefusedForAReason, Enabled
      <3> QED BY <1>4, <3>1, <3>4
    <2>3. CASE Refuses403
      <3>1. /\ outcome' = "403" /\ UNCHANGED <<setup, at, caller, locals, context>>
            /\ Enabled /\ Insists(Here) # None /\ ~HasAnyRole(Current, Insists(Here))
        BY <1>2, <2>3 DEF Refuses403, Reject
      <3>2. Vouched
        BY <1>2, <2>3 DEF Refuses403
      <3>3. caller.groups \cap Insists(Here) = {} \/ Nested
        BY <3>1, <3>2 DEF RolesInv, Vouched, HasAnyRole
      <3>4. Here' = Here /\ Nested' = Nested
        BY <3>1, SameCaller DEF Here
      <3>5. RefusedForAReason'
        BY <3>1, <3>3, <3>4 DEF RefusedForAReason, Enabled
      <3> QED BY <1>4, <3>1, <3>5
    <2>4. CASE Skips \/ Admits
      <3>1. /\ UNCHANGED <<setup, caller, outcome>>
            /\ locals' \in {locals, Authenticate} /\ context' \in {context, Authenticate}
        BY <2>4 DEF Skips, Admits, CallNext
      <3>2. RefusedForAReason'
        BY <2>1, <3>1 DEF RefusedForAReason
      <3> QED BY <1>4, <3>1, <3>2
    <2> QED BY <2>1, <2>2, <2>3, <2>4
  <1>6. CASE Handle
    <2>1. outcome' = "handled" /\ UNCHANGED <<setup, caller, locals, context>>
      BY <1>6 DEF Handle
    <2>2. RefusedForAReason'
      BY <2>1 DEF RefusedForAReason
    <2> QED BY <1>4, <2>1, <2>2
  <1>7. CASE Changes
    <2>1. /\ outcome' = "running" /\ UNCHANGED <<locals, context>>
          /\ caller.credential \in {"valid", "unverifiable"}
          /\ caller'.groups = caller.groups
          /\ Current' = Current /\ Enabled' = Enabled /\ Nested' = Nested
      BY <1>0, <1>7, OnlyCredentialChanges
    <2>2. Vouched => Vouched'
      BY <2>1 DEF Vouched
    <2>3. RefusedForAReason'
      BY <2>1 DEF RefusedForAReason
    <2> QED BY <2>1, <2>2, <2>3 DEF RolesInv
  <1>8. CASE UNCHANGED vars
    <2>1. UNCHANGED <<setup, at, caller, locals, context, outcome>>
      BY <1>8 DEF vars
    <2>2. RefusedForAReason'
      BY <2>1, SameCaller DEF RolesInv, RefusedForAReason, Here
    <2> QED BY <1>4, <2>1, <2>2
  <1> QED BY <1>5, <1>6, <1>7, <1>8 DEF Next, Step, Middleware, Changes

\* Roles are vouched for throughout.
LEMMA RolesInvariance == Spec => []RolesInv
  <1>1. Init => RolesInv
    BY InitRoles
  <1> QED BY <1>1, StepRoles, Invariance, PTL DEF Spec

-----------------------------------------------------------------------------
\* Every variable keeps its type; the roles of an identity are strings, whatever
\* was among the claim's items.
THEOREM TypeCorrect == Spec => []TypeOK
  <1>1. ASSUME Inv, RolesInv
        PROVE  TypeOK
    <2>0. SetupInv /\ RequestInv /\ PlacesInv
      BY <1>1 DEF Inv
    <2>1. IsIdentity(locals) /\ IsIdentity(context)
      BY <1>1, <2>0 DEF IsIdentity, PlacesInv, RolesInv, Vouched
    <2>2. devRoles \in Seq(Roles)
      <3>1. CASE devRoles = <<>>
        BY <3>1
      <3>2. ASSUME NEW role \in Roles, devRoles = <<role>>
            PROVE  devRoles \in Seq(Roles)
        BY <3>2, ListOfOne
      <3> QED BY <2>0, <3>1, <3>2 DEF SetupInv, DevRoles
    <2>3. reader \in {"locals", "context"}
      BY <2>0, ReaderIsPlace
    <2> QED BY <1>1, <2>0, <2>1, <2>2, <2>3 DEF TypeOK, SetupInv, RequestInv, RolesInv
  <1>2. Inv /\ RolesInv => TypeOK
    BY <1>1
  <1> QED BY <1>2, Invariance, RolesInvariance, PTL

\* Behind a stack of any length, the handler's caller holds no group that was
\* not asserted, whatever the claim or the header is, and all that were unless
\* the claim is an object with the groups inside.
THEOREM RolesAlwaysArrive == Spec => []RolesArrive
  <1>1. ASSUME Inv, RolesInv, Enabled, Seen # None, NEW role \in Roles
        PROVE  /\ HasRole(Seen, role) => role \in caller.groups
               /\ role \in caller.groups => HasRole(Seen, role) \/ Nested
    <2>1. Seen = Current
      BY <1>1 DEF Inv, PlacesInv, Seen
    <2>2. Vouched
      BY <1>1 DEF RolesInv, Seen
    <2> QED BY <1>1, <2>1, <2>2 DEF Vouched
  <1>2. Inv /\ RolesInv => RolesArrive
    BY <1>1 DEF RolesArrive
  <1> QED BY <1>2, Invariance, RolesInvariance, PTL

\* Behind a stack of any length, nobody is answered 403 while holding one of the
\* roles asked for outside of an object, nor 401 with a valid credential unless
\* the TypeScript verifier cannot verify it for now.
THEOREM RefusalsHaveReasons == Spec => []RefusedForAReason
  <1>1. RolesInv => RefusedForAReason
    BY DEF RolesInv
  <1> QED BY <1>1, RolesInvariance, PTL
=============================================================================
