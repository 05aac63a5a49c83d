------------------------ MODULE GatewaySessionProofs ------------------------
(***************************************************************************)
(* Proofs about GatewaySession, for any number of overlapping requests and *)
(* any lifetimes.                                                          *)
(***************************************************************************)
EXTENDS GatewaySession, TLAPS

\* A token is never older than the cookie of a session that has not expired:
\* both date from the sign-in, and a renewal only resets the token or both.
SessionInv ==
    session # None /\ session.cookie < CookieExpire => session.token <= session.cookie

Inv == TypeOK /\ SessionInv

USE LifetimesAssumption, SettingsAssumption DEF CsrfCookie, HeadersToBackend, Expire

\* Effective settings are natural numbers.
LEMMA SettingsAreNumbers ==
    ASSUME settings \in Settings
    PROVE  CookieExpire \in Nat /\ CookieRefresh \in Nat
  BY DEF CookieExpire, CookieRefresh

\* Cutting a clock off at a bound keeps it within the bound.
LEMMA ClockBound ==
    ASSUME NEW cap \in Nat, NEW n \in 0..cap
    PROVE  Min2(n + 1, cap) \in 0..cap
  BY DEF Min2

\* The invariant holds before the first request.
LEMMA InitInv == Init => Inv
  <1> SUFFICES ASSUME Init PROVE Inv
    OBVIOUS
  <1>1. TypeOK
    BY DEF Init, TypeOK, Answers
  <1>2. SessionInv
    BY DEF Init, SessionInv
  <1> QED BY <1>1, <1>2 DEF Inv

\* A request that goes on keeps the types of its variables.
LEMMA GotoTypes ==
    ASSUME TypeOK, NEW r \in Requests,
           NEW l \in {"idle", "asking", "signing_in", "checking"} \cup Answers,
           Goto(r, l)
    PROVE  /\ pc' \in [Requests -> {"idle", "asking", "signing_in", "checking"} \cup Answers]
           /\ flight' \in [Requests -> 0..MaxFlight]
           /\ pc'[r] = l /\ flight'[r] = 0
           /\ \A q \in Requests \ {r} : pc'[q] = pc[q] /\ flight'[q] = flight[q]
  BY DEF TypeOK, Goto

\* The effect of letting a request through.
LEMMA AllowTypes ==
    ASSUME TypeOK, NEW r \in Requests, pc[r] = "asking", NEW token \in 0..Lifetime,
           Allow(r, token), session' # None => /\ session'.cookie \in 0..CookieExpire
                                               /\ session'.token \in 0..Lifetime
    PROVE  /\ TypeOK'
           /\ carried'[r] = token /\ pc'[r] = "checking" /\ flight'[r] = 0
           /\ \A q \in Requests \ {r} : /\ carried'[q] = carried[q]
                                        /\ pc'[q] = pc[q] /\ flight'[q] = flight[q]
  <1>1. Goto(r, "checking")
    BY DEF Allow
  <1>2. /\ pc' \in [Requests -> {"idle", "asking", "signing_in", "checking"} \cup Answers]
        /\ flight' \in [Requests -> 0..MaxFlight]
        /\ pc'[r] = "checking" /\ flight'[r] = 0
        /\ \A q \in Requests \ {r} : pc'[q] = pc[q] /\ flight'[q] = flight[q]
    BY <1>1, GotoTypes
  <1>3. carried' = [carried EXCEPT ![r] = token]
    BY DEF Allow
  <1>4. carried'[r] = token /\ \A q \in Requests \ {r} : carried'[q] = carried[q]
    BY <1>3 DEF TypeOK
  <1>5. \A q \in Requests : pc'[q] = "checking" <=> carried'[q] # None
    BY <1>2, <1>4 DEF TypeOK
  <1>6. UNCHANGED <<settings, csrf, up, incidents>>
    BY DEF Allow
  <1> QED BY <1>2, <1>3, <1>4, <1>5, <1>6 DEF TypeOK, CookieExpire

\* Sending the browser to the provider keeps the types.
LEMMA SignInTypes ==
    ASSUME TypeOK, NEW r \in Requests, pc[r] = "asking", SignIn(r),
           session' \in {session, None}
    PROVE  TypeOK'
  <1>1. Goto(r, "signing_in") /\ csrf' = [csrf EXCEPT ![r] = r]
        /\ UNCHANGED <<settings, up, carried, incidents>>
    BY DEF SignIn
  <1>2. /\ pc' \in [Requests -> {"idle", "asking", "signing_in", "checking"} \cup Answers]
        /\ flight' \in [Requests -> 0..MaxFlight]
        /\ pc'[r] = "signing_in"
        /\ \A q \in Requests \ {r} : pc'[q] = pc[q]
    BY <1>1, GotoTypes
  <1>3. csrf' \in [Requests -> Requests \cup {None}]
    BY <1>1 DEF TypeOK
  <1>4. \A q \in Requests : pc'[q] = "checking" <=> carried'[q] # None
    BY <1>1, <1>2 DEF TypeOK
  <1> QED BY <1>1, <1>2, <1>3, <1>4 DEF TypeOK, CookieExpire

\* A step of a request that neither carries a token before nor after it.
LEMMA GotoKeepsTypes ==
    ASSUME TypeOK, NEW r \in Requests, pc[r] # "checking",
           NEW l \in {"idle", "asking", "signing_in"} \cup Answers, Goto(r, l),
           csrf' \in [Requests -> Requests \cup {None}],
           session' # None => /\ session'.cookie \in 0..CookieExpire
                              /\ session'.token \in 0..Lifetime,
           UNCHANGED <<settings, up, carried, incidents>>
    PROVE  TypeOK'
  <1>1. /\ pc' \in [Requests -> {"idle", "asking", "signing_in", "checking"} \cup Answers]
        /\ flight' \in [Requests -> 0..MaxFlight]
        /\ pc'[r] = l
        /\ \A q \in Requests \ {r} : pc'[q] = pc[q]
    BY GotoTypes
  <1>2. \A q \in Requests : pc'[q] = "checking" <=> carried'[q] # None
    BY <1>1 DEF TypeOK, Answers
  <1> QED BY <1>1, <1>2 DEF TypeOK, CookieExpire

\* Every step keeps the invariant.
LEMMA StepInv == Inv /\ [Next]_vars => Inv'
  <1> SUFFICES ASSUME Inv, [Next]_vars PROVE Inv'
    OBVIOUS
  <1>0. TypeOK /\ SessionInv /\ CookieExpire \in Nat /\ CookieRefresh \in Nat
    BY SettingsAreNumbers DEF Inv, TypeOK
  <1>1. ASSUME NEW r \in Requests, Ask(r) PROVE Inv'
    <2>1. TypeOK'
      BY <1>0, <1>1, GotoKeepsTypes DEF Ask, TypeOK
    <2> QED BY <1>0, <1>1, <2>1 DEF Ask, Inv, SessionInv, CookieExpire
  <1>2. ASSUME NEW r \in Requests, Redirect(r) PROVE Inv'
    <2>1. TypeOK'
      BY <1>0, <1>2, SignInTypes DEF Redirect
    <2> QED BY <1>0, <1>2, <2>1 DEF Redirect, SignIn, Inv, SessionInv, CookieExpire
  <1>3. ASSUME NEW r \in Requests, PassOn(r) PROVE Inv'
    <2>1. TypeOK'
      BY <1>0, <1>3, AllowTypes DEF PassOn, Live, TypeOK
    <2> QED BY <1>0, <1>3, <2>1 DEF PassOn, Allow, Inv, SessionInv, CookieExpire
  <1>4. ASSUME NEW r \in Requests, Renew(r) PROVE Inv'
    <2>1. PICK cookie \in {0, session.cookie} : session' = [cookie |-> cookie, token |-> 0]
      BY <1>4 DEF Renew
    <2>2. session # None
      BY <1>4 DEF Renew, Live
    <2>3. cookie \in 0..CookieExpire
      BY <1>0, <2>1, <2>2 DEF TypeOK
    <2>4. session'.cookie = cookie /\ session'.token = 0
      BY <2>1
    <2>5. pc[r] = "asking" /\ Allow(r, 0)
      BY <1>4 DEF Renew
    <2>6. TypeOK'
      BY <1>0, <2>3, <2>4, <2>5, AllowTypes
    <2> QED BY <1>0, <2>3, <2>4, <2>6 DEF Inv, SessionInv
  <1>5. ASSUME NEW r \in Requests, RenewFails(r) PROVE Inv'
    <2>1. pc[r] = "asking" /\ session # None
      BY <1>5 DEF RenewFails, Live
    <2>2. CASE session.token < Lifetime
      <3>1. Allow(r, session.token) /\ session' = session
        BY <1>5, <2>2 DEF RenewFails
      <3>2. TypeOK'
        BY <1>0, <2>1, <3>1, AllowTypes DEF TypeOK
      <3> QED BY <1>0, <3>1, <3>2 DEF Inv, SessionInv, Allow, CookieExpire
    <2>3. CASE ~(session.token < Lifetime)
      <3>1. SignIn(r) /\ session' = None
        BY <1>5, <2>3 DEF RenewFails
      <3>2. TypeOK'
        BY <1>0, <2>1, <3>1, SignInTypes
      <3> QED BY <3>1, <3>2 DEF Inv, SessionInv
    <2> QED BY <2>2, <2>3
  <1>6. ASSUME NEW r \in Requests, Callback(r) PROVE Inv'
    <2>1. pc[r] = "signing_in" /\ UNCHANGED <<settings, up, carried, incidents>>
      BY <1>6 DEF Callback
    <2>2. CASE up /\ csrf[r] = r
      <3>1. /\ session' = [cookie |-> 0, token |-> 0]
            /\ csrf' = [csrf EXCEPT ![r] = None]
            /\ Goto(r, "asking")
        BY <1>6, <2>2 DEF Callback
      <3>2. session'.cookie = 0 /\ session'.token = 0
        BY <3>1
      <3>3. TypeOK'
        BY <1>0, <2>1, <3>1, <3>2, GotoKeepsTypes DEF TypeOK
      <3> QED BY <3>2, <3>3 DEF Inv, SessionInv
    <2>3. CASE ~(up /\ csrf[r] = r)
      <3>1. Goto(r, "failed") /\ UNCHANGED <<session, csrf>>
        BY <1>6, <2>3 DEF Callback
      <3>2. TypeOK'
        BY <1>0, <2>1, <3>1, GotoKeepsTypes DEF TypeOK, Answers
      <3> QED BY <1>0, <2>1, <3>1, <3>2 DEF Inv, SessionInv, CookieExpire
    <2> QED BY <2>2, <2>3
  <1>7. ASSUME NEW r \in Requests, CheckToken(r) PROVE Inv'
    <2>1. PICK l \in {"app", "401"} : Goto(r, l)
      BY <1>7 DEF CheckToken
    <2>2. /\ pc' \in [Requests -> {"idle", "asking", "signing_in", "checking"} \cup Answers]
          /\ flight' \in [Requests -> 0..MaxFlight]
          /\ pc'[r] = l
          /\ \A q \in Requests \ {r} : pc'[q] = pc[q]
      BY <1>0, <2>1, GotoTypes DEF Answers
    <2>3. carried' = [carried EXCEPT ![r] = None]
          /\ UNCHANGED <<settings, session, csrf, up, incidents>>
      BY <1>7 DEF CheckToken
    <2>4. \A q \in Requests : pc'[q] = "checking" <=> carried'[q] # None
      BY <1>0, <2>2, <2>3 DEF TypeOK
    <2>5. TypeOK'
      BY <1>0, <2>2, <2>3, <2>4 DEF TypeOK, CookieExpire
    <2> QED BY <1>0, <2>3, <2>5 DEF Inv, SessionInv, CookieExpire
  <1>8. ASSUME NEW r \in Requests, Finish(r) PROVE Inv'
    <2>1. TypeOK'
      BY <1>0, <1>8, GotoKeepsTypes DEF Finish, TypeOK, Answers
    <2> QED BY <1>0, <1>8, <2>1 DEF Finish, Inv, SessionInv, CookieExpire
  <1>9. CASE SignOut \/ Lose
    <2>1. session' \in {session, None} /\ incidents' \in 0..MaxIncidents
          /\ UNCHANGED <<settings, csrf, up, pc, flight, carried>>
      BY <1>0, <1>9 DEF SignOut, Lose, TypeOK
    <2> QED BY <1>0, <2>1 DEF Inv, TypeOK, SessionInv, CookieExpire
  <1>10. CASE Flip
    <2>1. up' \in BOOLEAN
      BY <1>10, Zenon DEF Flip
    <2> QED BY <1>0, <1>10, <2>1 DEF Flip, Inv, TypeOK, SessionInv, CookieExpire
  <1>11. CASE Pass
    <2>1. UNCHANGED <<settings, up, pc, incidents>> /\ CookieExpire' = CookieExpire
      BY <1>11 DEF Pass, CookieExpire
    <2>2. flight' \in [Requests -> 0..MaxFlight]
      BY <1>0, <1>11, ClockBound DEF Pass, TypeOK
    <2>3. csrf' \in [Requests -> Requests \cup {None}]
      BY <1>11 DEF Pass
    <2>4. \A r \in Requests :
             /\ carried'[r] \in 0..Lifetime \cup {None}
             /\ carried'[r] # None <=> carried[r] # None
      BY <1>0, <1>11, ClockBound DEF Pass, TypeOK
    <2>5. carried' \in [Requests -> 0..Lifetime \cup {None}]
      BY <1>11, <2>4 DEF Pass
    <2>6. ASSUME session' # None, session # None
          PROVE  /\ session'.cookie \in 0..CookieExpire
                 /\ session'.token \in 0..Lifetime
                 /\ session'.cookie < CookieExpire => session'.token <= session'.cookie
      <3>1. /\ session'.cookie = Min2(session.cookie + 1, CookieExpire)
            /\ session'.token = Min2(session.token + 1, Lifetime)
        BY <1>11, <2>6 DEF Pass
      <3>2. /\ session.cookie \in 0..CookieExpire /\ session.token \in 0..Lifetime
            /\ session.cookie < CookieExpire => session.token <= session.cookie
        BY <1>0, <2>6 DEF TypeOK, SessionInv
      <3> QED BY <1>0, <3>1, <3>2 DEF Min2
    <2>7. session = None => session' = None
      BY <1>11 DEF Pass
    <2>8. TypeOK'
      BY <1>0, <2>1, <2>2, <2>3, <2>4, <2>5, <2>6, <2>7 DEF TypeOK
    <2> QED BY <2>1, <2>6, <2>7, <2>8 DEF Inv, SessionInv
  <1>12. CASE UNCHANGED vars
    BY <1>0, <1>12 DEF vars, Inv, TypeOK, SessionInv, CookieExpire
  <1> QED BY <1>1, <1>2, <1>3, <1>4, <1>5, <1>6, <1>7, <1>8, <1>9, <1>10, <1>11, <1>12
          DEF Next, ExtAuthz

\* The invariant holds throughout.
LEMMA Invariance == Spec => []Inv
  BY InitInv, StepInv, PTL DEF Spec

-----------------------------------------------------------------------------
\* The clocks of sessions, tokens and requests keep within their bounds, and
\* Envoy's jwt check always has a token to check.
THEOREM TypeCorrect == Spec => []TypeOK
  <1>1. Inv => TypeOK
    BY DEF Inv
  <1> QED BY Invariance, <1>1, PTL

\* ext_authz passes on no expired token if, in every install, either expire
\* keeps to the margin under the token's lifetime or refresh is shorter than
\* that lifetime.  The condition that the chart documents instead, refresh
\* shorter than expire, does not suffice.
THEOREM NobodyIsStranded ==
    ASSUME \A s \in Settings : Aligned(s) \/ Renewed(s)
    PROVE  Spec => NeverStranded
  <1>1. ASSUME Inv, [Next]_vars,
               NEW r \in Requests, pc[r] = "asking", pc'[r] = "checking"
        PROVE  carried'[r] < Lifetime
    <2>0. TypeOK /\ SessionInv /\ CookieExpire \in Nat /\ CookieRefresh \in Nat
      BY <1>1, SettingsAreNumbers DEF Inv, TypeOK
    <2>1. PICK q \in Requests : PassOn(q) \/ Renew(q) \/ RenewFails(q)
      <3>1. ASSUME NEW q \in Requests,
                   Ask(q) \/ Redirect(q) \/ Callback(q) \/ CheckToken(q) \/ Finish(q)
            PROVE  FALSE
        BY <1>1, <2>0, <3>1 DEF Ask, Redirect, SignIn, Callback, CheckToken, Finish,
           Goto, TypeOK, Answers
      <3>2. ~UNCHANGED pc
        BY <1>1
      <3> QED BY <1>1, <3>1, <3>2 DEF Next, ExtAuthz, SignOut, Lose, Flip, Pass, vars
    <2>2. PICK token \in 0..Lifetime : Allow(q, token) /\ token < Lifetime
      <3>1. session # None /\ session.cookie < CookieExpire
        BY <2>1 DEF PassOn, Renew, RenewFails, Live
      <3>2. session.token \in 0..Lifetime /\ session.cookie \in Nat
            /\ session.token <= session.cookie
        BY <2>0, <3>1 DEF TypeOK, SessionInv
      <3>3. CASE PassOn(q)
        <4>1. Allow(q, session.token) /\ ~NeedsRefresh
          BY <3>3 DEF PassOn
        <4>2. CASE Aligned(settings)
          <5>1. CookieExpire <= Lifetime - Margin
            BY <2>0, <4>2 DEF Aligned, CookieExpire, TypeOK
          <5> QED BY <2>0, <3>1, <3>2, <4>1, <5>1
        <4>3. CASE Renewed(settings)
          <5>1. session.token <= CookieRefresh /\ CookieRefresh < Lifetime
            BY <2>0, <3>2, <4>1, <4>3 DEF Renewed, NeedsRefresh, CookieRefresh
          <5> QED BY <2>0, <3>2, <4>1, <5>1
        <4> QED BY <2>0, <4>2, <4>3 DEF TypeOK
      <3>4. CASE Renew(q)
        BY <3>4 DEF Renew
      <3>5. CASE RenewFails(q)
        <4>1. session.token < Lifetime
          <5>1. SUFFICES ASSUME ~(session.token < Lifetime) PROVE FALSE
            OBVIOUS
          <5>2. Goto(q, "signing_in")
            BY <3>5, <5>1 DEF RenewFails, SignIn
          <5> QED BY <1>1, <2>0, <5>2 DEF Goto, TypeOK
        <4> QED BY <3>2, <3>5, <4>1 DEF RenewFails
      <3> QED BY <2>1, <3>3, <3>4, <3>5
    <2>3. q = r
      BY <1>1, <2>0, <2>2 DEF Allow, Goto, TypeOK
    <2> QED BY <2>0, <2>2, <2>3 DEF Allow, TypeOK
  <1>2. Inv /\ [Next]_vars =>
          [\A r \in Requests :
             pc[r] = "asking" /\ pc'[r] = "checking" /\ carried'[r] # None
                 => carried'[r] < Lifetime]_vars
    BY <1>1
  <1> QED BY <1>2, Invariance, PTL DEF Spec, NeverStranded

-----------------------------------------------------------------------------
\* Where the session is to end before its token, what a request carries is as
\* far under the token's lifetime as the margin, less the time on the way.
MarginInv ==
    CookieRefresh = 0 \/ CookieRefresh >= CookieExpire
        => \A r \in Requests :
             /\ pc[r] = "checking" => carried[r] < Lifetime - Margin + flight[r]
             /\ pc[r] # "401"

\* The margin is kept by every step.
LEMMA StepMargin ==
    ASSUME \A s \in Settings : Aligned(s) \/ RefreshedBeforeExpiry(s),
           Inv, Inv', MarginInv, [Next]_vars
    PROVE  MarginInv'
  <1>0. TypeOK /\ TypeOK' /\ SessionInv /\ CookieExpire \in Nat /\ CookieRefresh \in Nat
    BY SettingsAreNumbers DEF Inv, TypeOK
  <1>1. CookieExpire' = CookieExpire /\ CookieRefresh' = CookieRefresh
    <2>1. settings' = settings
      BY DEF Next, ExtAuthz, Ask, Redirect, SignIn, PassOn, Renew, RenewFails, Allow,
         Callback, CheckToken, Finish, SignOut, Lose, Flip, Pass, vars
    <2> QED BY <2>1 DEF CookieExpire, CookieRefresh
  <1> SUFFICES ASSUME CookieRefresh = 0 \/ CookieRefresh >= CookieExpire
               PROVE  \A r \in Requests :
                        /\ pc'[r] = "checking" => carried'[r] < Lifetime - Margin + flight'[r]
                        /\ pc'[r] # "401"
    BY <1>1 DEF MarginInv
  <1>2. CookieExpire <= Lifetime - Margin
    <2>1. Aligned(settings)
      BY <1>0 DEF TypeOK, RefreshedBeforeExpiry, CookieExpire, CookieRefresh
    <2> QED BY <1>0, <2>1 DEF Aligned, CookieExpire, TypeOK
  <1>3. \A r \in Requests :
           /\ pc[r] = "checking" => carried[r] < Lifetime - Margin + flight[r]
           /\ pc[r] # "401"
    BY DEF MarginInv
  <1>4. ASSUME NEW q \in Requests, NEW l \in {"idle", "asking", "signing_in"} \cup Answers,
               l # "401", Goto(q, l), carried' = carried
        PROVE  \A r \in Requests :
                 /\ pc'[r] = "checking" => carried'[r] < Lifetime - Margin + flight'[r]
                 /\ pc'[r] # "401"
    BY <1>0, <1>3, <1>4 DEF Goto, TypeOK, Answers
  <1>5. ASSUME NEW q \in Requests, NEW token \in 0..Lifetime, token < Lifetime - Margin,
               Allow(q, token)
        PROVE  \A r \in Requests :
                 /\ pc'[r] = "checking" => carried'[r] < Lifetime - Margin + flight'[r]
                 /\ pc'[r] # "401"
    <2>1. /\ carried' = [carried EXCEPT ![q] = token]
          /\ pc' = [pc EXCEPT ![q] = "checking"]
          /\ flight' = [flight EXCEPT ![q] = 0]
      BY <1>5 DEF Allow, Goto
    <2> QED BY <1>0, <1>3, <1>5, <2>1 DEF TypeOK
  <1>6. ASSUME NEW q \in Requests, Ask(q) \/ Redirect(q) \/ Finish(q)
        PROVE  \A r \in Requests :
                 /\ pc'[r] = "checking" => carried'[r] < Lifetime - Margin + flight'[r]
                 /\ pc'[r] # "401"
    BY <1>4, <1>6 DEF Ask, Redirect, SignIn, Finish
  <1>7. ASSUME NEW q \in Requests, Callback(q)
        PROVE  \A r \in Requests :
                 /\ pc'[r] = "checking" => carried'[r] < Lifetime - Margin + flight'[r]
                 /\ pc'[r] # "401"
    <2>1. carried' = carried /\ \E l \in {"asking", "failed"} : Goto(q, l)
      BY <1>7 DEF Callback
    <2> QED BY <1>4, <2>1 DEF Answers
  <1>8. ASSUME NEW q \in Requests, PassOn(q) \/ Renew(q) \/ RenewFails(q)
        PROVE  \A r \in Requests :
                 /\ pc'[r] = "checking" => carried'[r] < Lifetime - Margin + flight'[r]
                 /\ pc'[r] # "401"
    <2>1. session # None /\ session.cookie < CookieExpire
      BY <1>8 DEF PassOn, Renew, RenewFails, Live
    <2>2. session.token \in 0..Lifetime /\ session.cookie \in Nat
          /\ session.token <= session.cookie
      BY <1>0, <2>1 DEF TypeOK, SessionInv
    <2>3. session.token < Lifetime - Margin
      BY <1>0, <1>2, <2>1, <2>2
    <2>4. Allow(q, session.token) \/ Allow(q, 0)
      BY <1>8, <2>2, <2>3 DEF PassOn, Renew, RenewFails
    <2> QED BY <1>5, <2>2, <2>3, <2>4
  <1>9. ASSUME NEW q \in Requests, CheckToken(q)
        PROVE  \A r \in Requests :
                 /\ pc'[r] = "checking" => carried'[r] < Lifetime - Margin + flight'[r]
                 /\ pc'[r] # "401"
    <2>1. carried[q] # None /\ carried[q] < Lifetime
      BY <1>0, <1>3, <1>9 DEF CheckToken, TypeOK
    <2>2. /\ pc' = [pc EXCEPT ![q] = "app"]
          /\ flight' = [flight EXCEPT ![q] = 0]
          /\ carried' = [carried EXCEPT ![q] = None]
      BY <1>9, <2>1 DEF CheckToken, Goto
    <2> QED BY <1>0, <1>3, <2>2 DEF TypeOK
  <1>10. CASE SignOut \/ Lose \/ Flip \/ UNCHANGED vars
    BY <1>3, <1>10 DEF SignOut, Lose, Flip, vars
  <1>11. CASE Pass
    <2> SUFFICES ASSUME NEW r \in Requests, pc[r] = "checking"
                 PROVE  carried'[r] < Lifetime - Margin + flight'[r]
      BY <1>3, <1>11 DEF Pass
    <2>1. flight[r] < MaxFlight /\ flight[r] \in Nat /\ carried[r] \in 0..Lifetime
      BY <1>0, <1>11 DEF Pass, TypeOK
    <2>2. flight'[r] = flight[r] + 1
      BY <1>11, <2>1 DEF Pass, Min2
    <2>3. carried'[r] <= carried[r] + 1 /\ carried'[r] \in Int
      BY <1>11, <2>1 DEF Pass, Min2
    <2> QED BY <1>3, <2>1, <2>2, <2>3
  <1> QED BY <1>6, <1>7, <1>8, <1>9, <1>10, <1>11 DEF Next, ExtAuthz

\* Where the session ends before its token, no request meets the jwt check with
\* an expired token, however the steps of the requests and of time interleave:
\* the margin covers the time a request is on its way (MaxFlight <= Margin).
THEOREM MarginIsKept ==
    ASSUME \A s \in Settings : Aligned(s) \/ RefreshedBeforeExpiry(s)
    PROVE  Spec => []MarginHolds
  <1>1. Init => MarginInv
    BY DEF Init, MarginInv
  <1>2. Inv /\ Inv' /\ MarginInv /\ [Next]_vars => MarginInv'
    BY StepMargin
  <1>3. MarginInv => MarginHolds
    BY DEF MarginInv, MarginHolds
  <1> QED BY <1>1, <1>2, <1>3, Invariance, PTL DEF Spec

-----------------------------------------------------------------------------
\* A sign-in for which no time has passed still has its own CSRF cookie.
CsrfInv ==
    \A r \in Requests : pc[r] = "signing_in" /\ flight[r] = 0 => csrf[r] = r

\* No step of another request, of the user or of time takes that cookie away.
LEMMA StepCsrf ==
    ASSUME TypeOK, CsrfInv, [Next]_vars
    PROVE  CsrfInv'
  <1>1. ASSUME NEW q \in Requests, NEW l, l # "signing_in", Goto(q, l),
               \A r \in Requests \ {q} : csrf'[r] = csrf[r]
        PROVE  CsrfInv'
    BY <1>1 DEF Goto, TypeOK, CsrfInv
  <1>2. ASSUME NEW q \in Requests, SignIn(q)
        PROVE  CsrfInv'
    BY <1>2 DEF SignIn, Goto, TypeOK, CsrfInv
  <1>3. ASSUME NEW q \in Requests,
               Ask(q) \/ PassOn(q) \/ Renew(q) \/ CheckToken(q) \/ Finish(q)
        PROVE  CsrfInv'
    <2>1. csrf' = csrf /\ \E l \in {"idle", "asking", "checking", "app", "401"} : Goto(q, l)
      BY <1>3 DEF Ask, PassOn, Renew, Allow, CheckToken, Finish
    <2> QED BY <1>1, <2>1
  <1>4. ASSUME NEW q \in Requests, Redirect(q) \/ RenewFails(q)
        PROVE  CsrfInv'
    <2>1. CASE SignIn(q)
      BY <1>2, <2>1
    <2>2. CASE csrf' = csrf /\ Goto(q, "checking")
      BY <1>1, <2>2
    <2> QED BY <1>4, <2>1, <2>2 DEF Redirect, RenewFails, Allow
  <1>5. ASSUME NEW q \in Requests, Callback(q)
        PROVE  CsrfInv'
    <2>1. \E l \in {"asking", "failed"} : Goto(q, l)
      BY <1>5 DEF Callback
    <2>2. csrf' = [csrf EXCEPT ![q] = None] \/ csrf' = csrf
      BY <1>5 DEF Callback
    <2>3. \A r \in Requests \ {q} : csrf'[r] = csrf[r]
      BY <2>2 DEF TypeOK
    <2> QED BY <1>1, <2>1, <2>3
  <1>6. CASE SignOut \/ Lose \/ Flip \/ UNCHANGED vars
    BY <1>6 DEF SignOut, Lose, Flip, vars, CsrfInv
  <1>7. CASE Pass
    <2> SUFFICES ASSUME NEW r \in Requests, pc[r] = "signing_in"
                 PROVE  flight'[r] # 0
      BY <1>7 DEF Pass, CsrfInv
    <2>1. flight[r] \in 0..MaxFlight
      BY DEF TypeOK
    <2> QED BY <1>7, <2>1 DEF Pass, Min2
  <1> QED BY <1>3, <1>4, <1>5, <1>6, <1>7 DEF Next, ExtAuthz

\* Because cookie_csrf_per_request gives each sign-in a cookie of its own, any
\* number of sign-ins that overlap in one browser leave one another alone.
THEOREM SignInsDoNotInterfere == Spec => SignInsAreIndependent
  <1>1. Init => CsrfInv
    BY DEF Init, CsrfInv
  <1>2. Inv /\ CsrfInv /\ [Next]_vars => CsrfInv'
    BY StepCsrf DEF Inv
  <1>3. ASSUME Inv, CsrfInv, [Next]_vars,
               NEW r \in Requests, pc[r] = "signing_in", pc'[r] = "failed"
        PROVE  ~up \/ flight[r] > 0
    <2>0. TypeOK
      BY <1>3 DEF Inv
    <2>1. ~UNCHANGED pc
      BY <1>3
    <2>2. PICK q \in Requests : Callback(q) \/ CheckToken(q) \/ Goto(q, "idle")
                                 \/ Goto(q, "asking") \/ Goto(q, "checking")
                                 \/ Goto(q, "signing_in")
      BY <1>3, <2>1 DEF Next, ExtAuthz, Ask, Redirect, SignIn, PassOn, Renew, RenewFails,
         Allow, Finish, SignOut, Lose, Flip, Pass, vars
    <2>3. q = r /\ Callback(q)
      BY <1>3, <2>0, <2>2 DEF Callback, CheckToken, Goto, TypeOK
    <2>4. ~(up /\ csrf[r] = r)
      BY <1>3, <2>0, <2>3 DEF Callback, Goto, TypeOK
    <2>5. flight[r] \in 0..MaxFlight
      BY <2>0 DEF TypeOK
    <2> QED BY <1>3, <2>4, <2>5 DEF CsrfInv
  <1>4. Inv /\ CsrfInv /\ [Next]_vars =>
          [\A r \in Requests :
             pc[r] = "signing_in" /\ pc'[r] = "failed" => ~up \/ flight[r] > 0]_vars
    BY <1>3
  <1> QED BY <1>1, <1>2, <1>4, Invariance, PTL DEF Spec, SignInsAreIndependent

\* SignOutURL leads to the proxy's route, whichever way an application spells
\* the prefix: with or without its slashes, or not at all if it is the default.
LEMMA EverySpellingReachesTheProxy ==
    ASSUME settings \in Settings, NEW prefix \in Spellings
    PROVE  SignOutURL(prefix) = ProxyRoute
  <1>1. settings.prefix \in {"oauth2", "_gwauth"}
    OBVIOUS
  <1>2. CASE prefix = Unset
    <2>1. settings.prefix = "oauth2"
      BY <1>1, <1>2 DEF Spellings, Unset
    <2> QED BY <1>2, <2>1 DEF SignOutURL, ProxyRoute
  <1>3. CASE prefix # Unset
    <2>1. prefix.name = settings.prefix
      BY <1>3 DEF Spellings
    <2> QED BY <1>3, <2>1 DEF SignOutURL, ProxyRoute
  <1> QED BY <1>2, <1>3

\* After the application's sign-out link, as after the loss of the session
\* store, no session is left.
THEOREM SignOutAlwaysEnds == Spec => SignOutEndsSession
  <1>1. ASSUME Inv, [Next]_vars, incidents' > incidents
        PROVE  session' = None
    <2>0. settings \in Settings /\ incidents \in Nat
      BY <1>1 DEF Inv, TypeOK
    <2>1. incidents' # incidents
      BY <1>1, <2>0
    <2>2. SignOut \/ Lose
      BY <1>1, <2>1 DEF Next, ExtAuthz, Ask, Redirect, SignIn, PassOn, Renew, RenewFails,
         Allow, Callback, CheckToken, Finish, Flip, Pass, vars
    <2> QED BY <2>0, <2>2, EverySpellingReachesTheProxy DEF SignOut, Lose
  <1>2. Inv /\ [Next]_vars => [incidents' > incidents => session' = None]_vars
    BY <1>1
  <1> QED BY <1>2, Invariance, PTL DEF Spec, SignOutEndsSession
=============================================================================
