-------------------------- MODULE TsVerifierProofs --------------------------
(***************************************************************************)
(* Proofs about TsVerifier, for any number of concurrent calls, any users  *)
(* and any answers of userinfo.                                            *)
(***************************************************************************)
EXTENDS TsVerifier, TLAPS

\* A call at an await: it has a verified or a pending token and shows nothing
\* yet, and reads a body only after a response; what a call shows is the
\* subject of its token.
CallInv(r) ==
    /\ pc[r] \in {"verifying", "asking", "reading"} => token[r] # None
    /\ pc[r] \in {"idle", "verifying", "asking", "reading"} => shown[r] = None
    /\ pc[r] = "reading" => body[r] # None
    /\ shown[r] # None => token[r] # None /\ shown[r] = token[r].sub

\* Every entry of the cache is its subject's own.
EntryInv == \A s \in Subjects : entry[s] \in {s, None}

Inv == TypeOK /\ EntryInv /\ \A r \in Requests : CallInv(r)

USE BodiesAssumption, NoneAssumption

PCs == {"idle", "verifying", "asking", "reading", "settled"}

Results == {"none", "identity", "NoCredentialError", "InvalidTokenError", "TypeError"}

\* The invariant holds when createVerifier is called.
LEMMA InitInv == Init => Inv
  BY DEF Init, Inv, TypeOK, EntryInv, CallInv

\* A call that goes on is the only one that moves.
LEMMA GotoTypes ==
    ASSUME TypeOK, NEW r \in Requests, NEW l \in PCs, Goto(r, l)
    PROVE  /\ pc' \in [Requests -> PCs] /\ pc'[r] = l
           /\ \A q \in Requests \ {r} : pc'[q] = pc[q]
  BY DEF Goto, TypeOK, PCs

\* A call that settles.
LEMMA SettleTypes ==
    ASSUME TypeOK, NEW r \in Requests, NEW res \in Results, Settle(r, res)
    PROVE  /\ pc' \in [Requests -> PCs] /\ pc'[r] = "settled"
           /\ \A q \in Requests \ {r} : pc'[q] = pc[q]
           /\ result' \in [Requests -> Results]
  BY GotoTypes DEF Settle, TypeOK, PCs, Results

\* A call that another one's step leaves alone keeps its part of the invariant.
LEMMA OthersKept ==
    ASSUME Inv, NEW r \in Requests, CallInv(r)', TypeOK', EntryInv',
           \A q \in Requests \ {r} :
              /\ pc'[q] = pc[q] /\ token'[q] = token[q]
              /\ body'[q] = body[q] /\ shown'[q] = shown[q]
    PROVE  Inv'
  <1>1. ASSUME NEW q \in Requests PROVE CallInv(q)'
    <2>1. CASE q = r
      BY <2>1
    <2>2. CASE q # r
      BY <2>2 DEF Inv, CallInv
    <2> QED BY <2>1, <2>2
  <1> QED BY <1>1 DEF Inv

\* Every step keeps the invariant.
LEMMA StepInv == Inv /\ [Next]_vars => Inv'
  <1> SUFFICES ASSUME Inv, [Next]_vars PROVE Inv'
    OBVIOUS
  <1>0. TypeOK /\ EntryInv
    BY DEF Inv
  <1>1. CASE CreateVerifier \/ Discover
    <2>1. /\ boot' \in {"discovering", "ready", "failed"} /\ boot # "ready"
          /\ UNCHANGED <<callVars, entry, stale>>
      BY <1>1 DEF CreateVerifier, Discover
    <2>2. fallback' \in BOOLEAN
      <3>1. CASE UNCHANGED fallback
        BY <1>0, <3>1, Zenon DEF TypeOK
      <3>2. CASE ~UNCHANGED fallback
        BY <1>1, <3>2, Zenon DEF CreateVerifier, Discover
      <3> QED BY <3>1, <3>2
    <2>3. TypeOK'
      BY <1>0, <2>1, <2>2 DEF TypeOK, callVars
    <2> QED BY <1>0, <2>1, <2>3 DEF Inv, EntryInv, CallInv, callVars
  <1>2. ASSUME NEW s \in Subjects, Age(s)
        PROVE  Inv'
    <2>1. stale' \subseteq Subjects /\ UNCHANGED <<boot, fallback, callVars, entry>>
      BY <1>0, <1>2 DEF Age, TypeOK, startup
    <2>2. TypeOK'
      BY <1>0, <2>1 DEF TypeOK, callVars
    <2> QED BY <1>0, <2>1, <2>2 DEF Inv, EntryInv, CallInv, callVars
  <1>3. ASSUME NEW r \in Requests, Authenticate(r)
        PROVE  Inv'
    <2>1. PICK t \in Tokens \cup {None} :
            /\ token' = [token EXCEPT ![r] = t]
            /\ IF t = None THEN Settle(r, "NoCredentialError")
               ELSE Goto(r, "verifying") /\ result' = result
      BY <1>3 DEF Authenticate
    <2>2. /\ boot = "ready" /\ pc[r] = "idle"
          /\ UNCHANGED <<boot, fallback, body, shown, entry, stale>>
      BY <1>3 DEF Authenticate, startup
    <2>3. /\ pc' \in [Requests -> PCs] /\ pc'[r] = IF t = None THEN "settled" ELSE "verifying"
          /\ \A q \in Requests \ {r} : pc'[q] = pc[q]
          /\ result' \in [Requests -> Results]
      BY <1>0, <2>1, GotoTypes, SettleTypes DEF PCs, Results, TypeOK
    <2>4. token'[r] = t /\ \A q \in Requests \ {r} : token'[q] = token[q]
      BY <1>0, <2>1 DEF TypeOK
    <2>5. TypeOK'
      BY <1>0, <2>1, <2>2, <2>3 DEF TypeOK, PCs, Results
    <2>6. CallInv(r)' /\ EntryInv'
      BY <1>0, <2>2, <2>3, <2>4 DEF Inv, CallInv, EntryInv
    <2> QED BY <2>2, <2>3, <2>4, <2>5, <2>6, OthersKept
  <1>4. ASSUME NEW r \in Requests, Rejected(r) \/ Refused(r)
        PROVE  Inv'
    <2>1. PICK res \in Results : Settle(r, res)
      BY <1>4 DEF Rejected, Refused, Results
    <2>2. /\ pc[r] \in {"verifying", "asking"}
          /\ UNCHANGED <<boot, fallback, token, body, shown, entry, stale>>
      BY <1>4 DEF Rejected, Refused, startup
    <2>3. /\ pc' \in [Requests -> PCs] /\ pc'[r] = "settled"
          /\ \A q \in Requests \ {r} : pc'[q] = pc[q]
          /\ result' \in [Requests -> Results]
      BY <1>0, <2>1, SettleTypes
    <2>4. TypeOK'
      BY <1>0, <2>2, <2>3 DEF TypeOK, PCs, Results
    <2>5. CallInv(r)' /\ EntryInv'
      BY <1>0, <2>2, <2>3 DEF Inv, CallInv, EntryInv
    <2> QED BY <2>2, <2>3, <2>4, <2>5, OthersKept
  <1>5. ASSUME NEW r \in Requests, Verified(r)
        PROVE  Inv'
    <2>1. pc[r] = "verifying" /\ UNCHANGED <<boot, fallback, token, body, entry, stale>>
      BY <1>5 DEF Verified, startup
    <2>2. token[r] \in Tokens /\ token[r].sub \in Subjects /\ shown[r] = None
      BY <1>0, <2>1 DEF Inv, CallInv, TypeOK, Tokens
    <2>3. PICK s \in {token[r].sub, None} :
            \/ shown' = [shown EXCEPT ![r] = s] /\ Settle(r, "identity")
            \/ s = None /\ shown' = shown /\ result' = result /\ Goto(r, "asking")
      BY <1>0, <1>5, <2>2 DEF Verified, EntryInv
    <2>4. /\ pc' \in [Requests -> PCs] /\ pc'[r] \in {"settled", "asking"}
          /\ pc'[r] = "asking" => s = None
          /\ \A q \in Requests \ {r} : pc'[q] = pc[q]
          /\ result' \in [Requests -> Results]
      BY <1>0, <2>3, GotoTypes, SettleTypes DEF PCs, Results, TypeOK
    <2>5. shown'[r] = s /\ \A q \in Requests \ {r} : shown'[q] = shown[q]
      BY <1>0, <2>2, <2>3 DEF TypeOK
    <2>6. shown' \in [Requests -> Subjects \cup {None}]
      BY <1>0, <2>2, <2>3 DEF TypeOK
    <2>7. TypeOK'
      BY <1>0, <2>1, <2>4, <2>6 DEF TypeOK, PCs, Results
    <2>8. CallInv(r)' /\ EntryInv'
      BY <1>0, <2>1, <2>2, <2>4, <2>5 DEF Inv, CallInv, EntryInv
    <2> QED BY <2>1, <2>4, <2>5, <2>7, <2>8, OthersKept
  <1>6. ASSUME NEW r \in Requests, Responded(r)
        PROVE  Inv'
    <2>1. PICK b \in Bodies : body' = [body EXCEPT ![r] = b]
      BY <1>6 DEF Responded
    <2>2. /\ pc[r] = "asking" /\ Goto(r, "reading")
          /\ UNCHANGED <<boot, fallback, token, shown, result, entry, stale>>
      BY <1>6 DEF Responded, startup
    <2>3. /\ pc' \in [Requests -> PCs] /\ pc'[r] = "reading"
          /\ \A q \in Requests \ {r} : pc'[q] = pc[q]
      BY <1>0, <2>2, GotoTypes DEF PCs
    <2>4. body'[r] = b /\ \A q \in Requests \ {r} : body'[q] = body[q]
      BY <1>0, <2>1 DEF TypeOK
    <2>5. TypeOK'
      BY <1>0, <2>1, <2>2, <2>3 DEF TypeOK, PCs
    <2>6. CallInv(r)' /\ EntryInv'
      BY <1>0, <2>2, <2>3, <2>4 DEF Inv, CallInv, EntryInv
    <2> QED BY <2>2, <2>3, <2>4, <2>5, <2>6, OthersKept
  <1>7. ASSUME NEW r \in Requests, Read(r)
        PROVE  Inv'
    <2>1. pc[r] = "reading" /\ UNCHANGED <<boot, fallback, token, body>>
      BY <1>7 DEF Read, startup
    <2>2. /\ token[r] \in Tokens /\ token[r].sub \in Subjects /\ token[r] # None
          /\ shown[r] = None
      BY <1>0, <2>1 DEF Inv, CallInv, TypeOK, Tokens
    <2>3. PICK res \in Results : Settle(r, res)
      BY <1>7 DEF Read, Results
    <2>4. /\ pc' \in [Requests -> PCs] /\ pc'[r] = "settled"
          /\ \A q \in Requests \ {r} : pc'[q] = pc[q]
          /\ result' \in [Requests -> Results]
      BY <1>0, <2>3, SettleTypes
    <2>5. CASE IsCaller(r) /\ ~Throws(body[r])
      <3>1. /\ shown' = [shown EXCEPT ![r] = token[r].sub]
            /\ entry' = [entry EXCEPT ![token[r].sub] = token[r].sub]
            /\ stale' = stale \ {token[r].sub}
        BY <1>7, <2>5 DEF Read, IsCaller
      <3>2. shown'[r] = token[r].sub /\ \A q \in Requests \ {r} : shown'[q] = shown[q]
        BY <1>0, <3>1 DEF TypeOK
      <3>3. /\ shown' \in [Requests -> Subjects \cup {None}]
            /\ entry' \in [Subjects -> Subjects \cup {None}]
            /\ stale' \subseteq Subjects
        BY <1>0, <2>2, <3>1 DEF TypeOK
      <3>4. TypeOK'
        BY <1>0, <2>1, <2>4, <3>3 DEF TypeOK, PCs, Results
      <3>5. CallInv(r)'
        BY <2>1, <2>2, <2>4, <3>2 DEF CallInv
      <3>6. EntryInv'
        BY <1>0, <3>1 DEF EntryInv, TypeOK
      <3> QED BY <2>1, <2>4, <3>2, <3>4, <3>5, <3>6, OthersKept
    <2>6. CASE ~(IsCaller(r) /\ ~Throws(body[r]))
      <3>1. UNCHANGED <<shown, entry, stale>>
        BY <1>7, <2>6 DEF Read
      <3>2. TypeOK'
        BY <1>0, <2>1, <2>4, <3>1 DEF TypeOK, PCs, Results
      <3>3. CallInv(r)' /\ EntryInv'
        BY <1>0, <2>1, <2>2, <2>4, <3>1 DEF CallInv, EntryInv
      <3> QED BY <2>1, <2>4, <3>1, <3>2, <3>3, OthersKept
    <2> QED BY <2>5, <2>6
  <1>8. ASSUME NEW r \in Requests, Forget(r)
        PROVE  Inv'
    <2>1. /\ pc[r] = "settled" /\ Goto(r, "idle")
          /\ token' = [token EXCEPT ![r] = None]
          /\ body' = [body EXCEPT ![r] = None]
          /\ shown' = [shown EXCEPT ![r] = None]
          /\ result' = [result EXCEPT ![r] = "none"]
          /\ UNCHANGED <<boot, fallback, entry, stale>>
      BY <1>8 DEF Forget, startup
    <2>2. /\ pc' \in [Requests -> PCs] /\ pc'[r] = "idle"
          /\ \A q \in Requests \ {r} : pc'[q] = pc[q]
      BY <1>0, <2>1, GotoTypes DEF PCs
    <2>3. /\ shown'[r] = None
          /\ \A q \in Requests \ {r} : /\ token'[q] = token[q]
                                       /\ body'[q] = body[q] /\ shown'[q] = shown[q]
      BY <1>0, <2>1 DEF TypeOK
    <2>4. /\ token' \in [Requests -> Tokens \cup {None}]
          /\ body' \in [Requests -> Bodies \cup {None}]
          /\ shown' \in [Requests -> Subjects \cup {None}]
          /\ result' \in [Requests -> Results]
      BY <1>0, <2>1 DEF TypeOK, Results
    <2>5. TypeOK'
      BY <1>0, <2>1, <2>2, <2>4 DEF TypeOK, PCs, Results
    <2>6. CallInv(r)' /\ EntryInv'
      BY <1>0, <2>1, <2>2, <2>3 DEF CallInv, EntryInv
    <2> QED BY <2>2, <2>3, <2>5, <2>6, OthersKept
  <1>9. CASE UNCHANGED vars
    BY <1>0, <1>9 DEF vars, Inv, TypeOK, EntryInv, CallInv
  <1> QED BY <1>1, <1>2, <1>3, <1>4, <1>5, <1>6, <1>7, <1>8, <1>9 DEF Next

\* The invariant holds throughout.
LEMMA Invariance == Spec => []Inv
  BY InitInv, StepInv, PTL DEF Spec

-----------------------------------------------------------------------------
\* Every variable keeps its type, and no call of authenticate runs before
\* createVerifier has returned, or after it has thrown.
THEOREM TypeCorrect == Spec => []TypeOK
  <1>1. Inv => TypeOK
    BY DEF Inv
  <1> QED BY Invariance, <1>1, PTL

\* However the calls of any number of users interleave at their awaits, and
\* whatever userinfo answers, nobody is shown another user's name, directly or
\* out of the cache.
THEOREM ProfilesAreOwn == Spec => []OwnProfile
  <1>1. Inv => OwnProfile
    BY DEF Inv, OwnProfile, CallInv, EntryInv
  <1> QED BY Invariance, <1>1, PTL

\* An endpoint that never answers null never fails a call whose token has been
\* verified: nothing else that it may send, the undecodable included, does.
THEOREM OnlyNullFails ==
    ASSUME \A b \in Bodies : ~Throws(b)
    PROVE  Spec => DisplayNeverFails
  <1>1. ASSUME Inv, [Next]_vars, NEW r \in Requests,
               pc[r] \in {"asking", "reading"}, pc'[r] = "settled"
        PROVE  result'[r] = "identity"
    <2>0. TypeOK /\ CallInv(r)
      BY <1>1 DEF Inv
    <2>1. ~UNCHANGED pc
      BY <1>1
    <2>2. PICK q \in Requests :
            \/ Authenticate(q) \/ Rejected(q) \/ Verified(q) \/ Refused(q)
            \/ Responded(q) \/ Read(q) \/ Forget(q)
      BY <1>1, <2>1 DEF Next, vars, CreateVerifier, Discover, Age, callVars
    <2>3. q = r
      BY <1>1, <2>0, <2>2 DEF Authenticate, Rejected, Verified, Refused, Responded, Read,
         Forget, Settle, Goto, TypeOK
    <2>4. Refused(r) \/ Read(r)
      BY <1>1, <2>0, <2>2, <2>3 DEF Authenticate, Rejected, Verified, Responded,
         Forget, Goto, TypeOK
    <2>5. ~Throws(body[r]) \/ Refused(r)
      BY <2>0, <2>4 DEF Read, CallInv, TypeOK
    <2>6. Settle(r, "identity")
      BY <2>4, <2>5 DEF Refused, Read
    <2> QED BY <2>0, <2>6 DEF Settle, TypeOK
  <1>2. Inv /\ [Next]_vars =>
          [\A r \in Requests :
             pc[r] \in {"asking", "reading"} /\ pc'[r] = "settled"
                 => result'[r] = "identity"]_vars
    BY <1>1
  <1> QED BY <1>2, Invariance, PTL DEF Spec, DisplayNeverFails
=============================================================================
