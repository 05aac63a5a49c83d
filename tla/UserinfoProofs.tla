--------------------------- MODULE UserinfoProofs ---------------------------
(***************************************************************************)
(* The safety properties of Userinfo, for any number of concurrent calls   *)
(* and subjects and for every TTL and timeout.                             *)
(***************************************************************************)
EXTENDS Userinfo, TLAPS

\* A version of a profile that has not been replaced has no age.
AgeInv ==
    \A p \in Profiles : ~Superseded(p) => age[p] = 0

\* A decodable answer was current at some time since its request was sent.
BodyInv ==
    \A r \in Requests :
        reply[r] = "ok" => /\ pc[r] = "asked"
                           /\ body[r] \in Profiles
                           /\ age[body[r]] <= waited[r]

\* A fresh entry belongs to its subject and was current at most Timeout
\* before it was stored.
EntryInv ==
    \A s \in Subjects :
        entry[s] # Blank /\ entryAge[s] < TTL
            => age[entry[s]] <= entryAge[s] + Timeout

IInv == TypeOK /\ OwnProfile /\ AgeInv /\ BodyInv /\ EntryInv

\* The assumptions on the constants, as every step below uses them.
LEMMA Constants ==
    /\ TTL \in Nat /\ TTL > 0 /\ Timeout \in Nat /\ Timeout > 0
    /\ MaxVersion \in Nat /\ MaxVersion > 0
    /\ AgeCap \in Nat /\ AgeCap >= TTL + Timeout
    /\ SubjectOf \in [Requests -> Subjects]
    /\ Blank \notin Profiles
BY CallersAssumption, TimingAssumption, BoundsAssumption

\* Min2 returns one of its arguments and exceeds neither.
LEMMA Min2Bounds ==
    ASSUME NEW a \in Int, NEW b \in Int
    PROVE  Min2(a, b) \in {a, b} /\ Min2(a, b) <= a /\ Min2(a, b) <= b
BY DEF Min2

\* Every state the program starts in satisfies the invariant.
LEMMA InitIInv ==
    Init => IInv
<1> SUFFICES ASSUME Init PROVE IInv
    OBVIOUS
<1>1. TypeOK
    BY Constants DEF Init, TypeOK, States, Replies, Versions
<1>2. OwnProfile /\ AgeInv /\ BodyInv /\ EntryInv
    BY Constants DEF Init, OwnProfile, AgeInv, BodyInv, EntryInv
<1> QED
    BY <1>1, <1>2 DEF IInv

\* Every step preserves the types and the bounds of the timers.
LEMMA NextTypeOK ==
    ASSUME IInv, Next
    PROVE  TypeOK'
<1> USE Constants DEF IInv, TypeOK, callVars, cacheVars
<1>1. ASSUME NEW s \in Subjects, Rename(s) PROVE TypeOK'
    BY <1>1 DEF Rename, Versions
<1>2. ASSUME NEW r \in Requests, Hit(r) PROVE TypeOK'
    BY <1>2 DEF Hit, States
<1>3. ASSUME NEW r \in Requests, Ask(r) PROVE TypeOK'
    BY <1>3 DEF Ask, States
<1>4. ASSUME NEW r \in Requests, Answer(r) PROVE TypeOK'
    BY <1>4 DEF Answer, Replies, Profiles
<1>5. ASSUME NEW r \in Requests, Use(r) PROVE TypeOK'
    BY <1>5 DEF Use, Leave, States, Replies
<1>6. ASSUME NEW r \in Requests, GiveUp(r) PROVE TypeOK'
    BY <1>6 DEF GiveUp, Leave, States, Replies
<1>7. ASSUME NEW r \in Requests, Return(r) PROVE TypeOK'
    BY <1>7 DEF Return, States
<1>8. CASE Pass
    <2>1. waited' \in [Requests -> 0..Timeout]
        BY <1>8 DEF Pass
    <2>2. entryAge' \in [Subjects -> 0..TTL]
        <3>1. \A s \in Subjects : Min2(entryAge[s] + 1, TTL) \in 0..TTL
            BY Min2Bounds
        <3> QED
            BY <1>8, <3>1 DEF Pass
    <2>3. age' \in [Profiles -> 0..AgeCap]
        <3>1. \A p \in Profiles : Min2(age[p] + 1, AgeCap) \in 0..AgeCap
            BY Min2Bounds
        <3> QED
            BY <1>8, <3>1 DEF Pass
    <2> QED
        BY <1>8, <2>1, <2>2, <2>3 DEF Pass
<1> QED
    BY <1>1, <1>2, <1>3, <1>4, <1>5, <1>6, <1>7, <1>8 DEF Next, Call

\* Every step keeps profiles with their owners.
LEMMA NextOwnProfile ==
    ASSUME IInv, Next
    PROVE  OwnProfile'
<1> USE Constants DEF IInv, TypeOK, OwnProfile, callVars, cacheVars
<1>1. ASSUME NEW s \in Subjects, Rename(s) PROVE OwnProfile'
    BY <1>1 DEF Rename
<1>2. ASSUME NEW r \in Requests, Hit(r) PROVE OwnProfile'
    BY <1>2 DEF Hit, Fresh
<1>3. ASSUME NEW r \in Requests, Ask(r) PROVE OwnProfile'
    BY <1>3 DEF Ask
<1>4. ASSUME NEW r \in Requests, Answer(r) PROVE OwnProfile'
    BY <1>4 DEF Answer
<1>5. ASSUME NEW r \in Requests, Use(r) PROVE OwnProfile'
    BY <1>5 DEF Use, SameSubject
<1>6. ASSUME NEW r \in Requests, GiveUp(r) PROVE OwnProfile'
    BY <1>6 DEF GiveUp
<1>7. ASSUME NEW r \in Requests, Return(r) PROVE OwnProfile'
    BY <1>7 DEF Return
<1>8. CASE Pass
    BY <1>8 DEF Pass
<1> QED
    BY <1>1, <1>2, <1>3, <1>4, <1>5, <1>6, <1>7, <1>8 DEF Next, Call

\* Every step preserves what the invariant says of ages.
LEMMA NextAges ==
    ASSUME IInv, Next
    PROVE  AgeInv' /\ BodyInv' /\ EntryInv'
<1> DEFINE Ages == AgeInv /\ BodyInv /\ EntryInv
<1> USE Constants DEF IInv, TypeOK, AgeInv, BodyInv, EntryInv, callVars,
                      cacheVars
<1>1. ASSUME NEW s \in Subjects, Rename(s) PROVE Ages'
    <2>1. \A p \in Profiles : Superseded(p) => Superseded(p)'
        BY <1>1 DEF Rename, Superseded, Profiles, Versions
    <2> QED
        BY <1>1, <2>1 DEF Rename
<1>2. ASSUME NEW r \in Requests, Hit(r) PROVE Ages'
    BY <1>2 DEF Hit, Superseded
<1>3. ASSUME NEW r \in Requests, Ask(r) PROVE Ages'
    BY <1>3 DEF Ask, Superseded
<1>4. ASSUME NEW r \in Requests, Answer(r) PROVE Ages'
    <2>1. \A s \in Subjects :
             LET p == [of |-> s, version |-> version[s]]
             IN  p \in Profiles /\ age[p] = 0
        BY DEF Superseded, Profiles, Versions
    <2>2. AgeInv' /\ EntryInv'
        BY <1>4 DEF Answer, Superseded
    <2>3. BodyInv'
        BY <1>4, <2>1 DEF Answer, Failures
    <2> QED
        BY <2>2, <2>3
<1>5. ASSUME NEW r \in Requests, Use(r) PROVE Ages'
    <2>1. AgeInv'
        BY <1>5 DEF Use, Superseded
    <2>2. BodyInv'
        BY <1>5 DEF Use, Leave
    <2>3. EntryInv'
        BY <1>5 DEF Use
    <2> QED
        BY <2>1, <2>2, <2>3
<1>6. ASSUME NEW r \in Requests, GiveUp(r) PROVE Ages'
    BY <1>6 DEF GiveUp, Leave, Superseded
<1>7. ASSUME NEW r \in Requests, Return(r) PROVE Ages'
    BY <1>7 DEF Return, Superseded
<1>8. CASE Pass
    <2>1. \A p \in Profiles : /\ age'[p] \in Int
                              /\ age'[p] <= age[p] + 1
                              /\ ~Superseded(p) => age'[p] = age[p]
        <3>1. \A p \in Profiles : /\ Min2(age[p] + 1, AgeCap) \in Int
                                  /\ Min2(age[p] + 1, AgeCap) <= age[p] + 1
            BY Min2Bounds
        <3> QED
            BY <1>8, <3>1 DEF Pass
    <2>2. AgeInv'
        BY <1>8, <2>1 DEF Pass, Superseded
    <2>3. BodyInv'
        BY <1>8, <2>1 DEF Pass
    <2>4. EntryInv'
        BY <1>8, <2>1 DEF Pass, Min2
    <2> QED
        BY <2>2, <2>3, <2>4
<1> QED
    BY <1>1, <1>2, <1>3, <1>4, <1>5, <1>6, <1>7, <1>8 DEF Next, Call

\* The invariant is inductive.
LEMMA Invariance ==
    Spec => []IInv
<1>1. IInv /\ UNCHANGED vars => IInv'
    BY DEF IInv, TypeOK, OwnProfile, AgeInv, BodyInv, EntryInv, vars,
           Superseded
<1>2. IInv /\ [Next]_vars => IInv'
    BY <1>1, NextTypeOK, NextOwnProfile, NextAges DEF IInv
<1> QED
    BY InitIInv, <1>2, PTL DEF Spec

-----------------------------------------------------------------------------
\* The variables keep their types and no call outlives its timeout.
THEOREM TypeCorrect ==
    Spec => []TypeOK
<1>1. IInv => TypeOK
    BY DEF IInv
<1> QED
    BY Invariance, <1>1, PTL

\* No call shows, and no cache entry holds, a profile of another subject,
\* whatever the endpoint answers and in whatever order answers are stored.
THEOREM ProfilesStayWithTheirOwners ==
    Spec => []OwnProfile
<1>1. IInv => OwnProfile
    BY DEF IInv
<1> QED
    BY Invariance, <1>1, PTL

\* The profile a call displays was replaced less than TTL + Timeout ago.
THEOREM DisplayIsAlwaysRecent ==
    Spec => DisplayIsRecent
<1> DEFINE Recent == \A r \in Requests :
                        shown'[r] \notin {shown[r], Blank}
                            => age[shown'[r]] < TTL + Timeout
<1>1. IInv /\ Next => Recent
    <2> SUFFICES ASSUME IInv, Next, NEW q \in Requests,
                        shown'[q] \notin {shown[q], Blank}
                 PROVE  age[shown'[q]] < TTL + Timeout
        OBVIOUS
    <2> USE Constants DEF IInv, TypeOK, callVars, cacheVars
    <2>1. \/ Hit(q)
          \/ Use(q)
        BY DEF Next, Call, Rename, Hit, Ask, Answer, Use, GiveUp, Return,
               Pass
    <2>2. CASE Hit(q)
        BY <2>2 DEF Hit, Fresh, EntryInv
    <2>3. CASE Use(q)
        BY <2>3 DEF Use, BodyInv
    <2> QED
        BY <2>1, <2>2, <2>3
<1>2. IInv /\ [Next]_vars => [Recent]_vars
    BY <1>1
<1> QED
    BY Invariance, <1>2, PTL DEF Spec, DisplayIsRecent
=============================================================================
