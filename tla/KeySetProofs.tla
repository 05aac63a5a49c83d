---------------------------- MODULE KeySetProofs ----------------------------
(***************************************************************************)
(* The safety properties of KeySet, for every period, timeout and number   *)
(* of rotations.  The invariant that carries them relates the three clocks *)
(* of the model: how long ago the keys in use were replaced, how long ago  *)
(* the ticker fired, and how long the fetch in progress has been running.  *)
(***************************************************************************)
EXTENDS KeySet, TLAPS

\* A version that is still published, or not yet, has no age.
AgeInv ==
    \A v \in Versions : ~Superseded(v) => age[v] = 0

\* The keys in use, and the document in flight, were published.
KeysInv ==
    /\ keys <= version
    /\ Running => keys >= 1
    /\ body <= version

\* A document received during a fetch was current when the fetch began or
\* later, and is not older than the keys it is about to replace.
BodyInv ==
    InFetch /\ answer = "jwks" /\ HasKeys(body)
        => /\ body >= keys
           /\ age[body] <= fetchFor

\* A fetch of the loop begins with the tick; the loop ends with the context.
LoopInv ==
    /\ phase = "fetching" => sinceTick = fetchFor
    /\ phase = "stopped" => cancelled

\* Between ticks, keys that no failed refresh excuses were replaced after the
\* last tick, or after the fetch of the startup began.
StaleInv ==
    ~missed /\ Superseded(keys)
        => /\ phase = "waiting" => age[keys] <= sinceTick + Timeout
           /\ phase = "fetching" => age[keys] <= sinceTick + Refresh + Timeout

IInv == TypeOK /\ AgeInv /\ KeysInv /\ BodyInv /\ LoopInv /\ StaleInv
-----------------------------------------------------------------------------
\* Min2 returns one of its arguments and exceeds neither.
LEMMA Min2Bounds ==
    ASSUME NEW a \in Int, NEW b \in Int
    PROVE  Min2(a, b) \in {a, b} /\ Min2(a, b) <= a /\ Min2(a, b) <= b
BY DEF Min2

\* Every state the program starts in satisfies the invariant.
LEMMA InitIInv ==
    Init => IInv
<1> SUFFICES ASSUME Init PROVE IInv
    OBVIOUS
<1> USE TimingAssumption, BoundsAssumption DEF Init
<1>1. TypeOK
    <2>1. age \in [Versions -> 0..AgeCap]
        OBVIOUS
    <2>2. cancelled \in BOOLEAN /\ up \in BOOLEAN /\ missed \in BOOLEAN
        BY Zenon
    <2> QED
        BY <2>1, <2>2 DEF TypeOK, Phases, Answers, Versions
<1>2. AgeInv /\ KeysInv /\ BodyInv /\ LoopInv /\ StaleInv
    BY DEF AgeInv, KeysInv, BodyInv, LoopInv, StaleInv, Running, InFetch,
           HasKeys, Superseded, Versions
<1> QED
    BY <1>1, <1>2 DEF IInv

\* Every step preserves the types and the bounds of the timers.
LEMMA NextTypeOK ==
    ASSUME IInv, Next
    PROVE  TypeOK'
<1> USE TimingAssumption, BoundsAssumption
    DEF IInv, TypeOK, Versions, loopVars, providerVars
<1>1. CASE Rotate
    BY <1>1 DEF Rotate
<1>2. CASE Flip
    BY <1>2 DEF Flip
<1>3. CASE Cancel
    BY <1>3 DEF Cancel
<1>4. CASE Respond
    BY <1>4 DEF Respond, InFetch, Answers, FetchErrors
<1>5. CASE BeginRefresh
    BY <1>5 DEF BeginRefresh, Phases, Answers
<1>6. CASE StopLoop
    BY <1>6 DEF StopLoop, Phases
<1>7. CASE Adopt
    <2>1. missed' \in BOOLEAN
        BY <1>7, Zenon DEF Adopt
    <2>2. phase' \in Phases
        BY <1>7 DEF Adopt, Phases
    <2> QED
        BY <1>7, <2>1, <2>2 DEF Adopt
<1>8. CASE FailRefresh
    BY <1>8 DEF FailRefresh, AfterError, Phases
<1>9. CASE Pass
    <2>1. fetchFor' \in 0..Timeout /\ sinceTick' \in 0..Refresh
        BY <1>9 DEF Pass, InFetch, LoopInv
    <2>2. age' \in [Versions -> 0..AgeCap]
        <3>1. \A v \in Versions : Min2(age[v] + 1, AgeCap) \in 0..AgeCap
            BY Min2Bounds
        <3> QED
            BY <1>9, <3>1 DEF Pass
    <2> QED
        BY <1>9, <2>1, <2>2 DEF Pass
<1> QED
    BY <1>1, <1>2, <1>3, <1>4, <1>5, <1>6, <1>7, <1>8, <1>9 DEF Next

\* Every step preserves what the invariant says of the keys and the clocks.
LEMMA NextClocks ==
    ASSUME IInv, Next
    PROVE  (AgeInv /\ KeysInv /\ BodyInv /\ LoopInv /\ StaleInv)'
<1> USE TimingAssumption, BoundsAssumption
    DEF IInv, TypeOK, Versions, loopVars, providerVars, AgeInv, KeysInv,
        BodyInv, LoopInv, StaleInv, Running, InFetch, HasKeys, Superseded
<1>1. CASE Rotate
    BY <1>1 DEF Rotate
<1>2. CASE Flip
    BY <1>2 DEF Flip
<1>3. CASE Cancel
    BY <1>3 DEF Cancel
<1>4. CASE Respond
    BY <1>4 DEF Respond, FetchErrors
<1>5. CASE BeginRefresh
    BY <1>5 DEF BeginRefresh
<1>6. CASE StopLoop
    BY <1>6 DEF StopLoop
<1>7. CASE Adopt
    BY <1>7 DEF Adopt
<1>8. CASE FailRefresh
    BY <1>8 DEF FailRefresh, AfterError
<1>9. CASE Pass
    <2>1. \A v \in Versions : /\ age'[v] <= age[v] + 1
                              /\ ~Superseded(v) => age'[v] = age[v]
        <3>1. \A v \in Versions : Min2(age[v] + 1, AgeCap) <= age[v] + 1
            BY Min2Bounds
        <3> QED
            BY <1>9, <3>1 DEF Pass
    <2>2. AgeInv' /\ KeysInv' /\ LoopInv'
        BY <1>9, <2>1 DEF Pass
    <2>3. BodyInv'
        <3> SUFFICES ASSUME InFetch, answer = "jwks", body \in Versions
                     PROVE  body >= keys /\ age'[body] <= fetchFor'
            BY <1>9 DEF Pass
        <3>1. fetchFor' = fetchFor + 1 /\ age'[body] <= age[body] + 1
            BY <1>9, <2>1 DEF Pass
        <3>2. age[body] \in Int /\ age'[body] \in Int
            BY NextTypeOK
        <3> QED
            BY <3>1, <3>2
    <2>4. StaleInv'
        <3> SUFFICES ASSUME ~missed, keys < version,
                            phase \in {"waiting", "fetching"}
                     PROVE  /\ phase = "waiting"
                                 => age'[keys] <= sinceTick' + Timeout
                            /\ phase = "fetching"
                                 => age'[keys] <= sinceTick' + Refresh + Timeout
            BY <1>9 DEF Pass
        <3>1. keys \in Versions
            OBVIOUS
        <3>2. sinceTick' = sinceTick + 1 /\ age'[keys] <= age[keys] + 1
            BY <1>9, <2>1, <3>1 DEF Pass
        <3>3. age[keys] \in Int /\ age'[keys] \in Int
            <4>1. TypeOK'
                BY NextTypeOK
            <4> QED
                BY <3>1, <4>1
        <3> QED
            BY <3>2, <3>3
    <2> QED
        BY <2>2, <2>3, <2>4
<1> QED
    BY <1>1, <1>2, <1>3, <1>4, <1>5, <1>6, <1>7, <1>8, <1>9 DEF Next

\* The invariant is inductive.
LEMMA Invariance ==
    Spec => []IInv
<1>1. IInv /\ UNCHANGED vars => IInv'
    BY DEF IInv, TypeOK, AgeInv, KeysInv, BodyInv, LoopInv, StaleInv, vars,
           Running, InFetch, HasKeys, Superseded
<1>2. IInv /\ [Next]_vars => IInv'
    BY <1>1, NextTypeOK, NextClocks DEF IInv
<1> QED
    BY InitIInv, <1>2, PTL DEF Spec

-----------------------------------------------------------------------------
\* The timers of the refresh loop never pass their deadlines, whatever the
\* period and the timeout, and the variables keep their types.
THEOREM TypeCorrect ==
    Spec => []TypeOK
<1>1. IInv => TypeOK
    BY DEF IInv
<1> QED
    BY Invariance, <1>1, PTL

\* A key set that newKeySet has returned always holds keys that the provider
\* published.
THEOREM KeysAlwaysUsable ==
    Spec => []KeysUsable
<1>1. IInv => KeysUsable
    BY BoundsAssumption DEF IInv, KeysInv, KeysUsable, TypeOK, Versions
<1> QED
    BY Invariance, <1>1, PTL

\* Withdrawn keys are in use for at most a period and two timeouts unless a
\* later refresh failed or the context is done, for every period and timeout.
THEOREM StalenessIsBounded ==
    Spec => []BoundedStaleness
<1>1. IInv => BoundedStaleness
    BY TimingAssumption, BoundsAssumption
       DEF IInv, TypeOK, KeysInv, LoopInv, StaleInv, BoundedStaleness,
           Running, Superseded, Versions
<1> QED
    BY Invariance, <1>1, PTL

\* The refresh loop implements the abstract feed: the verifier may forget
\* about fetches, ticks, failures and cancellation.
THEOREM ImplementsFeed ==
    Spec => FeedSpec
<1>1. Init => Feed!Init
    BY DEF Init, Feed!Init
<1>2. IInv /\ [Next]_vars => [Feed!Next]_<<keys, version>>
    <2> SUFFICES ASSUME IInv, Next
                 PROVE  Feed!Next \/ UNCHANGED <<keys, version>>
        BY DEF vars
    <2>1. CASE Rotate
        BY <2>1 DEF Rotate, loopVars, Feed!Next, Feed!Publish
    <2>2. CASE Adopt
        BY <2>2, BoundsAssumption
           DEF Adopt, providerVars, IInv, TypeOK, BodyInv, KeysInv, HasKeys,
               Versions, Feed!Next, Feed!Replace
    <2>3. CASE ~Rotate /\ ~Adopt
        BY <2>3 DEF Next, Flip, Cancel, Respond, BeginRefresh, StopLoop,
                    FailRefresh, Pass, loopVars, providerVars
    <2> QED
        BY <2>1, <2>2, <2>3
<1> QED
    BY <1>1, <1>2, Invariance, PTL DEF Spec, FeedSpec, Feed!Spec
=============================================================================
