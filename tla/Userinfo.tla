------------------------------ MODULE Userinfo ------------------------------
(***************************************************************************)
(* The userinfo fallback of the Go verifier (userinfo.go): requests whose  *)
(* token carries no display claims ask the provider's userinfo endpoint,   *)
(* through a cache per subject that all requests share.                    *)
(*                                                                         *)
(* The mutex is held only to read and to write one cache entry, so any     *)
(* number of requests of one subject fetch at the same time and store      *)
(* their answers in any order.  A profile (name and email) is represented  *)
(* by the subject it belongs to and its version; the provider's users may  *)
(* rename themselves at any time.  Time is relative, as in KeySet.         *)
(***************************************************************************)
EXTENDS Integers

CONSTANTS
    Requests,    \* callers of fill, one call at a time each
    Subjects,    \* subjects of verified access tokens
    SubjectOf,   \* identity.Subject of each caller
    Blank,       \* no profile: Name and Email are both empty
    TTL,         \* userinfoTTL, in time units
    Timeout,     \* the timeout of the http.Client
    MaxVersion,  \* bound: versions of a profile
    AgeCap       \* bound: ages above AgeCap are not told apart

Versions == 1..MaxVersion

Profiles == [of : Subjects, version : Versions]

ASSUME CallersAssumption ==
    /\ SubjectOf \in [Requests -> Subjects]
    /\ Blank \notin Profiles

ASSUME TimingAssumption ==
    /\ TTL \in Nat /\ TTL > 0
    /\ Timeout \in Nat /\ Timeout > 0

ASSUME BoundsAssumption ==
    /\ MaxVersion \in Nat /\ MaxVersion > 0
    /\ AgeCap \in Nat /\ AgeCap >= TTL + Timeout

VARIABLES
    pc,        \* where each call of fill is
    waited,    \* how long each call has waited for its answer
    reply,     \* how the endpoint has answered each call
    body,      \* the profile in a decodable answer
    shown,     \* the profile each call has put into its identity
    entry,     \* the cache: a profile per subject, Blank where there is none
    entryAge,  \* time since the entry's fetchedAt, up to TTL
    version,   \* provider: the current version of each subject's profile
    age        \* history: time since a version of a profile was replaced

callVars == <<pc, waited, reply, body, shown>>
cacheVars == <<entry, entryAge>>
vars == <<pc, waited, reply, body, shown, entry, entryAge, version, age>>

States == {"idle", "asked", "done"}

\* fill's early returns after the request: no response (a transport error, the
\* client's timeout, or the caller's context), a status other than 200, a
\* body that is not JSON.
Failures == {"transport", "refused", "undecodable"}

Replies == {"none", "ok"} \cup Failures

Min2(a, b) == IF a < b THEN a ELSE b

Superseded(p) == p.version < version[p.of]

-----------------------------------------------------------------------------
Init ==
    /\ pc = [r \in Requests |-> "idle"]
    /\ waited = [r \in Requests |-> 0]
    /\ reply = [r \in Requests |-> "none"]
    /\ body = [r \in Requests |-> Blank]
    /\ shown = [r \in Requests |-> Blank]
    /\ entry = [s \in Subjects |-> Blank]
    /\ entryAge = [s \in Subjects |-> 0]
    /\ version = [s \in Subjects |-> 1]
    /\ age = [p \in Profiles |-> 0]

\* External: a user changes name or email at the provider.
Rename(s) ==
    /\ version[s] < MaxVersion
    /\ version' = [version EXCEPT ![s] = @ + 1]
    /\ UNCHANGED <<callVars, cacheVars, age>>

\* Mutant: an entry exactly as old as the TTL still counts as fresh.
FreshOffByOne(s) == entry[s] # Blank /\ entryAge[s] <= TTL

\* There is an entry and it is younger than userinfoTTL.
Fresh(s) == entry[s] # Blank /\ entryAge[s] < TTL

\* fill reads the cache under the mutex and uses a fresh entry.
Hit(r) ==
    /\ pc[r] = "idle"
    /\ Fresh(SubjectOf[r])
    /\ shown' = [shown EXCEPT ![r] = entry[SubjectOf[r]]]
    /\ pc' = [pc EXCEPT ![r] = "done"]
    /\ UNCHANGED <<waited, reply, body, cacheVars, version, age>>

\* fill finds no fresh entry and sends the request, the mutex released.
Ask(r) ==
    /\ pc[r] = "idle"
    /\ ~Fresh(SubjectOf[r])
    /\ pc' = [pc EXCEPT ![r] = "asked"]
    /\ UNCHANGED <<waited, reply, body, shown, cacheVars, version, age>>

\* External: the endpoint answers with the current profile of the subject it
\* believes the token belongs to, or with an error.
Answer(r) ==
    /\ pc[r] = "asked" /\ reply[r] = "none"
    /\ \/ \E s \in Subjects :
            /\ reply' = [reply EXCEPT ![r] = "ok"]
            /\ body' = [body EXCEPT ![r] = [of |-> s, version |-> version[s]]]
       \/ \E f \in Failures :
            /\ reply' = [reply EXCEPT ![r] = f]
            /\ UNCHANGED body
    /\ UNCHANGED <<pc, waited, shown, cacheVars, version, age>>

\* fill returns: the response's body is closed.
Leave(r) ==
    /\ pc' = [pc EXCEPT ![r] = "done"]
    /\ waited' = [waited EXCEPT ![r] = 0]
    /\ reply' = [reply EXCEPT ![r] = "none"]
    /\ body' = [body EXCEPT ![r] = Blank]

\* Mutant: whoever the endpoint answered for is displayed.
SameSubjectUnchecked(r) == TRUE

\* body.Sub = identity.Subject.
SameSubject(r) == body[r].of = SubjectOf[r]

\* fill fills in the identity, then stores the answer under the mutex with
\* the time of the store, over whatever another call has stored meanwhile.
Use(r) ==
    /\ pc[r] = "asked" /\ reply[r] = "ok" /\ SameSubject(r)
    /\ shown' = [shown EXCEPT ![r] = body[r]]
    /\ entry' = [entry EXCEPT ![SubjectOf[r]] = body[r]]
    /\ entryAge' = [entryAge EXCEPT ![SubjectOf[r]] = 0]
    /\ Leave(r)
    /\ UNCHANGED <<version, age>>

\* Mutant: a client without a timeout.
TimedOutNever(r) == FALSE

\* The client's timeout has expired, before the answer or while its body was
\* being read.
TimedOut(r) == waited[r] = Timeout

\* fill returns without touching the identity or the cache.
GiveUp(r) ==
    /\ pc[r] = "asked"
    /\ \/ reply[r] \in Failures
       \/ reply[r] = "ok" /\ ~SameSubject(r)
       \/ TimedOut(r)
    /\ Leave(r)
    /\ UNCHANGED <<shown, cacheVars, version, age>>

\* The identity is returned; the caller's next call starts afresh.
Return(r) ==
    /\ pc[r] = "done"
    /\ pc' = [pc EXCEPT ![r] = "idle"]
    /\ shown' = [shown EXCEPT ![r] = Blank]
    /\ UNCHANGED <<waited, reply, body, cacheVars, version, age>>

\* Mutant: the timeout does not cut a waiting call off.
PassLate ==
    /\ waited' = [r \in Requests |->
                    IF pc[r] = "asked" THEN waited[r] + 1 ELSE waited[r]]
    /\ UNCHANGED <<pc, reply, body, shown, cacheVars, version, age>>

\* One unit of time passes; a call's timeout is acted upon first.
Pass ==
    /\ \A r \in Requests : pc[r] = "asked" => waited[r] < Timeout
    /\ waited' = [r \in Requests |->
                    IF pc[r] = "asked" THEN waited[r] + 1 ELSE waited[r]]
    /\ entryAge' = [s \in Subjects |-> Min2(entryAge[s] + 1, TTL)]
    /\ age' = [p \in Profiles |->
                 IF Superseded(p) THEN Min2(age[p] + 1, AgeCap) ELSE age[p]]
    /\ UNCHANGED <<pc, reply, body, shown, entry, version>>

Call(r) == Hit(r) \/ Ask(r) \/ Answer(r) \/ Use(r) \/ GiveUp(r) \/ Return(r)

Next ==
    \/ \E s \in Subjects : Rename(s)
    \/ \E r \in Requests : Call(r)
    \/ Pass

\* Calls are scheduled and time passes; the endpoint need not answer.
Fairness ==
    /\ \A r \in Requests : WF_vars(Use(r)) /\ WF_vars(GiveUp(r))
    /\ WF_vars(Pass)

Spec == Init /\ [][Next]_vars /\ Fairness

-----------------------------------------------------------------------------
\* Every variable has its type, and no call waits longer than its timeout.
TypeOK ==
    /\ pc \in [Requests -> States]
    /\ waited \in [Requests -> 0..Timeout]
    /\ reply \in [Requests -> Replies]
    /\ body \in [Requests -> Profiles \cup {Blank}]
    /\ shown \in [Requests -> Profiles \cup {Blank}]
    /\ entry \in [Subjects -> Profiles \cup {Blank}]
    /\ entryAge \in [Subjects -> 0..TTL]
    /\ version \in [Subjects -> Versions]
    /\ age \in [Profiles -> 0..AgeCap]

\* Nobody is shown another user's name or email, neither directly nor through
\* the cache, even when the endpoint answers for the wrong user and calls of
\* several users store their answers in any order.
OwnProfile ==
    /\ \A r \in Requests : shown[r] # Blank => shown[r].of = SubjectOf[r]
    /\ \A s \in Subjects : entry[s] # Blank => entry[s].of = s

\* What is displayed was replaced at the provider less than TTL + Timeout
\* ago, although a slow answer may be stored after, and over, a newer one and
\* is then dated by the time of the store.
DisplayIsRecent ==
    [][\A r \in Requests :
         shown'[r] \notin {shown[r], Blank}
             => age[shown'[r]] < TTL + Timeout]_vars

\* Every call of fill returns, whether or not the endpoint ever answers.
FillReturns ==
    \A r \in Requests : pc[r] = "asked" ~> pc[r] = "done"
=============================================================================
