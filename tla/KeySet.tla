------------------------------- MODULE KeySet -------------------------------
(***************************************************************************)
(* The key set of the Go verifier (keyset.go): the issuer's public keys,   *)
(* fetched once at startup and again on every tick of a ticker, by one     *)
(* background goroutine, until the context it was given is cancelled.      *)
(*                                                                         *)
(* A key set is represented by its version: the provider publishes         *)
(* versions 1, 2, 3 ... and version 0 is the empty document.  Time is      *)
(* relative: what matters is how long ago the last tick was, how long the  *)
(* current fetch has been running and how long ago a version was replaced. *)
(* Steps of the program take no time; Pass is the passage of one time unit *)
(* and cannot pass over a deadline at which the program must act.          *)
(***************************************************************************)
EXTENDS Integers

CONSTANTS
    Refresh,     \* keySetRefresh: the ticker's period, in time units
    Timeout,     \* keySetFetchTimeout: the limit of one fetch
    MaxVersion,  \* bound: how many key sets the provider publishes
    AgeCap       \* bound: ages above AgeCap are not told apart

\* 15 seconds against 15 minutes in the code: a fetch ends before the next
\* tick, so the ticker's one-element channel never drops a tick.
ASSUME TimingAssumption ==
    /\ Refresh \in Nat /\ Timeout \in Nat
    /\ 0 < Timeout /\ Timeout < Refresh

ASSUME BoundsAssumption ==
    /\ MaxVersion \in Nat /\ MaxVersion > 0
    /\ AgeCap \in Nat /\ AgeCap > Refresh + 2 * Timeout

VARIABLES
    phase,      \* what the goroutine that owns the key set is doing
    keys,       \* version of ks.keys; 0 before the first fetch (nil)
    sinceTick,  \* time since the ticker last fired, or was created
    fetchFor,   \* how long the fetch in progress has been running
    answer,     \* what the fetch in progress has received so far
    body,       \* the version in the received document (answer = "jwks")
    cancelled,  \* the context given to NewVerifier is done
    version,    \* provider: the version it publishes now
    up,         \* provider: it answers in time, 200, with its key set
    age,        \* history: per version, time since it was replaced
    missed      \* history: a fetch begun after keys was replaced has failed

loopVars == <<phase, keys, sinceTick, fetchFor, answer, body, missed>>
providerVars == <<version, up>>
vars == <<phase, keys, sinceTick, fetchFor, answer, body, cancelled,
          version, up, age, missed>>

Versions == 1..MaxVersion

Phases == {"starting",  \* newKeySet is in its first refresh
           "failed",    \* newKeySet returned an error: no key set exists
           "waiting",   \* refreshLoop is in its select
           "fetching",  \* refreshLoop is in refresh
           "stopped"}   \* refreshLoop has returned

\* The early returns of refresh that follow from what came back: no response,
\* a status other than 200, an unreadable body, an unparsable document.
FetchErrors == {"transport", "status", "unreadable", "unparsable"}

Answers == {"none", "jwks"} \cup FetchErrors

Running == phase \in {"waiting", "fetching", "stopped"}

InFetch == phase \in {"starting", "fetching"}

Superseded(v) == v < version

Min2(a, b) == IF a < b THEN a ELSE b

-----------------------------------------------------------------------------
Init ==
    /\ phase = "starting"
    /\ keys = 0
    /\ sinceTick = 0
    /\ fetchFor = 0
    /\ answer = "none"
    /\ body = 0
    /\ cancelled = FALSE
    /\ version = 1
    /\ up \in BOOLEAN
    /\ age = [v \in Versions |-> 0]
    /\ missed = FALSE

(***************************************************************************)
(* The provider and the owner of the context.                              *)
(***************************************************************************)

\* External: the provider replaces its key set.
Rotate ==
    /\ version < MaxVersion
    /\ version' = version + 1
    /\ UNCHANGED <<loopVars, cancelled, up, age>>

\* External: the provider, or the way to it, fails or recovers.
Flip ==
    /\ up' = ~up
    /\ UNCHANGED <<loopVars, cancelled, version, age>>

\* External: the process shuts down.
Cancel ==
    /\ ~cancelled
    /\ cancelled' = TRUE
    /\ UNCHANGED <<loopVars, providerVars, age>>

\* External: the provider's answer reaches client.Do.  While the provider is
\* down the answer is an error or a document without keys; a request made
\* under a cancelled context is not answered at all.
Respond ==
    /\ InFetch /\ answer = "none" /\ ~cancelled
    /\ IF up
         THEN answer' = "jwks" /\ body' = version
         ELSE /\ answer' \in FetchErrors \cup {"jwks"}
              /\ body' = 0
    /\ UNCHANGED <<phase, keys, sinceTick, fetchFor, missed, cancelled,
                   providerVars, age>>

(***************************************************************************)
(* refreshLoop and refresh.                                                *)
(***************************************************************************)

\* The select of refreshLoop takes the tick.  With the context done as well,
\* select may take either branch.
BeginRefresh ==
    /\ phase = "waiting"
    /\ sinceTick = Refresh
    /\ phase' = "fetching"
    /\ sinceTick' = 0
    /\ fetchFor' = 0
    /\ answer' = "none"
    /\ body' = 0
    /\ UNCHANGED <<keys, missed, cancelled, providerVars, age>>

\* Mutant: a select without the ctx.Done() case.
StopLoopNever == FALSE /\ UNCHANGED vars

\* The select of refreshLoop takes ctx.Done().
StopLoop ==
    /\ phase = "waiting"
    /\ cancelled
    /\ phase' = "stopped"
    /\ UNCHANGED <<keys, sinceTick, fetchFor, answer, body, missed,
                   cancelled, providerVars, age>>

\* Mutant: an empty document is adopted.
HasKeysUnchecked(v) == TRUE

\* set.Len() > 0.
HasKeys(v) == v > 0

\* The rest of refresh after a well-formed answer: replace the keys under the
\* lock, then go back to the select; in newKeySet, start the loop's ticker.
Adopt ==
    /\ InFetch
    /\ answer = "jwks" /\ HasKeys(body)
    /\ keys' = body
    /\ missed' = FALSE
    /\ sinceTick' = IF phase = "starting" THEN 0 ELSE sinceTick
    /\ phase' = "waiting"
    /\ UNCHANGED <<fetchFor, answer, body, cancelled, providerVars, age>>

\* refresh returns an error before it reaches the lock.
RefreshFails ==
    \/ answer \in FetchErrors
    \/ answer = "jwks" /\ ~HasKeys(body)
    \/ cancelled
    \/ answer = "none" /\ fetchFor = Timeout /\ ~up

\* Mutant: the loop returns on the first error.
AfterErrorReturns == IF phase = "starting" THEN "failed" ELSE "stopped"

\* The error is returned by newKeySet at startup and only logged by the loop.
AfterError == IF phase = "starting" THEN "failed" ELSE "waiting"

\* Mutant: a failed refresh leaves the service without keys.
FailRefreshDropsKeys ==
    /\ InFetch /\ RefreshFails
    /\ phase' = AfterError
    /\ keys' = 0
    /\ UNCHANGED <<sinceTick, fetchFor, answer, body, missed, cancelled,
                   providerVars, age>>

\* refresh has failed: the keys stay as they are.
FailRefresh ==
    /\ InFetch
    /\ RefreshFails
    /\ phase' = AfterError
    /\ missed' = IF /\ phase = "fetching"
                    /\ Superseded(keys) /\ age[keys] >= fetchFor
                  THEN TRUE ELSE missed
    /\ UNCHANGED <<keys, sinceTick, fetchFor, answer, body, cancelled,
                   providerVars, age>>

\* Mutant: the tick is not waited for.
PassOverTick ==
    /\ InFetch => fetchFor < Timeout
    /\ fetchFor' = IF InFetch THEN fetchFor + 1 ELSE fetchFor
    /\ sinceTick' = IF phase \in {"waiting", "fetching"}
                      THEN sinceTick + 1 ELSE sinceTick
    /\ UNCHANGED <<phase, keys, answer, body, missed, cancelled,
                   providerVars, age>>

(***************************************************************************)
(* One unit of time passes.  The fetch's timeout, the tick and a done      *)
(* context are acted upon before time goes on; the ticker keeps its period *)
(* during a fetch.                                                         *)
(***************************************************************************)
Pass ==
    /\ InFetch => fetchFor < Timeout
    /\ phase = "waiting" => sinceTick < Refresh /\ ~cancelled
    /\ fetchFor' = IF InFetch THEN fetchFor + 1 ELSE fetchFor
    /\ sinceTick' = IF phase \in {"waiting", "fetching"}
                      THEN sinceTick + 1 ELSE sinceTick
    /\ age' = [v \in Versions |->
                 IF Superseded(v) THEN Min2(age[v] + 1, AgeCap) ELSE age[v]]
    /\ UNCHANGED <<phase, keys, answer, body, missed, cancelled, providerVars>>

Next ==
    \/ Rotate \/ Flip \/ Cancel \/ Respond
    \/ BeginRefresh \/ StopLoop \/ Adopt \/ FailRefresh
    \/ Pass

\* The goroutine is scheduled, time passes, and a provider that is up answers.
Fairness ==
    /\ WF_vars(BeginRefresh) /\ WF_vars(StopLoop) /\ WF_vars(Adopt) /\ WF_vars(FailRefresh)
    /\ WF_vars(Pass)
    /\ WF_vars(Respond)

Spec == Init /\ [][Next]_vars /\ Fairness

-----------------------------------------------------------------------------
\* Every variable has its type, and every timer is within its deadline.
TypeOK ==
    /\ phase \in Phases
    /\ keys \in 0..MaxVersion
    /\ sinceTick \in 0..Refresh
    /\ fetchFor \in 0..Timeout
    /\ answer \in Answers
    /\ body \in 0..MaxVersion
    /\ cancelled \in BOOLEAN
    /\ version \in Versions
    /\ up \in BOOLEAN
    /\ age \in [Versions -> 0..AgeCap]
    /\ missed \in BOOLEAN

\* Once newKeySet has returned a key set, requests never verify against an
\* empty set or against one the provider has not published: neither a failed
\* startup nor any sequence of failed refreshes gets there.
KeysUsable ==
    Running => keys \in 1..version

\* A withdrawn key set stays in use for at most one period and two fetch
\* timeouts (the second timeout only after startup, whose slow first fetch
\* the ticker does not count), unless the context is done or a refresh that
\* began after the withdrawal has failed: nothing else can keep the service
\* on old keys.
BoundedStaleness ==
    Running /\ ~cancelled /\ ~missed /\ Superseded(keys)
        => age[keys] <= Refresh + 2 * Timeout

\* If the provider stays up from some point on and the context is never
\* done, the keys in use end up being the published ones, however many
\* refreshes have failed before; only a failed startup is final.
CatchesUp ==
    <>[]up /\ []~cancelled => <>[](phase = "failed" \/ keys = version)

\* A done context ends the background goroutine, or the startup, in whatever
\* state it finds it: the goroutine does not outlive the service.
StopsOnCancel ==
    cancelled ~> phase \in {"stopped", "failed"}

\* The promise to the verifier.
Feed == INSTANCE KeyFeed

\* The loop implements that promise: it never puts back an older key set than
\* the one in place nor drops it, and a failed refresh leaves it alone.  There
\* is one fetch at a time, so answers cannot be adopted out of order.
FeedSpec == Feed!Spec
=============================================================================
