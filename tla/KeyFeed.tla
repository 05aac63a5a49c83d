------------------------------ MODULE KeyFeed -------------------------------
(***************************************************************************)
(* What the key set promises to the verifier: a set of keys the provider   *)
(* has published, replaced from time to time by one published no earlier,  *)
(* and never taken away.  KeySet implements it; Verifier relies on it.     *)
(***************************************************************************)
EXTENDS Integers

CONSTANT MaxVersion  \* bound: how many key sets the provider publishes

VARIABLES
    keys,     \* the version in use; 0 before the first one
    version   \* the version the provider publishes now

Init ==
    /\ keys = 0
    /\ version = 1

\* External: the provider publishes another key set.
Publish ==
    /\ version < MaxVersion
    /\ version' = version + 1
    /\ UNCHANGED keys

\* A refresh has succeeded.
Replace ==
    /\ keys' \in 1..version
    /\ keys' >= keys
    /\ UNCHANGED version

Next == Publish \/ Replace

Spec == Init /\ [][Next]_<<keys, version>>
=============================================================================
