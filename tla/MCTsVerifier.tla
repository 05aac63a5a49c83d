---------------------------- MODULE MCTsVerifier ----------------------------
\* TsVerifier with two concurrent calls, of any of two users each.
EXTENDS TsVerifier

\* Every body an endpoint may send.
MCAllBodies == AllBodies

\* Every body but null.
MCBodies == {b \in AllBodies : b.kind # "null"}
=============================================================================
