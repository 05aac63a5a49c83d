----------------------------- MODULE MCUserinfo -----------------------------
\* Userinfo with two callers of one subject, which race for its cache entry,
\* and another subject that the endpoint may answer for.
EXTENDS Userinfo

CONSTANTS a1, a2, alice, bob

MCSubjectOf == [r \in Requests |-> alice]
=============================================================================
