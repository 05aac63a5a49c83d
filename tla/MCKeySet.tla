------------------------------ MODULE MCKeySet ------------------------------
\* KeySet with a period of three fetch timeouts and three key sets published:
\* one to start with, one rotation during a fetch and one between fetches.
EXTENDS KeySet
=============================================================================
