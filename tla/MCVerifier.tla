----------------------------- MODULE MCVerifier -----------------------------
(***************************************************************************)
(* Verifier with a provider that rolls from key k1 over both keys to k2,   *)
(* and with the tokens that tell the checks of parse apart: a good one of  *)
(* each key, one of another user, one for another audience, one of another *)
(* issuer.  The header sets cover each source, both at once, a scheme that *)
(* is not Bearer, no credential, and each kind of cookie.                  *)
(***************************************************************************)
EXTENDS Verifier

MCKeysIn == <<{"k1"}, {"k1", "k2"}, {"k2"}>>

Token(sub, key, iss, aud, named) ==
    [sub |-> sub, key |-> key, iss |-> iss, aud |-> aud, named |-> named]

Access == Token("alice", "k1", "here", {"api"}, FALSE)
Named  == Token("alice", "k2", "here", {"web", "api"}, TRUE)
Web    == Token("bob", "k2", "here", {"web"}, TRUE)
Alien  == Token("alice", "k1", "elsewhere", {"api"}, TRUE)

MCTokens == {Access, Named, Web, Alien}

Carry(accessToken, authorization, cookie) ==
    [accessToken |-> accessToken, authorization |-> authorization,
     cookie |-> cookie]

Basic(t) == [scheme |-> "basic", token |-> t]

MCHeaders ==
    {Carry(None, None, Named),
     Carry(Bare(Access), None, None),
     Carry(Bare(Access), Bearer(Web), Named),
     Carry(Bare(Access), None, Web),
     Carry(Bare(Access), None, Alien),
     Carry(Bare(Web), Bearer(Named), None),
     Carry(None, Bearer(Named), None),
     Carry(None, Bearer(Alien), None),
     Carry(None, Basic(Named), None)}
=============================================================================
