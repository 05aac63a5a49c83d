----------------------------- MODULE MCAdapters -----------------------------
(***************************************************************************)
(* Adapters with every stack of up to three Fiber middlewares, up to two   *)
(* of Connect behind at most one of Fiber, up to two of the TypeScript     *)
(* package, and one Huma middleware with up to two requirements; and with  *)
(* the encodings of a set of groups that providers and proxies produce.    *)
(***************************************************************************)
EXTENDS Adapters, SequencesExt

Plain(kind) == [kind |-> kind]

WithRoles(kind, roles) == [kind |-> kind, roles |-> roles]

Fiber == {Plain("fiber.Require"), Plain("fiber.Optional")}
             \cup {WithRoles("fiber.RequireRoles", roles) : roles \in SUBSET Roles}

Connect == {Plain("connect.Interceptor"), Plain("connect.OptionalInterceptor")}

TsKinds(roleLists) == {Plain("ts.middleware")}
             \cup {WithRoles("ts.requireRoles", roles) : roles \in roleLists}

HumaOperations ==
    {[kind |-> "huma", security |-> s] :
        s \in SeqOf((SUBSET Roles) \cup {None}, 2)}

MCStacks ==
    SeqOf(Fiber, 3)
        \cup {f \o c : f \in SeqOf(Fiber, 1), c \in SeqOf(Connect, 2)}
        \cup SeqOf(TsKinds((SUBSET Roles) \ {{}}), 2)
        \cup {<<op>> : op \in HumaOperations}

\* The stacks of the TypeScript package, with every list of roles.
MCTsStacks == SeqOf(TsKinds(SUBSET Roles), 2)

Claim(groups, raw) == [groups |-> groups, raw |-> raw]

\* Arrays in any order, with or without an item that is no string; one group
\* as a string; groups inside an object; no groups as no claim, an empty string
\* or another value.
MCIssued ==
    UNION {{Claim(g, Array(s)) : s \in SetToSeqs(g) \cup SetToSeqs(g \cup {None})} :
              g \in SUBSET Roles}
        \cup {Claim({role}, Str(role)) : role \in Roles}
        \cup {Claim(g, Object) : g \in SUBSET Roles}
        \cup {Claim({}, raw) : raw \in {None, Str(""), Other}}

Header(groups, parts) == [groups |-> groups, parts |-> parts]

\* A header without groups is one blank part; groups in any order, with white
\* space around the last one and a trailing comma.
MCSent ==
    {Header({}, <<Part("", FALSE)>>), Header({}, <<Part("", TRUE), Part("", FALSE)>>)}
        \cup UNION {{Header(g, [i \in DOMAIN s |-> Part(s[i], i = Len(s))] \o tail) :
                        s \in SetToSeqs(g), tail \in {<<>>, <<Part("", FALSE)>>}} :
                      g \in (SUBSET Roles) \ {{}}}
=============================================================================
