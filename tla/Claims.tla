------------------------------- MODULE Claims -------------------------------
(***************************************************************************)
(* How roles get from a token's claims, or from the proxy's groups header, *)
(* into an Identity (claims.go, splitAndTrim of source.go; ts/src/claims.ts *)
(* and ts/src/source.ts do the same).                                      *)
(*                                                                         *)
(* A token maps the names of its claims to their decoded JSON values.  A   *)
(* value is a record: its shape and its items, where None is an item that  *)
(* is not a string.  The groups header is a sequence of the parts between  *)
(* its commas, each a text with or without white space around it; the      *)
(* empty text is "".                                                       *)
(***************************************************************************)
EXTENDS Integers, Sequences

CONSTANTS
    Roles,    \* role values
    None      \* a JSON value that is no string; no claim

Str(s) == [shape |-> "string", items |-> <<s>>]

Array(items) == [shape |-> "array", items |-> items]

\* A number, a boolean, null.
Other == [shape |-> "other", items |-> <<>>]

\* An object: whatever is in it lies under further names.
Object == [shape |-> "object", items |-> <<>>]

Part(text, padded) == [text |-> text, padded |-> padded]

-----------------------------------------------------------------------------
\* ClaimsMapper.withDefaults: "" is a name that was not configured.
WithDefaults(m) ==
    [name  |-> IF m.name = "" THEN "name" ELSE m.name,
     email |-> IF m.email = "" THEN "email" ELSE m.email,
     roles |-> IF m.roles = "" THEN "groups" ELSE m.roles]

\* The loop of stringsFrom and of splitAndTrim, which goes over a list and
\* appends every item but x.
Without(items, x) ==
    LET values[n \in 0..Len(items)] ==
            IF n = 0 THEN <<>>
            ELSE IF items[n] # x THEN Append(values[n - 1], items[n])
            ELSE values[n - 1]
    IN  values[Len(items)]

\* Mutant: a single group that arrives as a string is not recognised.
StringsFromArray(raw) ==
    IF raw.shape = "array" THEN Without(raw.items, None) ELSE <<>>

\* stringsFrom: a string is a list of one, an array loses what is not a
\* string, anything else holds nothing.
StringsFrom(raw) ==
    CASE raw.shape = "string" -> raw.items
      [] raw.shape = "array"  -> Without(raw.items, None)
      [] OTHER -> <<>>

\* claimValues.
ClaimValues(token, name) ==
    IF name \in DOMAIN token THEN StringsFrom(token[name]) ELSE <<>>

\* stringClaim: anything but a string is as good as absent.
StringClaim(token, name) ==
    IF name \in DOMAIN token /\ token[name].shape = "string"
      THEN token[name].items[1] ELSE ""

\* claimsMap: every claim of the token.
ClaimsMap(token) == [name \in DOMAIN token |-> token[name]]

\* ClaimsMapper.identity; the subject and the raw token are left out.
IdentityOf(mapper, token) ==
    LET m == WithDefaults(mapper)
    IN  [name   |-> StringClaim(token, m.name),
         email  |-> StringClaim(token, m.email),
         roles  |-> ClaimValues(token, m.roles),
         claims |-> ClaimsMap(token)]

\* splitAndTrim: the texts of the parts, trimmed, that are not blank.
SplitAndTrim(parts) == Without([i \in DOMAIN parts |-> parts[i].text], "")

\* Identity.HasRole: the exact value is among the roles.
HasRole(identity, role) == \E i \in DOMAIN identity.roles : identity.roles[i] = role

\* Identity.HasAnyRole: none of no roles is held.
HasAnyRole(identity, roles) == \E role \in roles : HasRole(identity, role)
=============================================================================
