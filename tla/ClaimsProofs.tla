---------------------------- MODULE ClaimsProofs ----------------------------
(***************************************************************************)
(* Proofs about the operators of Claims, for lists of any length: what the *)
(* loops of stringsFrom and splitAndTrim return.                           *)
(*                                                                         *)
(* The theorems of induction in the library have a predicate as parameter; *)
(* the proofs below use a least counterexample instead, which WFMin        *)
(* yields of a set.                                                        *)
(***************************************************************************)
EXTENDS Claims, WellFoundedInduction, TLAPS

\* A set of numbers has a least one.
LEMMA LeastNumber ==
    ASSUME NEW T \in SUBSET Nat, T # {}
    PROVE  \E n \in T : \A k \in T : n <= k
  <1>1. PICK n \in T : \A k \in T : ~ (<<k, n>> \in OpToRel(<, Nat))
    BY WFMin, NatLessThanWellFounded, Zenon
  <1>2. \A k \in T : ~(k < n)
    BY <1>1 DEF OpToRel
  <1> QED BY <1>2

\* What a sequence holds.
Held(s) == {s[k] : k \in DOMAIN s}

\* A sequence and one more element.
LEMMA HeldAppend ==
    ASSUME NEW S, NEW s \in Seq(S), NEW x \in S
    PROVE  Append(s, x) \in Seq(S) /\ Held(Append(s, x)) = Held(s) \cup {x}
  <1>1. Append(s, x) \in Seq(S) /\ DOMAIN Append(s, x) = DOMAIN s \cup {Len(s) + 1}
    OBVIOUS
  <1>2. /\ Append(s, x)[Len(s) + 1] = x
        /\ \A k \in DOMAIN s : Append(s, x)[k] = s[k]
    OBVIOUS
  <1> QED BY <1>1, <1>2 DEF Held

\* The loop's first n turns.
Turns(items, x, f, n) ==
    /\ f[0] = <<>>
    /\ \A k \in 1..n : f[k] = IF items[k] # x THEN Append(f[k - 1], items[k]) ELSE f[k - 1]

\* The loop can always take one more turn.
LEMMA TurnsExist ==
    ASSUME NEW S, NEW items \in Seq(S), NEW x
    PROVE  \A n \in 0..Len(items) : \E f : f = [k \in 0..n |-> f[k]] /\ Turns(items, x, f, n)
  <1> DEFINE P(n) == \E f : f = [k \in 0..n |-> f[k]] /\ Turns(items, x, f, n)
             Bad == {n \in 0..Len(items) : ~P(n)}
  <1>0. Len(items) \in Nat
    OBVIOUS
  <1>1. P(0)
    <2> DEFINE f == [k \in 0..0 |-> <<>>]
    <2>1. f = [k \in 0..0 |-> f[k]] /\ Turns(items, x, f, 0)
      BY DEF Turns
    <2> QED BY <2>1
  <1>2. ASSUME NEW n \in 1..Len(items), P(n - 1)
        PROVE  P(n)
    <2>1. PICK f : f = [k \in 0..n - 1 |-> f[k]] /\ Turns(items, x, f, n - 1)
      BY <1>2
    <2> DEFINE last == IF items[n] # x THEN Append(f[n - 1], items[n]) ELSE f[n - 1]
               g == [k \in 0..n |-> IF k = n THEN last ELSE f[k]]
    <2>2. g = [k \in 0..n |-> g[k]]
      OBVIOUS
    <2>3. g[n] = last /\ \A k \in 0..n - 1 : g[k] = f[k]
      BY <1>2
    <2> HIDE DEF g
    <2>4. Turns(items, x, g, n)
      <3>1. g[0] = <<>>
        BY <1>2, <2>1, <2>3 DEF Turns
      <3>2. ASSUME NEW k \in 1..n
            PROVE  g[k] = IF items[k] # x THEN Append(g[k - 1], items[k]) ELSE g[k - 1]
        <4>1. g[k - 1] = f[k - 1]
          BY <1>0, <2>3
        <4>2. CASE k = n
          BY <2>3, <4>1, <4>2
        <4>3. CASE k # n
          <5>1. k \in 1..n - 1 /\ g[k] = f[k]
            BY <1>0, <2>3, <4>3
          <5> QED BY <2>1, <4>1, <5>1 DEF Turns
        <4> QED BY <4>2, <4>3
      <3> QED BY <3>1, <3>2 DEF Turns
    <2> QED BY <2>2, <2>4
  <1> HIDE DEF P
  <1>3. ASSUME Bad # {}
        PROVE  FALSE
    <2>1. Bad \in SUBSET Nat
      BY <1>0
    <2>2. PICK n \in Bad : \A k \in Bad : n <= k
      BY <1>3, <2>1, LeastNumber, Zenon
    <2>3. n \in 1..Len(items) /\ n - 1 \notin Bad
      BY <1>0, <1>1, <2>2
    <2> QED BY <1>0, <1>2, <2>2, <2>3
  <1> QED BY <1>3 DEF P

\* What is left of a list is a list of its other elements.
LEMMA WithoutKeeps ==
    ASSUME NEW S, NEW items \in Seq(S), NEW x
    PROVE  /\ Without(items, x) \in Seq(S \ {x})
           /\ Held(Without(items, x)) = Held(items) \ {x}
  <1> DEFINE len == Len(items)
             Loop(f) == [n \in 0..len |-> IF n = 0 THEN <<>>
                            ELSE IF items[n] # x THEN Append(f[n - 1], items[n])
                            ELSE f[n - 1]]
             values == CHOOSE f : f = Loop(f)
  <1>0. len \in Nat /\ DOMAIN items = 1..len /\ \A k \in 1..len : items[k] \in S
    OBVIOUS
  <1>1. \E f : f = Loop(f)
    <2>1. len \in 0..len
      BY <1>0
    <2>2. PICK f : f = [k \in 0..len |-> f[k]] /\ Turns(items, x, f, len)
      BY <2>1, TurnsExist, Zenon
    <2>3. \A n \in 0..len :
            f[n] = IF n = 0 THEN <<>>
                   ELSE IF items[n] # x THEN Append(f[n - 1], items[n]) ELSE f[n - 1]
      <3>1. \A n \in 0..len : n = 0 \/ n \in 1..len
        BY <1>0
      <3> QED BY <2>2, <3>1 DEF Turns
    <2>4. f = Loop(f)
      BY <2>2, <2>3
    <2> QED BY <2>4
  <1>2. values = Loop(values)
    BY <1>1, Zenon
  <1>3. Without(items, x) = values[len]
    BY DEF Without
  <1> HIDE DEF values
  <1>4. Turns(items, x, values, len)
    <2>1. \A n \in 0..len : Loop(values)[n] =
            IF n = 0 THEN <<>>
            ELSE IF items[n] # x THEN Append(values[n - 1], items[n]) ELSE values[n - 1]
      OBVIOUS
    <2> HIDE DEF Loop
    <2>2. \A n \in 0..len : values[n] = Loop(values)[n]
      BY <1>2
    <2>3. 0 \in 0..len /\ \A n \in 1..len : n \in 0..len /\ n # 0
      BY <1>0
    <2> QED BY <2>1, <2>2, <2>3 DEF Turns
  <1> DEFINE Q(n) == /\ values[n] \in Seq(S \ {x})
                     /\ Held(values[n]) = {items[k] : k \in 1..n} \ {x}
             Bad == {n \in 0..len : ~Q(n)}
  <1>5. Q(0)
    BY <1>4 DEF Turns, Held
  <1>6. ASSUME NEW n \in 1..len, Q(n - 1)
        PROVE  Q(n)
    <2>1. {items[k] : k \in 1..n} = {items[k] : k \in 1..n - 1} \cup {items[n]}
      BY <1>0
    <2>2. CASE items[n] = x
      BY <1>0, <1>4, <1>6, <2>1, <2>2 DEF Turns
    <2>3. CASE items[n] # x
      <3>1. values[n] = Append(values[n - 1], items[n])
        BY <1>0, <1>4, <2>3 DEF Turns
      <3>2. values[n] \in Seq(S \ {x}) /\ Held(values[n]) = Held(values[n - 1]) \cup {items[n]}
        <4> DEFINE Rest == S \ {x}
        <4>1. values[n - 1] \in Seq(Rest) /\ items[n] \in Rest
          BY <1>0, <1>6, <2>3
        <4> HIDE DEF Rest
        <4>2. /\ Append(values[n - 1], items[n]) \in Seq(Rest)
              /\ Held(Append(values[n - 1], items[n])) = Held(values[n - 1]) \cup {items[n]}
          BY <4>1, HeldAppend
        <4> QED BY <3>1, <4>2 DEF Rest
      <3> QED BY <1>6, <2>1, <2>3, <3>2
    <2> QED BY <2>2, <2>3
  <1> HIDE DEF Q
  <1>7. ASSUME Bad # {}
        PROVE  FALSE
    <2>1. Bad \in SUBSET Nat
      BY <1>0
    <2>2. PICK n \in Bad : \A k \in Bad : n <= k
      BY <1>7, <2>1, LeastNumber, Zenon
    <2>3. n \in 1..len /\ n - 1 \notin Bad
      BY <1>0, <1>5, <2>2
    <2> QED BY <1>0, <1>6, <2>2, <2>3
  <1>8. Q(len)
    BY <1>0, <1>7
  <1> QED BY <1>0, <1>3, <1>8 DEF Q, Held

\* A list of fewer things.
LEMMA SmallerList ==
    ASSUME NEW S, NEW x, NEW list \in Seq((S \cup {x}) \ {x})
    PROVE  list \in Seq(S)
  <1>1. /\ Len(list) \in Nat /\ DOMAIN list = 1..Len(list)
        /\ \A k \in 1..Len(list) : list[k] \in S
        /\ list = [k \in 1..Len(list) |-> list[k]]
    OBVIOUS
  <1>2. list \in [1..Len(list) -> S]
    BY <1>1
  <1> QED BY <1>1, <1>2

\* The texts of a list of parts.
LEMMA TextsAreList ==
    ASSUME NEW Parts, NEW T, \A part \in Parts : part.text \in T,
           NEW parts \in Seq(Parts)
    PROVE  [k \in DOMAIN parts |-> parts[k].text] \in Seq(T)
  <1>1. /\ Len(parts) \in Nat /\ DOMAIN parts = 1..Len(parts)
        /\ \A k \in DOMAIN parts : parts[k] \in Parts
    OBVIOUS
  <1>2. [k \in DOMAIN parts |-> parts[k].text] \in [1..Len(parts) -> T]
    BY <1>1
  <1> QED BY <1>1, <1>2

-----------------------------------------------------------------------------
\* stringsFrom of an array of any length keeps the strings among its items, all
\* of them, and nothing else.
THEOREM StringsFromIsExact ==
    ASSUME NEW items \in Seq(Roles \cup {None})
    PROVE  /\ StringsFrom(Array(items)) \in Seq(Roles)
           /\ Held(StringsFrom(Array(items))) = Held(items) \ {None}
  <1>1. StringsFrom(Array(items)) = Without(items, None)
    BY DEF StringsFrom, Array
  <1>2. /\ Without(items, None) \in Seq((Roles \cup {None}) \ {None})
        /\ Held(Without(items, None)) = Held(items) \ {None}
    BY WithoutKeeps
  <1> QED BY <1>1, <1>2, SmallerList, Zenon

\* splitAndTrim of a header with any number of parts keeps the texts that are
\* not blank, with or without white space around them, and nothing else.
THEOREM SplitAndTrimIsExact ==
    ASSUME NEW parts \in Seq([text : Roles \cup {""}, padded : BOOLEAN])
    PROVE  /\ SplitAndTrim(parts) \in Seq(Roles)
           /\ Held(SplitAndTrim(parts)) = {parts[k].text : k \in DOMAIN parts} \ {""}
  <1> DEFINE texts == [k \in DOMAIN parts |-> parts[k].text]
  <1>1. \A part \in [text : Roles \cup {""}, padded : BOOLEAN] : part.text \in Roles \cup {""}
    OBVIOUS
  <1>2. texts \in Seq(Roles \cup {""})
    BY <1>1, TextsAreList, Zenon
  <1>3. Held(texts) = {parts[k].text : k \in DOMAIN parts}
    BY DEF Held
  <1>4. SplitAndTrim(parts) = Without(texts, "")
    BY DEF SplitAndTrim
  <1> HIDE DEF texts
  <1>5. /\ Without(texts, "") \in Seq((Roles \cup {""}) \ {""})
        /\ Held(Without(texts, "")) = Held(texts) \ {""}
    BY <1>2, WithoutKeeps, Zenon
  <1>6. Without(texts, "") \in Seq(Roles)
    BY <1>5, SmallerList, Zenon
  <1> QED BY <1>3, <1>4, <1>5, <1>6, Zenon
=============================================================================
