---------------------------- MODULE EmailProofs ----------------------------
(***************************************************************************)
(* Proofs about the mail builder among the browser's pages: each block of  *)
(* the mail is in one place of one row, a mail that is saved is opened     *)
(* again as it was, and a page that does not say «not saved» shows what    *)
(* the message is sent with, unless an answer it was owed is lost.         *)
(*                                                                         *)
(* The document is sequences of sequences, flattened and filtered, so the  *)
(* first part is about what a flattened sequence holds; the second about   *)
(* the sheet of rows that every operation takes to another; the third      *)
(* about the sheet that is read again from what was stored; the last about *)
(* the steps of the page.                                                  *)
(***************************************************************************)
EXTENDS BrowserProofs, NaturalsInduction, WellFoundedInduction

---------------------------------------------------------------------------
(***************************************************************************)
(* Sequences.  An order of blocks is the columns of its rows one after the *)
(* other, a filtered sequence its elements or nothing one after the other: *)
(* what is shown of FlattenSeq is shown of both.                           *)
(***************************************************************************)
\* A number is least of any set of them.
LEMMA LeastOf ==
    ASSUME NEW S \in SUBSET Nat, S # {}
    PROVE  \E m \in S : \A n \in S : m <= n
<1>1. PICK m \in S : \A n \in S : ~(<<n, m>> \in OpToRel(<, Nat))
  BY NatLessThanWellFounded, WFMin
<1>2. \A n \in S : ~(n < m)
  BY <1>1, Zenon DEF OpToRel
<1> QED
  BY <1>2

\* What holds of the empty sequence, and of one more element, holds of all.
LEMMA SeqInduct ==
    ASSUME NEW S, NEW T, <<>> \in T, \A s \in T \cap Seq(S), x \in S : Append(s, x) \in T
    PROVE  Seq(S) \subseteq T
<1> DEFINE Lengths == {Len(s) : s \in Seq(S) \ T}
<1> SUFFICES ASSUME Lengths # {} PROVE FALSE
  OBVIOUS
<1>1. Lengths \in SUBSET Nat
  OBVIOUS
<1> HIDE DEF Lengths
<1>2. PICK m \in Lengths : \A n \in Lengths : m <= n
  BY <1>1, LeastOf
<1>3. PICK s \in Seq(S) \ T : Len(s) = m
  BY DEF Lengths
<1>4. PICK t \in Seq(S), x \in S : s = Append(t, x)
  BY SequenceEmptyOrAppend
<1>5. Len(s) = Len(t) + 1 /\ Len(t) \in Nat
  BY <1>4, AppendProperties, LenProperties
<1>6. t \in T
  BY <1>1, <1>2, <1>3, <1>5 DEF Lengths
<1> QED
  BY <1>3, <1>4, <1>6

---------------------------------------------------------------------------
\* Of FlattenSeq's recursion: F holds what the first elements of s make together.
Flattens(F, s) == F = [i \in 1..Len(s) |-> IF i = 1 THEN s[i] ELSE F[i - 1] \o s[i]]

LEMMA FlattensAgree ==
    ASSUME NEW S, NEW s \in Seq(S), NEW x \in S, NEW F, NEW G,
           Flattens(F, s), Flattens(G, Append(s, x))
    PROVE  \A i \in 1..Len(s) : F[i] = G[i]
<1> DEFINE Differ == {i \in 1..Len(s) : F[i] # G[i]}
<1> SUFFICES ASSUME Differ # {} PROVE FALSE
  OBVIOUS
<1>1. PICK m \in Differ : \A n \in Differ : m <= n
  <2>1. Differ \in SUBSET Nat
    OBVIOUS
  <2> HIDE DEF Differ
  <2> QED
    BY <2>1, LeastOf
<1>2. m \in 1..Len(s) /\ m \in 1..Len(Append(s, x)) /\ Append(s, x)[m] = s[m]
  OBVIOUS
<1>3. F[m] = IF m = 1 THEN s[m] ELSE F[m - 1] \o s[m]
  BY <1>2 DEF Flattens
<1>4. G[m] = IF m = 1 THEN s[m] ELSE G[m - 1] \o s[m]
  BY <1>2 DEF Flattens
<1>5. m # 1 => m - 1 \in 1..Len(s) /\ m - 1 \notin Differ
  BY <1>1, <1>2
<1> QED
  BY <1>1, <1>3, <1>4, <1>5

LEMMA FlattensExists ==
    ASSUME NEW S, NEW s \in Seq(S)
    PROVE  \E F : Flattens(F, s)
<1> DEFINE T == {t \in Seq(S) : \E F : Flattens(F, t)}
<1>1. <<>> \in T
  <2>1. Flattens([i \in 1..0 |-> <<>>], <<>>)
    BY DEF Flattens
  <2> QED
    BY <2>1
<1>2. ASSUME NEW t \in T, NEW x \in S PROVE Append(t, x) \in T
  <2>1. PICK F : Flattens(F, t)
    OBVIOUS
  <2> DEFINE n == Len(t) + 1
             G == [i \in 1..n |-> IF i < n THEN F[i] ELSE IF i = 1 THEN x ELSE F[i - 1] \o x]
  <2>2. t \in Seq(S) /\ Len(Append(t, x)) = n /\ n \in Nat
    OBVIOUS
  <2>3. ASSUME NEW i \in 1..n
        PROVE  G[i] = IF i = 1 THEN Append(t, x)[i] ELSE G[i - 1] \o Append(t, x)[i]
    <3>1. CASE i < n
      <4>1. i \in 1..Len(t) /\ Append(t, x)[i] = t[i] /\ G[i] = F[i]
        BY <3>1, <2>2
      <4>2. F[i] = IF i = 1 THEN t[i] ELSE F[i - 1] \o t[i]
        BY <4>1, <2>1 DEF Flattens
      <4>3. i # 1 => G[i - 1] = F[i - 1]
        BY <3>1, <2>2
      <4> QED
        BY <4>1, <4>2, <4>3
    <3>2. CASE i = n
      <4>1. Append(t, x)[i] = x
        BY <3>2, <2>2
      <4>2. i # 1 => G[i - 1] = F[i - 1]
        BY <3>2, <2>2
      <4> QED
        BY <3>2, <4>1, <4>2, <2>2
    <3> QED
      BY <3>1, <3>2, <2>2
  <2>4. Flattens(G, Append(t, x))
    <3>1. G = [i \in 1..n |-> G[i]]
      OBVIOUS
    <3> HIDE DEF G
    <3> QED
      BY <2>2, <2>3, <3>1 DEF Flattens
  <2> QED
    BY <2>2, <2>4
<1> HIDE DEF T
<1>3. Seq(S) \subseteq T
  BY <1>1, <1>2, SeqInduct
<1> QED
  BY <1>3 DEF T

LEMMA FlattenIs ==
    ASSUME NEW S, NEW s \in Seq(S), s # <<>>
    PROVE  \E F : Flattens(F, s) /\ Email!FlattenSeq(s) = F[Len(s)]
<1> DEFINE G == CHOOSE F : F = [i \in 1..Len(s) |-> IF i = 1 THEN s[i] ELSE F[i - 1] \o s[i]]
<1>1. Len(s) # 0
  OBVIOUS
<1>2. Email!FlattenSeq(s) = G[Len(s)]
  BY <1>1, Zenon DEF Email!FlattenSeq
<1>3. \E F : F = [i \in 1..Len(s) |-> IF i = 1 THEN s[i] ELSE F[i - 1] \o s[i]]
  BY FlattensExists DEF Flattens
<1>4. G = [i \in 1..Len(s) |-> IF i = 1 THEN s[i] ELSE G[i - 1] \o s[i]]
  BY <1>3, Zenon
<1> QED
  BY <1>2, <1>4 DEF Flattens

LEMMA FlattenNone == Email!FlattenSeq(<<>>) = <<>>
  BY DEF Email!FlattenSeq

LEMMA FlattenAppends ==
    ASSUME NEW S, NEW s \in Seq(Seq(S)), NEW x \in Seq(S)
    PROVE  Email!FlattenSeq(Append(s, x)) = IF s = <<>> THEN x ELSE Email!FlattenSeq(s) \o x
<1> DEFINE R == Seq(S)
<1> HIDE DEF R
<1>1. /\ Append(s, x) \in Seq(R) /\ Append(s, x) # <<>>
      /\ Len(Append(s, x)) = Len(s) + 1 /\ Append(s, x)[Len(s) + 1] = x
      /\ s \in Seq(R) /\ x \in R /\ Len(s) \in Nat
  BY AppendProperties, LenProperties DEF R
<1>2. PICK G : Flattens(G, Append(s, x)) /\ Email!FlattenSeq(Append(s, x)) = G[Len(s) + 1]
  BY <1>1, FlattenIs
<1>3. G[Len(s) + 1] = IF Len(s) + 1 = 1 THEN x ELSE G[Len(s)] \o x
  <2> DEFINE t == Append(s, x)
             m == Len(s) + 1
  <2>1. m \in 1..Len(t) /\ t[m] = x /\ m - 1 = Len(s)
    BY <1>1
  <2>2. G = [i \in 1..Len(t) |-> IF i = 1 THEN t[i] ELSE G[i - 1] \o t[i]]
    BY <1>2 DEF Flattens
  <2> HIDE DEF t, m
  <2>3. G[m] = IF m = 1 THEN t[m] ELSE G[m - 1] \o t[m]
    BY <2>1, <2>2
  <2> QED
    BY <2>1, <2>3 DEF m
<1>4. ASSUME s # <<>> PROVE G[Len(s)] = Email!FlattenSeq(s) /\ Len(s) # 0
  <2>1. PICK F : Flattens(F, s) /\ Email!FlattenSeq(s) = F[Len(s)]
    BY <1>1, <1>4, FlattenIs
  <2>2. \A i \in 1..Len(s) : F[i] = G[i]
    BY <1>1, <1>2, <2>1, FlattensAgree
  <2>3. Len(s) \in 1..Len(s)
    BY <1>1, <1>4, EmptySeq
  <2> QED
    BY <2>1, <2>2, <2>3
<1> QED
  BY <1>2, <1>3, <1>4

LEMMA FlattenAppend ==
    ASSUME NEW S, NEW s \in Seq(Seq(S)), NEW x \in Seq(S)
    PROVE  /\ Email!FlattenSeq(s) \in Seq(S)
           /\ Email!FlattenSeq(Append(s, x)) = Email!FlattenSeq(s) \o x
<1> DEFINE T == {t \in Seq(Seq(S)) : Email!FlattenSeq(t) \in Seq(S)}
<1>1. <<>> \in T
  BY FlattenNone, EmptySeq
<1>2. ASSUME NEW t \in T, NEW y \in Seq(S) PROVE Append(t, y) \in T
  <2>1. Email!FlattenSeq(Append(t, y)) \in Seq(S)
    BY FlattenAppends, ConcatProperties
  <2> QED
    BY <2>1, AppendProperties
<1>3. Seq(Seq(S)) \subseteq T
  <2> HIDE DEF T
  <2> QED
    BY <1>1, <1>2, SeqInduct
<1> QED
  BY <1>3, FlattenAppends, FlattenNone, ConcatEmptySeq

LEMMA FlattenCat ==
    ASSUME NEW S, NEW s \in Seq(Seq(S)), NEW t \in Seq(Seq(S))
    PROVE  Email!FlattenSeq(s \o t) = Email!FlattenSeq(s) \o Email!FlattenSeq(t)
<1> DEFINE T == {u \in Seq(Seq(S)) : Email!FlattenSeq(s \o u) =
        Email!FlattenSeq(s) \o Email!FlattenSeq(u)}
<1>1. <<>> \in T
  BY FlattenNone, FlattenAppend
<1>2. ASSUME NEW u \in T, NEW x \in Seq(S) PROVE Append(u, x) \in T
  <2>1. s \o Append(u, x) = Append(s \o u, x) /\ s \o u \in Seq(Seq(S))
    OBVIOUS
  <2>2. Email!FlattenSeq(Append(s \o u, x)) = (Email!FlattenSeq(s) \o Email!FlattenSeq(u)) \o x
    BY <2>1, FlattenAppend
  <2>3. Email!FlattenSeq(s) \in Seq(S) /\ Email!FlattenSeq(u) \in Seq(S)
    BY FlattenAppend
  <2>4. (Email!FlattenSeq(s) \o Email!FlattenSeq(u)) \o x =
            Email!FlattenSeq(s) \o (Email!FlattenSeq(u) \o x)
    <3> DEFINE a == Email!FlattenSeq(s)
               b == Email!FlattenSeq(u)
    <3> HIDE DEF a, b
    <3>1. a \in Seq(S) /\ b \in Seq(S)
      BY <2>3 DEF a, b
    <3>2. (a \o b) \o x = a \o (b \o x)
      BY <3>1, ConcatAssociative
    <3> QED
      BY <3>2 DEF a, b
  <2>5. Append(u, x) \in Seq(Seq(S)) /\ Email!FlattenSeq(Append(u, x)) = Email!FlattenSeq(u) \o x
    BY FlattenAppend, AppendProperties
  <2> QED
    BY <2>1, <2>2, <2>4, <2>5
<1>3. Seq(Seq(S)) \subseteq T
  <2> HIDE DEF T
  <2> QED
    BY <1>1, <1>2, SeqInduct
<1> QED
  BY <1>3

LEMMA FlattenOne == ASSUME NEW S, NEW x \in Seq(S) PROVE Email!FlattenSeq(<<x>>) = x
<1>1. <<>> \in Seq(Seq(S)) /\ <<x>> = Append(<<>>, x)
  OBVIOUS
<1> QED
  BY <1>1, FlattenAppends
---------------------------------------------------------------------------
\* What a sequence holds, and whether it holds it once.
LEMMA HoldsNone == Email!ToSet(<<>>) = {} /\ Email!IsInjective(<<>>)
  BY DEF Email!ToSet, Email!IsInjective

LEMMA HoldsOne == \A x : Email!ToSet(<<x>>) = {x} /\ Email!IsInjective(<<x>>)
  BY DEF Email!ToSet, Email!IsInjective

LEMMA HoldsCat ==
    ASSUME NEW S, NEW a \in Seq(S), NEW b \in Seq(S)
    PROVE  /\ Email!ToSet(a \o b) = Email!ToSet(a) \cup Email!ToSet(b)
           /\ Email!IsInjective(a \o b) <=> Email!IsInjective(a) /\ Email!IsInjective(b)
                  /\ Email!ToSet(a) \cap Email!ToSet(b) = {}
<1> DEFINE c == a \o b
<1>1. /\ DOMAIN a = 1..Len(a) /\ DOMAIN b = 1..Len(b) /\ DOMAIN c = 1..(Len(a) + Len(b))
      /\ Len(a) \in Nat /\ Len(b) \in Nat
      /\ \A i \in 1..Len(a) : c[i] = a[i]
      /\ \A i \in 1..Len(b) : c[Len(a) + i] = b[i]
      /\ \A i \in DOMAIN c : i \notin 1..Len(a) => i - Len(a) \in 1..Len(b) /\ c[i] = b[i - Len(a)]
  BY ConcatProperties, LenProperties
<1> HIDE DEF c
<1>2. Email!ToSet(c) = Email!ToSet(a) \cup Email!ToSet(b)
  <2>1. ASSUME NEW x \in Email!ToSet(a) PROVE x \in Email!ToSet(c)
    BY <1>1 DEF Email!ToSet
  <2>2. ASSUME NEW x \in Email!ToSet(b) PROVE x \in Email!ToSet(c)
    <3>1. PICK i \in 1..Len(b) : x = b[i]
      BY <1>1 DEF Email!ToSet
    <3>2. Len(a) + i \in DOMAIN c /\ c[Len(a) + i] = x
      BY <1>1, <3>1
    <3> QED
      BY <3>2 DEF Email!ToSet
  <2>3. ASSUME NEW x \in Email!ToSet(c) PROVE x \in Email!ToSet(a) \cup Email!ToSet(b)
    BY <1>1 DEF Email!ToSet
  <2> QED
    BY <2>1, <2>2, <2>3
<1>3. ASSUME Email!IsInjective(c)
      PROVE  Email!IsInjective(a) /\ Email!IsInjective(b) /\ Email!ToSet(a) \cap Email!ToSet(b) = {}
  <2>1. Email!IsInjective(a)
    BY <1>1, <1>3 DEF Email!IsInjective
  <2>2. ASSUME NEW i \in 1..Len(b), NEW k \in 1..Len(b), b[i] = b[k] PROVE i = k
    <3>1. Len(a) + i \in DOMAIN c /\ Len(a) + k \in DOMAIN c /\ c[Len(a) + i] = c[Len(a) + k]
      BY <1>1, <2>2
    <3>2. Len(a) + i = Len(a) + k
      BY <1>3, <3>1 DEF Email!IsInjective
    <3> QED
      BY <1>1, <3>2
  <2>3. ASSUME NEW i \in 1..Len(a), NEW k \in 1..Len(b) PROVE a[i] # b[k]
    <3>1. i \in DOMAIN c /\ Len(a) + k \in DOMAIN c /\ i # Len(a) + k
      BY <1>1
    <3> QED
      BY <1>1, <1>3, <3>1 DEF Email!IsInjective
  <2> QED
    BY <1>1, <2>1, <2>2, <2>3 DEF Email!IsInjective, Email!ToSet
<1>4. ASSUME Email!IsInjective(a), Email!IsInjective(b), Email!ToSet(a) \cap Email!ToSet(b) = {},
             NEW i \in DOMAIN c, NEW k \in DOMAIN c, c[i] = c[k]
      PROVE  i = k
  <2>1. \A n \in 1..Len(a), m \in 1..Len(b) : a[n] # b[m]
    BY <1>1, <1>4 DEF Email!ToSet
  <2>2. CASE i \in 1..Len(a) /\ k \in 1..Len(a)
    BY <1>1, <1>4, <2>2 DEF Email!IsInjective
  <2>3. CASE i \notin 1..Len(a) /\ k \notin 1..Len(a)
    <3>1. i - Len(a) = k - Len(a)
      BY <1>1, <1>4, <2>3 DEF Email!IsInjective
    <3> QED
      BY <1>1, <3>1
  <2> QED
    BY <1>1, <1>4, <2>1, <2>2, <2>3
<1> QED
  BY <1>2, <1>3, <1>4 DEF c, Email!IsInjective

LEMMA HoldsFlat ==
    ASSUME NEW S, NEW s \in Seq(Seq(S))
    PROVE  /\ Email!ToSet(Email!FlattenSeq(s)) = UNION {Email!ToSet(s[i]) : i \in DOMAIN s}
           /\ Email!IsInjective(Email!FlattenSeq(s)) <=>
                 /\ \A i \in DOMAIN s : Email!IsInjective(s[i])
                 /\ \A i, k \in DOMAIN s : i # k => Email!ToSet(s[i]) \cap Email!ToSet(s[k]) = {}
<1> DEFINE R == Seq(S)
           Joined(t) == UNION {Email!ToSet(t[i]) : i \in DOMAIN t}
           Apart(t) == /\ \A i \in DOMAIN t : Email!IsInjective(t[i])
                       /\ \A i, k \in DOMAIN t : i # k =>
                              Email!ToSet(t[i]) \cap Email!ToSet(t[k]) = {}
           T == {t \in Seq(R) : Email!ToSet(Email!FlattenSeq(t)) = Joined(t)
                                  /\ (Email!IsInjective(Email!FlattenSeq(t)) <=> Apart(t))}
<1>1. <<>> \in T
  BY FlattenNone, HoldsNone, EmptySeq
<1>2. ASSUME NEW t \in T, NEW x \in R PROVE Append(t, x) \in T
  <2> DEFINE u == Append(t, x)
  <2>1. Email!FlattenSeq(u) = Email!FlattenSeq(t) \o x /\ Email!FlattenSeq(t) \in Seq(S)
    BY FlattenAppend
  <2>2. /\ Email!ToSet(Email!FlattenSeq(u)) = Email!ToSet(Email!FlattenSeq(t)) \cup Email!ToSet(x)
        /\ Email!IsInjective(Email!FlattenSeq(u)) <=>
              /\ Email!IsInjective(Email!FlattenSeq(t)) /\ Email!IsInjective(x)
              /\ Email!ToSet(Email!FlattenSeq(t)) \cap Email!ToSet(x) = {}
    BY <2>1, HoldsCat
  <2> HIDE DEF R
  <2>3. /\ u \in Seq(R) /\ DOMAIN u = DOMAIN t \cup {Len(t) + 1} /\ Len(t) + 1 \notin DOMAIN t
        /\ u[Len(t) + 1] = x /\ \A i \in DOMAIN t : u[i] = t[i]
    BY AppendProperties, LenProperties
  <2> HIDE DEF u
  <2>4. Joined(u) = Joined(t) \cup Email!ToSet(x)
    BY <2>3
  <2>5. Apart(u) <=> Apart(t) /\ Email!IsInjective(x) /\ Joined(t) \cap Email!ToSet(x) = {}
    <3>1. (\A i \in DOMAIN u : Email!IsInjective(u[i]))
            <=> (\A i \in DOMAIN t : Email!IsInjective(t[i])) /\ Email!IsInjective(x)
      BY <2>3
    <3>2. (\A i, k \in DOMAIN u : i # k => Email!ToSet(u[i]) \cap Email!ToSet(u[k]) = {})
            <=> /\ \A i, k \in DOMAIN t : i # k => Email!ToSet(t[i]) \cap Email!ToSet(t[k]) = {}
                /\ \A i \in DOMAIN t : Email!ToSet(t[i]) \cap Email!ToSet(x) = {}
      BY <2>3
    <3> QED
      BY <3>1, <3>2
  <2> QED
    BY <2>2, <2>3, <2>4, <2>5 DEF u
<1>3. Seq(R) \subseteq T
  <2> HIDE DEF T, R
  <2> QED
    BY <1>1, <1>2, SeqInduct
<1> QED
  BY <1>3

---------------------------------------------------------------------------
\* A sequence of sequences made element by element, and put together.
Makes(g, S, R) == g \in [S -> R]
Map(g, s) == [i \in DOMAIN s |-> g[s[i]]]
Spread(g, s) == Email!FlattenSeq(Map(g, s))

LEMMA MapIs ==
    ASSUME NEW S, NEW R, NEW g, Makes(g, S, R), NEW s \in Seq(S)
    PROVE  /\ Map(g, s) \in Seq(R) /\ Len(Map(g, s)) = Len(s) /\ DOMAIN Map(g, s) = DOMAIN s
           /\ \A i \in DOMAIN s : Map(g, s)[i] = g[s[i]]
<1>1. Len(s) \in Nat /\ DOMAIN s = 1..Len(s) /\ \A i \in 1..Len(s) : s[i] \in S
  BY LenProperties
<1>2. [i \in 1..Len(s) |-> g[s[i]]] \in Seq(R)
  BY <1>1 DEF Makes
<1> QED
  BY <1>1, <1>2 DEF Map

LEMMA MapCat ==
    ASSUME NEW S, NEW R, NEW g, Makes(g, S, R), NEW a \in Seq(S), NEW b \in Seq(S)
    PROVE  Map(g, a \o b) = Map(g, a) \o Map(g, b)
<1>1. a \o b \in Seq(S) /\ Len(a \o b) = Len(a) + Len(b) /\ Len(a) \in Nat /\ Len(b) \in Nat
  BY ConcatProperties, LenProperties
<1> DEFINE l == Map(g, a \o b)
           p == Map(g, a)
           q == Map(g, b)
<1>2. /\ l \in Seq(R) /\ Len(l) = Len(a) + Len(b)
      /\ \A i \in 1..(Len(a) + Len(b)) : l[i] = g[(a \o b)[i]]
  <2> DEFINE c == a \o b
  <2>1. c \in Seq(S) /\ Len(c) = Len(a) + Len(b) /\ DOMAIN c = 1..(Len(a) + Len(b))
    BY <1>1, LenProperties
  <2> HIDE DEF c
  <2>2. Map(g, c) \in Seq(R) /\ Len(Map(g, c)) = Len(c)
            /\ \A i \in DOMAIN c : Map(g, c)[i] = g[c[i]]
    BY <2>1, MapIs
  <2> QED
    BY <2>1, <2>2 DEF c
<1>3. /\ p \in Seq(R) /\ Len(p) = Len(a) /\ \A i \in 1..Len(a) : p[i] = g[a[i]]
      /\ q \in Seq(R) /\ Len(q) = Len(b) /\ \A i \in 1..Len(b) : q[i] = g[b[i]]
  BY MapIs, LenProperties
<1> HIDE DEF l, p, q
<1>4. p \o q \in Seq(R) /\ Len(p \o q) = Len(a) + Len(b)
  <2>1. p \in Seq(R) /\ q \in Seq(R) /\ Len(p) = Len(a) /\ Len(q) = Len(b)
    BY <1>3
  <2>2. p \o q \in Seq(R) /\ Len(p \o q) = Len(p) + Len(q)
    BY ONLY <2>1, ConcatProperties
  <2> QED
    BY <2>1, <2>2
<1>5. ASSUME NEW i \in 1..(Len(a) + Len(b)) PROVE l[i] = (p \o q)[i]
  <2>1. (a \o b)[i] = IF i <= Len(a) THEN a[i] ELSE b[i - Len(a)]
    BY ConcatProperties
  <2>2. (p \o q)[i] = IF i <= Len(a) THEN p[i] ELSE q[i - Len(a)]
    BY <1>3, ConcatProperties
  <2>3. /\ i <= Len(a) => i \in 1..Len(a)
        /\ ~(i <= Len(a)) => i - Len(a) \in 1..Len(b)
    BY <1>1
  <2> QED
    BY <1>2, <1>3, <2>1, <2>2, <2>3
<1>6. l = p \o q
  BY <1>2, <1>4, <1>5, SeqEqual
<1> QED
  BY <1>6 DEF l, p, q

LEMMA SpreadIs ==
    ASSUME NEW S, NEW R, NEW g, Makes(g, S, Seq(R))
    PROVE  /\ Spread(g, <<>>) = <<>>
           /\ \A x \in S : Spread(g, <<x>>) = g[x]
           /\ \A a \in Seq(S) : Spread(g, a) \in Seq(R)
           /\ \A a, b \in Seq(S) : Spread(g, a \o b) = Spread(g, a) \o Spread(g, b)
<1> DEFINE Q == Seq(R)
<1>1. \A x \in S : g[x] \in Seq(R)
  BY DEF Makes
<1>2. Spread(g, <<>>) = <<>>
  <2>1. Map(g, <<>>) = <<>>
    BY DEF Map
  <2> QED
    BY <2>1, FlattenNone DEF Spread
<1>3. ASSUME NEW x \in S PROVE Spread(g, <<x>>) = g[x]
  <2>1. Map(g, <<x>>) = <<g[x]>>
    BY DEF Map
  <2> QED
    BY <1>1, <2>1, FlattenOne DEF Spread
<1>4. ASSUME NEW a \in Seq(S) PROVE Map(g, a) \in Seq(Seq(R))
  <2>1. Makes(g, S, Q)
    OBVIOUS
  <2> HIDE DEF Q
  <2>2. Map(g, a) \in Seq(Q)
    BY <2>1, MapIs
  <2> QED
    BY <2>2 DEF Q
<1>5. ASSUME NEW a \in Seq(S) PROVE Spread(g, a) \in Seq(R)
  BY <1>4, FlattenAppend, EmptySeq DEF Spread
<1>6. ASSUME NEW a \in Seq(S), NEW b \in Seq(S)
      PROVE  Spread(g, a \o b) = Spread(g, a) \o Spread(g, b)
  <2>1. Map(g, a \o b) = Map(g, a) \o Map(g, b)
    <3>1. Makes(g, S, Q)
      OBVIOUS
    <3> HIDE DEF Q
    <3> QED
      BY <3>1, MapCat
  <2>2. Email!FlattenSeq(Map(g, a) \o Map(g, b)) =
            Email!FlattenSeq(Map(g, a)) \o Email!FlattenSeq(Map(g, b))
    <3>1. Map(g, a) \in Seq(Seq(R)) /\ Map(g, b) \in Seq(Seq(R))
      BY <1>4
    <3> QED
      BY <3>1, FlattenCat
  <2> QED
    BY <2>1, <2>2 DEF Spread
<1> QED
  BY <1>2, <1>3, <1>5, <1>6

LEMMA SpreadOne ==
    ASSUME NEW S, NEW R, NEW g, Makes(g, S, Seq(R)), NEW x \in S
    PROVE  Spread(g, <<x>>) = g[x]
  BY SpreadIs

LEMMA SpreadCat ==
    ASSUME NEW S, NEW R, NEW g, Makes(g, S, Seq(R)), NEW a \in Seq(S), NEW b \in Seq(S)
    PROVE  Spread(g, a \o b) = Spread(g, a) \o Spread(g, b)
  BY SpreadIs

LEMMA SpreadHolds ==
    ASSUME NEW S, NEW R, NEW g, Makes(g, S, Seq(R)), NEW s \in Seq(S)
    PROVE  /\ Email!ToSet(Spread(g, s)) = UNION {Email!ToSet(g[x]) : x \in Email!ToSet(s)}
           /\ Email!IsInjective(Spread(g, s)) <=>
                 /\ \A i \in DOMAIN s : Email!IsInjective(g[s[i]])
                 /\ \A i, k \in DOMAIN s : i # k =>
                        Email!ToSet(g[s[i]]) \cap Email!ToSet(g[s[k]]) = {}
<1> DEFINE m == Map(g, s)
           Q == Seq(R)
<1>1. m \in Seq(Seq(R)) /\ DOMAIN m = DOMAIN s /\ \A i \in DOMAIN s : m[i] = g[s[i]]
  <2>1. Makes(g, S, Q)
    OBVIOUS
  <2> HIDE DEF Q
  <2>2. m \in Seq(Q) /\ DOMAIN m = DOMAIN s /\ \A i \in DOMAIN s : m[i] = g[s[i]]
    BY <2>1, MapIs
  <2> QED
    BY <2>2 DEF Q
<1> HIDE DEF m
<1>2. /\ Email!ToSet(Email!FlattenSeq(m)) = UNION {Email!ToSet(m[i]) : i \in DOMAIN m}
      /\ Email!IsInjective(Email!FlattenSeq(m)) <=>
            /\ \A i \in DOMAIN m : Email!IsInjective(m[i])
            /\ \A i, k \in DOMAIN m : i # k => Email!ToSet(m[i]) \cap Email!ToSet(m[k]) = {}
  BY <1>1, HoldsFlat
<1>3. {Email!ToSet(m[i]) : i \in DOMAIN m} = {Email!ToSet(g[x]) : x \in Email!ToSet(s)}
  <2> DEFINE H(x) == Email!ToSet(g[x])
             M(i) == Email!ToSet(m[i])
  <2>1. \A i \in DOMAIN s : M(i) = H(s[i])
    BY <1>1
  <2>2. Email!ToSet(s) = {s[i] : i \in DOMAIN s}
    BY DEF Email!ToSet
  <2> HIDE DEF H, M
  <2>3. {M(i) : i \in DOMAIN s} = {H(x) : x \in Email!ToSet(s)}
    BY <2>1, <2>2
  <2> QED
    BY <1>1, <2>3 DEF H, M
<1>4. Spread(g, s) = Email!FlattenSeq(m)
  BY DEF Spread, m
<1>5. \A i \in DOMAIN s : Email!IsInjective(m[i]) <=> Email!IsInjective(g[s[i]])
  BY <1>1
<1>6. \A i, k \in DOMAIN s : Email!ToSet(m[i]) \cap Email!ToSet(m[k]) =
          Email!ToSet(g[s[i]]) \cap Email!ToSet(g[s[k]])
  BY <1>1
<1>7. Email!ToSet(Spread(g, s)) = UNION {Email!ToSet(g[x]) : x \in Email!ToSet(s)}
  <2>1. Email!ToSet(Email!FlattenSeq(m)) = UNION {Email!ToSet(m[i]) : i \in DOMAIN m}
    BY <1>2
  <2> QED
    BY ONLY <1>3, <1>4, <2>1
<1>8. Email!IsInjective(Spread(g, s)) <=>
         /\ \A i \in DOMAIN s : Email!IsInjective(g[s[i]])
         /\ \A i, k \in DOMAIN s : i # k => Email!ToSet(g[s[i]]) \cap Email!ToSet(g[s[k]]) = {}
  <2>1. Email!IsInjective(Email!FlattenSeq(m)) <=>
           /\ \A i \in DOMAIN s : Email!IsInjective(m[i])
           /\ \A i, k \in DOMAIN s : i # k => Email!ToSet(m[i]) \cap Email!ToSet(m[k]) = {}
    BY <1>1, <1>2
  <2> QED
    BY ONLY <1>4, <1>5, <1>6, <2>1
<1> QED
  BY <1>7, <1>8

LEMMA CatInduct ==
    ASSUME NEW S, NEW T, <<>> \in T, \A s \in T \cap Seq(S), x \in S : s \o <<x>> \in T
    PROVE  Seq(S) \subseteq T
<1>1. \A s \in T \cap Seq(S), x \in S : Append(s, x) \in T
  BY AppendIsConcat
<1> QED
  BY <1>1, SeqInduct
---------------------------------------------------------------------------
\* One element put in, taken out, replaced or swapped with another.
LEMMA CutAt ==
    ASSUME NEW S, NEW s \in Seq(S), NEW k \in 0..Len(s)
    PROVE  SubSeq(s, 1, k) \o SubSeq(s, k + 1, Len(s)) = s
<1>1. Len(s) \in Nat
  BY LenProperties
<1>2. 1 \in 1..(Len(s) + 1) /\ k \in (1 - 1)..Len(s) /\ Len(s) \in k..Len(s)
  BY <1>1
<1>3. SubSeq(s, 1, k) \o SubSeq(s, k + 1, Len(s)) = SubSeq(s, 1, Len(s))
  BY <1>2, ConcatAdjacentSubSeq
<1> QED
  BY <1>3, SubSeqFull

LEMMA OneLonger ==
    ASSUME NEW S, NEW a \in Seq(S), NEW x \in S
    PROVE  /\ a \o <<x>> \in Seq(S) /\ Email!ToSet(a \o <<x>>) = Email!ToSet(a) \cup {x}
           /\ Email!IsInjective(a \o <<x>>) <=> Email!IsInjective(a) /\ x \notin Email!ToSet(a)
           /\ <<x>> \o a \in Seq(S) /\ Email!ToSet(<<x>> \o a) = Email!ToSet(a) \cup {x}
           /\ Email!IsInjective(<<x>> \o a) <=> Email!IsInjective(a) /\ x \notin Email!ToSet(a)
<1> DEFINE b == <<x>>
<1>1. b \in Seq(S) /\ Email!ToSet(b) = {x} /\ Email!IsInjective(b)
  BY HoldsOne
<1> HIDE DEF b
<1>2. a \o b \in Seq(S) /\ b \o a \in Seq(S)
  BY <1>1, ConcatProperties
<1>3. /\ Email!ToSet(a \o b) = Email!ToSet(a) \cup Email!ToSet(b)
      /\ Email!IsInjective(a \o b) <=> Email!IsInjective(a) /\ Email!IsInjective(b)
             /\ Email!ToSet(a) \cap Email!ToSet(b) = {}
  BY <1>1, HoldsCat
<1>4. /\ Email!ToSet(b \o a) = Email!ToSet(b) \cup Email!ToSet(a)
      /\ Email!IsInjective(b \o a) <=> Email!IsInjective(b) /\ Email!IsInjective(a)
             /\ Email!ToSet(b) \cap Email!ToSet(a) = {}
  BY <1>1, HoldsCat
<1> QED
  BY <1>1, <1>2, <1>3, <1>4 DEF b

LEMMA InsertIs ==
    ASSUME NEW S, NEW s \in Seq(S), NEW i \in 1..(Len(s) + 1), NEW x \in S
    PROVE  /\ Email!InsertAt(s, i, x) \in Seq(S)
           /\ Email!ToSet(Email!InsertAt(s, i, x)) = Email!ToSet(s) \cup {x}
           /\ Email!IsInjective(s) /\ x \notin Email!ToSet(s) =>
                  Email!IsInjective(Email!InsertAt(s, i, x))
<1> DEFINE a == SubSeq(s, 1, i - 1)
           b == SubSeq(s, i, Len(s))
<1>1. Len(s) \in Nat /\ \A k \in 1..Len(s) : s[k] \in S
  BY LenProperties
<1>2. a \in Seq(S) /\ b \in Seq(S)
  BY <1>1, SubSeqProperties
<1>3. a \o b = s
  <2>1. i - 1 \in 0..Len(s) /\ (i - 1) + 1 = i
    BY <1>1
  <2>2. SubSeq(s, 1, i - 1) \o SubSeq(s, (i - 1) + 1, Len(s)) = s
    BY <2>1, CutAt
  <2> QED
    BY <2>1, <2>2
<1>4. Email!InsertAt(s, i, x) = (a \o <<x>>) \o b
  BY DEF Email!InsertAt
<1> HIDE DEF a, b
<1>5. a \o <<x>> \in Seq(S) /\ Email!ToSet(a \o <<x>>) = Email!ToSet(a) \cup {x}
        /\ (Email!IsInjective(a \o <<x>>) <=> Email!IsInjective(a) /\ x \notin Email!ToSet(a))
  BY <1>2, OneLonger
<1>6. /\ Email!ToSet(a \o b) = Email!ToSet(a) \cup Email!ToSet(b)
      /\ Email!IsInjective(a \o b) <=> Email!IsInjective(a) /\ Email!IsInjective(b)
             /\ Email!ToSet(a) \cap Email!ToSet(b) = {}
  BY <1>2, HoldsCat
<1> DEFINE c == a \o <<x>>
<1>7. c \in Seq(S)
  BY <1>5
<1> HIDE DEF c
<1>8. c \o b \in Seq(S)
  BY <1>2, <1>7, ConcatProperties
<1>9. /\ Email!ToSet(c \o b) = Email!ToSet(c) \cup Email!ToSet(b)
      /\ Email!IsInjective(c \o b) <=> Email!IsInjective(c) /\ Email!IsInjective(b)
             /\ Email!ToSet(c) \cap Email!ToSet(b) = {}
  BY <1>2, <1>7, HoldsCat
<1> QED
  BY <1>3, <1>4, <1>5, <1>6, <1>8, <1>9 DEF c

LEMMA InsertHolds ==
    ASSUME NEW S, NEW s \in Seq(S), NEW i \in 1..(Len(s) + 1), NEW x \in S
    PROVE  Email!ToSet(Email!InsertAt(s, i, x)) = Email!ToSet(s) \cup {x}
  BY InsertIs

LEMMA RemoveIs ==
    ASSUME NEW S, NEW s \in Seq(S), NEW i \in 1..Len(s)
    PROVE  /\ Email!RemoveAt(s, i) \in Seq(S) /\ Len(Email!RemoveAt(s, i)) = Len(s) - 1
           /\ Email!ToSet(Email!RemoveAt(s, i)) \subseteq Email!ToSet(s)
           /\ Email!IsInjective(s) =>
                /\ Email!IsInjective(Email!RemoveAt(s, i))
                /\ Email!ToSet(Email!RemoveAt(s, i)) = Email!ToSet(s) \ {s[i]}
<1> DEFINE a == SubSeq(s, 1, i - 1)
           b == SubSeq(s, i + 1, Len(s))
           x == s[i]
<1>1. Len(s) \in Nat /\ \A k \in 1..Len(s) : s[k] \in S
  BY LenProperties
<1>2. /\ a \in Seq(S) /\ b \in Seq(S) /\ <<x>> \in Seq(S)
      /\ Len(a) = i - 1 /\ Len(b) = Len(s) - i
  <2>1. x \in S
    BY <1>1
  <2>2. a \in Seq(S) /\ Len(a) = i - 1
    BY <1>1, SubSeqProperties
  <2>3. b \in Seq(S) /\ Len(b) = Len(s) - i
    BY <1>1, SubSeqProperties
  <2> QED
    BY <2>1, <2>2, <2>3
<1>3. s = a \o (<<x>> \o b)
  <2>1. SubSeq(s, 1, i - 1) \o SubSeq(s, (i - 1) + 1, Len(s)) = SubSeq(s, 1, Len(s))
    <3>1. i - 1 \in 0..Len(s)
      BY <1>1
    <3> QED
      BY <3>1, CutAt, SubSeqFull
  <2>2. SubSeq(s, i, Len(s)) = <<s[i]>> \o SubSeq(s, i + 1, Len(s))
    <3>1. Len(s) \in i..Len(s)
      BY <1>1
    <3> QED
      BY <3>1, SubSeqRecursiveFirst
  <2>3. (i - 1) + 1 = i
    OBVIOUS
  <2> QED
    BY <2>1, <2>2, <2>3, SubSeqFull
<1>4. Email!RemoveAt(s, i) = a \o b
  BY DEF Email!RemoveAt
<1> HIDE DEF a, b, x
<1> DEFINE c == <<x>> \o b
<1>5. c \in Seq(S) /\ Email!ToSet(c) = Email!ToSet(b) \cup {x}
        /\ (Email!IsInjective(c) <=> Email!IsInjective(b) /\ x \notin Email!ToSet(b))
  <2>1. x \in S
    BY <1>1 DEF x
  <2> QED
    BY <1>2, <2>1, OneLonger
<1>6. s = a \o c
  BY <1>3 DEF c
<1> HIDE DEF c
<1>7. /\ Email!ToSet(a \o c) = Email!ToSet(a) \cup Email!ToSet(c)
      /\ Email!IsInjective(a \o c) <=> Email!IsInjective(a) /\ Email!IsInjective(c)
             /\ Email!ToSet(a) \cap Email!ToSet(c) = {}
  BY <1>2, <1>5, HoldsCat
<1>9. /\ Email!ToSet(a \o b) = Email!ToSet(a) \cup Email!ToSet(b)
      /\ Email!IsInjective(a \o b) <=> Email!IsInjective(a) /\ Email!IsInjective(b)
             /\ Email!ToSet(a) \cap Email!ToSet(b) = {}
  BY <1>2, HoldsCat
<1>10. a \o b \in Seq(S) /\ Len(a \o b) = Len(a) + Len(b)
  <2>1. a \in Seq(S) /\ b \in Seq(S)
    BY <1>2
  <2> QED
    BY ONLY <2>1, ConcatProperties
<1>8. (i - 1) + (Len(s) - i) = Len(s) - 1
  BY <1>1
<1> QED
  BY <1>2, <1>4, <1>5, <1>6, <1>7, <1>8, <1>9, <1>10 DEF x

Replace(s, i, x) == [s EXCEPT ![i] = x]

LEMMA ReplaceIs ==
    ASSUME NEW S, NEW s \in Seq(S), NEW i \in 1..Len(s), NEW x \in S,
           Email!IsInjective(s), x \notin Email!ToSet(s) \ {s[i]}
    PROVE  /\ Replace(s, i, x) \in Seq(S)
           /\ Email!ToSet(Replace(s, i, x)) = (Email!ToSet(s) \ {s[i]}) \cup {x}
           /\ Email!IsInjective(Replace(s, i, x))
<1> DEFINE t == Replace(s, i, x)
<1>1. /\ DOMAIN s = 1..Len(s) /\ t \in Seq(S) /\ DOMAIN t = 1..Len(s)
      /\ t[i] = x /\ \A k \in 1..Len(s) : k # i => t[k] = s[k]
  BY LenProperties, ExceptSeq DEF Replace
<1> HIDE DEF t
<1>2. \A k \in 1..Len(s) : k # i => s[k] # s[i] /\ s[k] \in Email!ToSet(s)
  BY <1>1 DEF Email!IsInjective, Email!ToSet
<1>3. Email!ToSet(t) = (Email!ToSet(s) \ {s[i]}) \cup {x}
  BY <1>1, <1>2 DEF Email!ToSet
<1>4. Email!IsInjective(t)
  BY <1>1, <1>2 DEF Email!IsInjective
<1> QED
  BY <1>1, <1>3, <1>4 DEF t

LEMMA SwapIs ==
    ASSUME NEW S, NEW s \in Seq(S), NEW i \in DOMAIN s, NEW k \in DOMAIN s
    PROVE  /\ Email!Swap(s, i, k) \in Seq(S) /\ Len(Email!Swap(s, i, k)) = Len(s)
           /\ Email!ToSet(Email!Swap(s, i, k)) = Email!ToSet(s)
           /\ Email!IsInjective(s) => Email!IsInjective(Email!Swap(s, i, k))
<1> DEFINE t == Email!Swap(s, i, k)
<1>1. /\ DOMAIN s = 1..Len(s) /\ t \in Seq(S) /\ Len(t) = Len(s) /\ DOMAIN t = 1..Len(s)
      /\ \A j \in 1..Len(s) : t[j] = IF j = k THEN s[i] ELSE IF j = i THEN s[k] ELSE s[j]
  BY LenProperties DEF Email!Swap
<1> HIDE DEF t
<1>2. Email!ToSet(t) = Email!ToSet(s)
  <2>1. \A j \in DOMAIN t : t[j] \in Email!ToSet(s)
    BY <1>1 DEF Email!ToSet
  <2>2. ASSUME NEW j \in DOMAIN s PROVE s[j] \in Email!ToSet(t)
    <3>1. \E m \in DOMAIN t : t[m] = s[j]
      BY <1>1
    <3> QED
      BY <3>1 DEF Email!ToSet
  <2> QED
    BY <2>1, <2>2 DEF Email!ToSet
<1>3. Email!IsInjective(s) => Email!IsInjective(t)
  BY <1>1 DEF Email!IsInjective
<1> QED
  BY <1>1, <1>2, <1>3 DEF t

LEMMA PutIs ==
    ASSUME NEW S, NEW s \in Seq(S), NEW n \in Nat, NEW x \in S
    PROVE  /\ Email!PutAt(s, n, x) \in Seq(S)
           /\ Email!ToSet(Email!PutAt(s, n, x)) = Email!ToSet(s) \cup {x}
           /\ Email!IsInjective(s) /\ x \notin Email!ToSet(s) =>
                  Email!IsInjective(Email!PutAt(s, n, x))
<1>1. Len(s) \in Nat
  BY LenProperties
<1>2. Email!Clamp(n, Len(s)) + 1 \in 1..(Len(s) + 1)
  BY <1>1 DEF Email!Clamp
<1> QED
  BY <1>2, InsertIs DEF Email!PutAt

LEMMA PutHolds ==
    ASSUME NEW S, NEW s \in Seq(S), NEW n \in Nat, NEW x \in S
    PROVE  Email!ToSet(Email!PutAt(s, n, x)) = Email!ToSet(s) \cup {x}
  BY PutIs

LEMMA ToSetIn == ASSUME NEW S, NEW s \in Seq(S) PROVE Email!ToSet(s) \subseteq S
  BY LenProperties DEF Email!ToSet
---------------------------------------------------------------------------
(***************************************************************************)
(* The sheet.  Its rows hold every block of the document and each once;    *)
(* and since a row and the block it was made for have one number, a row    *)
(* that bears a block's number holds that block and no other.              *)
(***************************************************************************)
\* The sheet of a document: its rows, of which each has the columns of its layout.
Shaped == {r \in Email!Row : Len(r.columns) = Email!Columns[r.layout]}
\* The blocks of a row, and of rows.
Holds(r) == UNION {Email!ToSet(r.columns[c]) : c \in DOMAIN r.columns}
Held(R) == UNION {Holds(r) : r \in R}

\* No block is twice in a row.
HoldsOnce(r) ==
    /\ \A c \in DOMAIN r.columns : Email!IsInjective(r.columns[c])
    /\ \A c, d \in DOMAIN r.columns : c # d =>
           Email!ToSet(r.columns[c]) \cap Email!ToSet(r.columns[d]) = {}

\* A row's number is used, by a block only if the row is that block's.
Fits(r, B, n) ==
    /\ -r.id \in 1..(n - 1)
    /\ r.layout = "1" => Len(r.columns[1]) <= 1
    /\ -r.id \in B => r.columns = <<<<-r.id>>>>

\* Rows are told from one another by their ids and by their blocks.
Apart(R) == \A x, y \in R : x # y => x.id # y.id /\ Holds(x) \cap Holds(y) = {}

\* The rows R hold the blocks B, each once.
Whole(R, B, n) ==
    /\ \A r \in R : Fits(r, B, n) /\ HoldsOnce(r)
    /\ Apart(R) /\ Held(R) = B

\* The rows of a document of the blocks B, all numbered below n.
Sheet(rows, B, n) ==
    /\ rows \in Seq(Shaped) /\ Email!IsInjective(rows)
    /\ B \subseteq 1..(n - 1) /\ Whole(Email!ToSet(rows), B, n)

LEMMA ColumnsAre ==
    /\ Email!Columns["1"] = 1
    /\ \A l \in DOMAIN Email!Columns : Email!Columns[l] \in 1..3
           /\ (l # "1" => Email!Columns[l] # 1)
  BY DEF Email!Columns

LEMMA ShapedIs ==
    ASSUME NEW r \in Shaped
    PROVE  /\ r = [id |-> r.id, layout |-> r.layout, columns |-> r.columns]
           /\ r.id \in Int /\ r.layout \in DOMAIN Email!Columns /\ r.columns \in Seq(Seq(Nat))
           /\ DOMAIN r.columns = 1..Email!Columns[r.layout]
           /\ \A c \in DOMAIN r.columns : r.columns[c] \in Seq(Nat)
           /\ 1 \in DOMAIN r.columns
           /\ r.layout = "1" => r.columns = <<r.columns[1]>>
<1>1. /\ r = [id |-> r.id, layout |-> r.layout, columns |-> r.columns]
      /\ r.id \in Int /\ r.layout \in DOMAIN Email!Columns /\ r.columns \in Seq(Seq(Nat))
      /\ Len(r.columns) = Email!Columns[r.layout]
  BY DEF Shaped, Email!Row
<1> DEFINE s == r.columns
           Q == Seq(Nat)
<1>2. s \in Seq(Q) /\ Len(s) = Email!Columns[r.layout]
  BY <1>1
<1> HIDE DEF s, Q
<1>3. DOMAIN s = 1..Email!Columns[r.layout] /\ \A c \in DOMAIN s : s[c] \in Q
  BY <1>2, LenProperties
<1>4. 1 \in DOMAIN s
  BY <1>1, <1>3, ColumnsAre
<1>5. r.layout = "1" => s = <<s[1]>>
  <2>1. ASSUME r.layout = "1" PROVE s = <<s[1]>>
    <3>1. Len(s) = 1
      BY <1>2, <2>1, ColumnsAre
    <3> QED
      BY <1>2, <3>1
  <2> QED
    BY <2>1
<1> QED
  BY <1>1, <1>3, <1>4, <1>5 DEF s, Q

LEMMA IdsAre ==
    ASSUME NEW r \in Shaped
    PROVE  /\ Email!Ids(r) \in Seq(Nat) /\ Email!ToSet(Email!Ids(r)) = Holds(r)
           /\ Email!IsInjective(Email!Ids(r)) <=> HoldsOnce(r)
           /\ Email!Ids(r) = <<>> <=> Holds(r) = {}
           /\ r.layout = "1" => Email!Ids(r) = r.columns[1]
           /\ Holds(r) \subseteq Nat
<1>1. r.columns \in Seq(Seq(Nat))
  BY ShapedIs
<1>2. Email!Ids(r) \in Seq(Nat)
  BY <1>1, FlattenAppend, EmptySeq DEF Email!Ids
<1>3. /\ Email!ToSet(Email!Ids(r)) = Holds(r)
      /\ Email!IsInjective(Email!Ids(r)) <=> HoldsOnce(r)
  BY <1>1, HoldsFlat DEF Email!Ids, Holds, HoldsOnce
<1>4. Email!Ids(r) = <<>> <=> Email!ToSet(Email!Ids(r)) = {}
  <2> DEFINE s == Email!Ids(r)
  <2>1. s \in Seq(Nat)
    BY <1>2
  <2> HIDE DEF s
  <2>2. s = <<>> <=> Email!ToSet(s) = {}
    <3>1. s # <<>> => 1 \in DOMAIN s
      BY <2>1, EmptySeq, LenProperties
    <3> QED
      BY <3>1, HoldsNone DEF Email!ToSet
  <2> QED
    BY <2>2 DEF s
<1>5. ASSUME r.layout = "1" PROVE Email!Ids(r) = r.columns[1]
  BY <1>5, ShapedIs, FlattenOne DEF Email!Ids
<1> QED
  BY <1>2, <1>3, <1>4, <1>5, ToSetIn

idsOf == [r \in Shaped |-> Email!Ids(r)]

LEMMA OrderIs ==
    /\ Makes(idsOf, Shaped, Seq(Nat))
    /\ \A rows \in Seq(Shaped) : Email!Order(rows) = Spread(idsOf, rows)
<1>1. Makes(idsOf, Shaped, Seq(Nat))
  BY IdsAre DEF Makes, idsOf
<1>2. ASSUME NEW rows \in Seq(Shaped) PROVE Email!Order(rows) = Spread(idsOf, rows)
  <2>1. \A i \in DOMAIN rows : rows[i] \in Shaped
    BY LenProperties
  <2>2. [i \in DOMAIN rows |-> Email!Ids(rows[i])] = [i \in DOMAIN rows |-> idsOf[rows[i]]]
    BY <2>1 DEF idsOf
  <2> QED
    BY <2>2 DEF Email!Order, Spread, Map
<1> QED
  BY <1>1, <1>2

LEMMA OrderHolds ==
    ASSUME NEW rows \in Seq(Shaped)
    PROVE  /\ Email!Order(rows) \in Seq(Nat)
           /\ Email!ToSet(Email!Order(rows)) = Held(Email!ToSet(rows))
           /\ Email!IsInjective(Email!Order(rows)) <=>
                 /\ \A i \in DOMAIN rows : HoldsOnce(rows[i])
                 /\ \A i, k \in DOMAIN rows : i # k => Holds(rows[i]) \cap Holds(rows[k]) = {}
<1>1. \A i \in DOMAIN rows : rows[i] \in Shaped
  BY LenProperties
<1>2. \A r \in Shaped : /\ idsOf[r] = Email!Ids(r) /\ Email!ToSet(idsOf[r]) = Holds(r)
                        /\ Email!IsInjective(idsOf[r]) <=> HoldsOnce(r)
  BY IdsAre DEF idsOf
<1>3. Email!Order(rows) = Spread(idsOf, rows) /\ Email!Order(rows) \in Seq(Nat)
  BY OrderIs, SpreadIs
<1>4. Email!ToSet(Email!Order(rows)) = UNION {Email!ToSet(idsOf[x]) : x \in Email!ToSet(rows)}
  BY <1>3, OrderIs, SpreadHolds
<1>5. Email!ToSet(rows) \subseteq Shaped
  BY ToSetIn
<1>6. {Email!ToSet(idsOf[x]) : x \in Email!ToSet(rows)} = {Holds(x) : x \in Email!ToSet(rows)}
  BY <1>2, <1>5
<1>7. Email!IsInjective(Email!Order(rows)) <=>
         /\ \A i \in DOMAIN rows : Email!IsInjective(idsOf[rows[i]])
         /\ \A i, k \in DOMAIN rows : i # k =>
                Email!ToSet(idsOf[rows[i]]) \cap Email!ToSet(idsOf[rows[k]]) = {}
  <2> DEFINE t == Spread(idsOf, rows)
  <2>1. Email!IsInjective(t) <=>
           /\ \A i \in DOMAIN rows : Email!IsInjective(idsOf[rows[i]])
           /\ \A i, k \in DOMAIN rows : i # k =>
                  Email!ToSet(idsOf[rows[i]]) \cap Email!ToSet(idsOf[rows[k]]) = {}
    <3>1. Makes(idsOf, Shaped, Seq(Nat))
      BY OrderIs
    <3> QED
      BY ONLY <3>1, rows \in Seq(Shaped), SpreadHolds
  <2>2. Email!Order(rows) = t
    BY <1>3
  <2> HIDE DEF t
  <2> QED
    BY <2>1, <2>2, Zenon
<1>8. \A i \in DOMAIN rows : Email!ToSet(idsOf[rows[i]]) = Holds(rows[i])
  BY <1>1, <1>2
<1>9. \A i \in DOMAIN rows : Email!IsInjective(idsOf[rows[i]]) <=> HoldsOnce(rows[i])
  BY <1>1, <1>2
<1>10. Email!IsInjective(Email!Order(rows)) <=>
         /\ \A i \in DOMAIN rows : HoldsOnce(rows[i])
         /\ \A i, k \in DOMAIN rows : i # k => Holds(rows[i]) \cap Holds(rows[k]) = {}
  BY <1>7, <1>8, <1>9
<1> QED
  BY <1>3, <1>4, <1>6, <1>10 DEF Held

\* What a sheet says of its order.
LEMMA SheetStands ==
    ASSUME NEW rows, NEW B, NEW n, Sheet(rows, B, n)
    PROVE  /\ Email!IsInjective(Email!Order(rows)) /\ Email!ToSet(Email!Order(rows)) = B
           /\ Email!Order(rows) \in Seq(Nat)
           /\ Email!IsInjective([i \in DOMAIN rows |-> rows[i].id])
<1>1. rows \in Seq(Shaped) /\ Email!IsInjective(rows) /\ Whole(Email!ToSet(rows), B, n)
  BY DEF Sheet
<1>2. \A i \in DOMAIN rows : rows[i] \in Email!ToSet(rows)
  BY DEF Email!ToSet
<1>3. \A i, k \in DOMAIN rows : i # k => rows[i] # rows[k]
  BY <1>1 DEF Email!IsInjective
<1>4. \A i, k \in DOMAIN rows : i # k =>
         rows[i].id # rows[k].id /\ Holds(rows[i]) \cap Holds(rows[k]) = {}
  BY <1>1, <1>2, <1>3 DEF Whole, Apart
<1>5. \A i \in DOMAIN rows : HoldsOnce(rows[i])
  BY <1>1, <1>2 DEF Whole
<1>6. Email!IsInjective([i \in DOMAIN rows |-> rows[i].id])
  BY <1>4 DEF Email!IsInjective
<1> QED
  BY <1>1, <1>4, <1>5, <1>6, OrderHolds DEF Whole

LEMMA WholeTake ==
    ASSUME NEW R, NEW B, NEW n, Whole(R, B, n), NEW r \in R
    PROVE  Whole(R \ {r}, B \ Holds(r), n)
<1>1. Held(R \ {r}) = Held(R) \ Holds(r)
  BY DEF Held, Whole, Apart
<1> QED
  BY <1>1 DEF Whole, Apart, Fits

LEMMA WholePut ==
    ASSUME NEW R, NEW B, NEW n, Whole(R, B, n), NEW x,
           Fits(x, B \cup Holds(x), n), HoldsOnce(x), Holds(x) \cap B = {},
           \A r \in R : r.id # x.id /\ -r.id \notin Holds(x)
    PROVE  Whole(R \cup {x}, B \cup Holds(x), n)
<1>1. Held(R \cup {x}) = Held(R) \cup Holds(x)
  BY DEF Held
<1>2. \A r \in R : Holds(r) \subseteq B
  BY DEF Whole, Held
<1>3. Apart(R \cup {x})
  BY <1>2 DEF Whole, Apart
<1>4. \A r \in R : Fits(r, B \cup Holds(x), n)
  BY DEF Whole, Fits
<1> QED
  BY <1>1, <1>3, <1>4 DEF Whole

LEMMA FitsLater ==
    ASSUME NEW n \in Nat, NEW m \in Nat, n <= m, NEW rows \in Seq(Shaped), NEW B, Sheet(rows, B, n)
    PROVE  Sheet(rows, B, m)
<1>1. Email!ToSet(rows) \subseteq Shaped /\ \A r \in Shaped : r.id \in Int
  BY ToSetIn, ShapedIs
<1> QED
  BY <1>1 DEF Sheet, Whole, Fits
---------------------------------------------------------------------------
\* What is made anew.
LEMMA SingleIs ==
    ASSUME NEW b \in Nat
    PROVE  /\ Email!Single(b) \in Shaped /\ Email!Single(b).id = -b /\ Email!Single(b).layout = "1"
           /\ Email!Single(b).columns = <<<<b>>>> /\ Email!Single(b).columns[1] = <<b>>
           /\ Holds(Email!Single(b)) = {b} /\ HoldsOnce(Email!Single(b))
                  /\ Email!Ids(Email!Single(b)) = <<b>>
<1> DEFINE r == Email!Single(b)
<1>1. /\ r.id = -b /\ r.layout = "1" /\ r.columns = <<<<b>>>>
      /\ DOMAIN r.columns = {1} /\ r.columns[1] = <<b>> /\ Len(r.columns) = 1
  BY DEF Email!Single
<1>2. r \in Shaped
  <2>1. <<<<b>>>> \in Seq(Seq(Nat)) /\ "1" \in DOMAIN Email!Columns /\ -b \in Int
    BY DEF Email!Columns
  <2>2. r \in Email!Row
    BY <2>1 DEF Email!Row, Email!Single
  <2> QED
    BY <1>1, <2>2, ColumnsAre DEF Shaped
<1> HIDE DEF r
<1>3. Holds(r) = {b} /\ HoldsOnce(r)
  <2>1. Email!ToSet(r.columns[1]) = {b} /\ Email!IsInjective(r.columns[1])
    BY <1>1, HoldsOne
  <2> QED
    BY <1>1, <2>1 DEF Holds, HoldsOnce
<1>4. Email!Ids(r) = <<b>>
  BY <1>1, <1>2, IdsAre
<1> QED
  BY <1>1, <1>2, <1>3, <1>4 DEF r

\* A row one of whose columns is another.
WithColumn(r, c, s) == [r EXCEPT !.columns[c] = s]

LEMMA WithColumnIs ==
    ASSUME NEW r \in Shaped, HoldsOnce(r), NEW c \in DOMAIN r.columns,
           NEW s \in Seq(Nat), Email!IsInjective(s),
           Email!ToSet(s) \cap (Holds(r) \ Email!ToSet(r.columns[c])) = {}
    PROVE  /\ WithColumn(r, c, s) \in Shaped /\ HoldsOnce(WithColumn(r, c, s))
           /\ WithColumn(r, c, s).id = r.id /\ WithColumn(r, c, s).layout = r.layout
           /\ WithColumn(r, c, s).columns[c] = s
           /\ DOMAIN WithColumn(r, c, s).columns = DOMAIN r.columns
           /\ Holds(WithColumn(r, c, s)) =
                  (Holds(r) \ Email!ToSet(r.columns[c])) \cup Email!ToSet(s)
<1> DEFINE x == WithColumn(r, c, s)
           Q == Seq(Nat)
<1>1. /\ x = [id |-> r.id, layout |-> r.layout, columns |-> [r.columns EXCEPT ![c] = s]]
      /\ r.columns \in Seq(Q) /\ Len(r.columns) = Email!Columns[r.layout]
      /\ r.id \in Int /\ r.layout \in DOMAIN Email!Columns
  <2>1. /\ r = [id |-> r.id, layout |-> r.layout, columns |-> r.columns]
        /\ r.columns \in Seq(Q) /\ r.id \in Int /\ r.layout \in DOMAIN Email!Columns
    BY ShapedIs
  <2>2. Len(r.columns) = Email!Columns[r.layout]
    BY DEF Shaped
  <2> HIDE DEF Q
  <2>3. DOMAIN r = {"id", "layout", "columns"}
    BY <2>1
  <2>4. x = [r EXCEPT !.columns = [r.columns EXCEPT ![c] = s]]
    BY DEF WithColumn
  <2>5. x = [id |-> r.id, layout |-> r.layout, columns |-> [r.columns EXCEPT ![c] = s]]
    BY <2>1, <2>4
  <2> QED
    BY <2>1, <2>2, <2>5
<1>2. s \in Q
  OBVIOUS
<1> HIDE DEF Q
<1>3. /\ x.columns \in Seq(Q) /\ Len(x.columns) = Len(r.columns) /\ x.columns[c] = s
      /\ DOMAIN x.columns = DOMAIN r.columns
      /\ \A d \in DOMAIN r.columns : d # c => x.columns[d] = r.columns[d]
  BY <1>1, <1>2
<1>4. x \in Shaped /\ x.id = r.id /\ x.layout = r.layout
  BY <1>1, <1>3 DEF Shaped, Email!Row, Q
<1> HIDE DEF x
<1>5. ASSUME NEW d \in DOMAIN r.columns, d # c
      PROVE  Email!ToSet(r.columns[d]) \subseteq Holds(r) \ Email!ToSet(r.columns[c])
  BY <1>5 DEF HoldsOnce, Holds
<1>6. Holds(x) = (Holds(r) \ Email!ToSet(r.columns[c])) \cup Email!ToSet(s)
  <2>1. Holds(x) = (UNION {Email!ToSet(x.columns[d]) :
            d \in DOMAIN r.columns \ {c}}) \cup Email!ToSet(s)
    BY <1>3 DEF Holds
  <2>2. {Email!ToSet(x.columns[d]) : d \in DOMAIN r.columns \ {c}}
          = {Email!ToSet(r.columns[d]) : d \in DOMAIN r.columns \ {c}}
    BY <1>3
  <2>3. UNION {Email!ToSet(r.columns[d]) : d \in DOMAIN r.columns \ {c}} =
            Holds(r) \ Email!ToSet(r.columns[c])
    BY <1>5 DEF Holds
  <2> QED
    BY <2>1, <2>2, <2>3
<1>7. HoldsOnce(x)
  <2>1. \A d \in DOMAIN x.columns : Email!IsInjective(x.columns[d])
    BY <1>3 DEF HoldsOnce
  <2>2. ASSUME NEW d \in DOMAIN x.columns, NEW e \in DOMAIN x.columns, d # e
        PROVE  Email!ToSet(x.columns[d]) \cap Email!ToSet(x.columns[e]) = {}
    <3>1. CASE d = c
      <4>1. Email!ToSet(x.columns[e]) \subseteq Holds(r) \ Email!ToSet(r.columns[c])
        BY <1>3, <1>5, <2>2, <3>1
      <4> QED
        BY <1>3, <3>1, <4>1
    <3>2. CASE e = c
      <4>1. Email!ToSet(x.columns[d]) \subseteq Holds(r) \ Email!ToSet(r.columns[c])
        BY <1>3, <1>5, <2>2, <3>2
      <4> QED
        BY <1>3, <3>2, <4>1
    <3>3. CASE d # c /\ e # c
      BY <1>3, <2>2, <3>3 DEF HoldsOnce
    <3> QED
      BY <3>1, <3>2, <3>3
  <2> QED
    BY <2>1, <2>2 DEF HoldsOnce
<1> QED
  BY <1>3, <1>4, <1>6, <1>7 DEF x

---------------------------------------------------------------------------
\* A row taken from a sheet, put in one, changed or swapped with another.
LEMMA SheetTake ==
    ASSUME NEW rows, NEW B, NEW n, Sheet(rows, B, n), NEW i \in DOMAIN rows
    PROVE  /\ Sheet(Email!RemoveAt(rows, i), B \ Holds(rows[i]), n)
           /\ Email!ToSet(Email!RemoveAt(rows, i)) = Email!ToSet(rows) \ {rows[i]}
<1>1. rows \in Seq(Shaped) /\ Email!IsInjective(rows) /\ B \subseteq 1..(n - 1)
          /\ Whole(Email!ToSet(rows), B, n)
  BY DEF Sheet
<1>2. i \in 1..Len(rows) /\ rows[i] \in Email!ToSet(rows)
  BY <1>1, LenProperties DEF Email!ToSet
<1>3. /\ Email!RemoveAt(rows, i) \in Seq(Shaped) /\ Email!IsInjective(Email!RemoveAt(rows, i))
      /\ Email!ToSet(Email!RemoveAt(rows, i)) = Email!ToSet(rows) \ {rows[i]}
  BY <1>1, <1>2, RemoveIs
<1>4. Whole(Email!ToSet(rows) \ {rows[i]}, B \ Holds(rows[i]), n)
  BY <1>1, <1>2, WholeTake
<1> QED
  BY <1>1, <1>3, <1>4 DEF Sheet

\* What a row needs to come among the rows R that hold B.
Comes(x, R, B, n) ==
    /\ x \in Shaped /\ Fits(x, B \cup Holds(x), n) /\ HoldsOnce(x)
    /\ Holds(x) \cap B = {} /\ Holds(x) \subseteq 1..(n - 1)
    /\ \A r \in R : r.id # x.id /\ -r.id \notin Holds(x)

LEMMA SheetPut ==
    ASSUME NEW rows, NEW B, NEW n, Sheet(rows, B, n), NEW x, Comes(x, Email!ToSet(rows), B, n),
           NEW k \in 1..(Len(rows) + 1)
    PROVE  Sheet(Email!InsertAt(rows, k, x), B \cup Holds(x), n)
<1>1. rows \in Seq(Shaped) /\ Email!IsInjective(rows) /\ B \subseteq 1..(n - 1)
          /\ Whole(Email!ToSet(rows), B, n)
  BY DEF Sheet
<1>2. x \in Shaped /\ x \notin Email!ToSet(rows)
  BY DEF Comes
<1>3. /\ Email!InsertAt(rows, k, x) \in Seq(Shaped) /\ Email!IsInjective(Email!InsertAt(rows, k, x))
      /\ Email!ToSet(Email!InsertAt(rows, k, x)) = Email!ToSet(rows) \cup {x}
  BY <1>1, <1>2, InsertIs
<1>4. Whole(Email!ToSet(rows) \cup {x}, B \cup Holds(x), n)
  BY <1>1, WholePut DEF Comes
<1> QED
  BY <1>1, <1>3, <1>4 DEF Sheet, Comes

LEMMA SheetPutAt ==
    ASSUME NEW rows, NEW B, NEW n, Sheet(rows, B, n), NEW x, Comes(x, Email!ToSet(rows), B, n),
           NEW k \in Nat
    PROVE  Sheet(Email!PutAt(rows, k, x), B \cup Holds(x), n)
<1>1. Len(rows) \in Nat
  BY LenProperties DEF Sheet
<1>2. Email!Clamp(k, Len(rows)) + 1 \in 1..(Len(rows) + 1)
  BY <1>1 DEF Email!Clamp
<1> QED
  BY <1>2, SheetPut DEF Email!PutAt

LEMMA SheetChange ==
    ASSUME NEW rows, NEW B, NEW n, Sheet(rows, B, n), NEW i \in DOMAIN rows, NEW x,
           Comes(x, Email!ToSet(rows) \ {rows[i]}, B \ Holds(rows[i]), n)
    PROVE  Sheet(Replace(rows, i, x), (B \ Holds(rows[i])) \cup Holds(x), n)
<1>1. rows \in Seq(Shaped) /\ Email!IsInjective(rows) /\ B \subseteq 1..(n - 1)
          /\ Whole(Email!ToSet(rows), B, n)
  BY DEF Sheet
<1>2. i \in 1..Len(rows) /\ rows[i] \in Email!ToSet(rows) /\ x \in Shaped
          /\ x \notin Email!ToSet(rows) \ {rows[i]}
  BY <1>1, LenProperties DEF Email!ToSet, Comes
<1> DEFINE t == Replace(rows, i, x)
<1>3. t \in Seq(Shaped) /\ Email!IsInjective(t)
          /\ Email!ToSet(t) = (Email!ToSet(rows) \ {rows[i]}) \cup {x}
  <2>1. i \in 1..Len(rows) /\ x \in Shaped /\ x \notin Email!ToSet(rows) \ {rows[i]}
    BY <1>2
  <2> QED
    BY ONLY <1>1, <2>1, ReplaceIs
<1> HIDE DEF t
<1>4. Whole(Email!ToSet(rows) \ {rows[i]}, B \ Holds(rows[i]), n)
  BY <1>1, <1>2, WholeTake
<1>5. Whole((Email!ToSet(rows) \ {rows[i]}) \cup {x}, (B \ Holds(rows[i])) \cup Holds(x), n)
  BY <1>4, WholePut DEF Comes
<1> QED
  BY <1>1, <1>3, <1>5 DEF Sheet, Comes, t

LEMMA SheetSwap ==
    ASSUME NEW rows, NEW B, NEW n, Sheet(rows, B, n), NEW i \in DOMAIN rows, NEW k \in DOMAIN rows
    PROVE  Sheet(Email!Swap(rows, i, k), B, n)
  BY SwapIs DEF Sheet

\* What another row says of a block or a number.
LEMMA RowsTold ==
    ASSUME NEW R, NEW B, NEW n, Whole(R, B, n), R \subseteq Shaped, NEW r \in R
    PROVE  /\ Holds(r) \subseteq B
           /\ r.layout # "1" => -r.id \notin B
           /\ \A b \in Holds(r), x \in R : -x.id = b => x = r /\ r.layout = "1"
<1>1. Holds(r) \subseteq B
  BY DEF Whole, Held
<1>2. ASSUME NEW x \in R, -x.id \in B PROVE x.layout = "1" /\ -x.id \in Holds(x)
  <2>1. x.columns = <<<<-x.id>>>>
    BY <1>2 DEF Whole, Fits
  <2>2. x \in Shaped /\ Len(x.columns) = 1 /\ DOMAIN x.columns = {1} /\ x.columns[1] = <<-x.id>>
    BY <2>1
  <2>3. x.layout = "1"
    BY <2>2, ColumnsAre, ShapedIs DEF Shaped
  <2>4. Email!ToSet(x.columns[1]) = {-x.id}
    BY <2>2, HoldsOne
  <2>5. -x.id \in Holds(x)
    BY <2>2, <2>4 DEF Holds
  <2> QED
    BY <2>3, <2>5
<1>3. ASSUME NEW b \in Holds(r), NEW x \in R, -x.id = b PROVE x = r /\ r.layout = "1"
  <2>1. b \in Holds(x) /\ x.layout = "1"
    BY <1>1, <1>2, <1>3
  <2> QED
    BY <2>1 DEF Whole, Apart
<1> QED
  BY <1>1, <1>2, <1>3
---------------------------------------------------------------------------
\* The elements of a sequence that are in K.
Chosen(S, K) == [x \in S |-> IF x \in K THEN <<x>> ELSE <<>>]

LEMMA ChosenMakes ==
    ASSUME NEW S, NEW K
    PROVE  /\ Makes(Chosen(S, K), S, Seq(S))
           /\ \A x \in S : Chosen(S, K)[x] = IF x \in K THEN <<x>> ELSE <<>>
<1>1. \A x \in S : <<x>> \in Seq(S) /\ <<>> \in Seq(S)
  OBVIOUS
<1> QED
  BY <1>1 DEF Makes, Chosen

LEMMA ChosenIs ==
    ASSUME NEW S, NEW K, NEW s \in Seq(S)
    PROVE  /\ Spread(Chosen(S, K), s) \in Seq(S)
           /\ Email!ToSet(Spread(Chosen(S, K), s)) = Email!ToSet(s) \cap K
           /\ Email!IsInjective(s) => Email!IsInjective(Spread(Chosen(S, K), s))
           /\ Email!ToSet(s) \subseteq K => Spread(Chosen(S, K), s) = s
           /\ Email!ToSet(s) \cap K = {} => Spread(Chosen(S, K), s) = <<>>
<1> DEFINE g == Chosen(S, K)
<1>1. Makes(g, S, Seq(S)) /\ \A x \in S : g[x] = IF x \in K THEN <<x>> ELSE <<>>
  BY ChosenMakes
<1> HIDE DEF g
<1>2. /\ Spread(g, <<>>) = <<>> /\ \A x \in S : Spread(g, <<x>>) = g[x]
      /\ \A t \in Seq(S) : Spread(g, t) \in Seq(S)
      /\ \A t, u \in Seq(S) : Spread(g, t \o u) = Spread(g, t) \o Spread(g, u)
  <2>1. Makes(g, S, Seq(S))
    BY <1>1
  <2>2. Spread(g, <<>>) = <<>>
    BY <2>1, SpreadIs
  <2>3. \A x \in S : Spread(g, <<x>>) = g[x]
    BY <2>1, SpreadOne
  <2>4. \A t \in Seq(S) : Spread(g, t) \in Seq(S)
    BY <2>1, SpreadIs
  <2>5. \A t, u \in Seq(S) : Spread(g, t \o u) = Spread(g, t) \o Spread(g, u)
    BY <2>1, SpreadCat
  <2> QED
    BY <2>2, <2>3, <2>4, <2>5
<1> DEFINE T == {t \in Seq(S) : /\ Spread(g, t) \in Seq(S)
                                /\ Email!ToSet(Spread(g, t)) = Email!ToSet(t) \cap K
                                /\ Email!IsInjective(t) => Email!IsInjective(Spread(g, t))
                                /\ Email!ToSet(t) \subseteq K => Spread(g, t) = t
                                /\ Email!ToSet(t) \cap K = {} => Spread(g, t) = <<>>}
<1>3. <<>> \in T
  <2>1. <<>> \in Seq(S)
    OBVIOUS
  <2> DEFINE e == <<>>
  <2>2. Spread(g, e) = e /\ Email!ToSet(e) = {} /\ Email!IsInjective(e) /\ e \in Seq(S)
    BY <1>2, <2>1, HoldsNone
  <2> HIDE DEF e
  <2>3. e \in T
    BY <2>2 DEF e
  <2> QED
    BY <2>3 DEF e
<1>4. ASSUME NEW t \in T, NEW x \in S PROVE t \o <<x>> \in T
  <2> DEFINE p == Spread(g, t)
  <2>1. /\ t \in Seq(S) /\ p \in Seq(S) /\ Email!ToSet(p) = Email!ToSet(t) \cap K
        /\ Email!IsInjective(t) => Email!IsInjective(p)
        /\ Email!ToSet(t) \subseteq K => p = t
        /\ Email!ToSet(t) \cap K = {} => p = <<>>
    OBVIOUS
  <2>2. Spread(g, t \o <<x>>) = p \o g[x]
    <3>1. <<x>> \in Seq(S) /\ t \in Seq(S)
      OBVIOUS
    <3> HIDE DEF T
    <3>2. Spread(g, t \o <<x>>) = Spread(g, t) \o Spread(g, <<x>>) /\ Spread(g, <<x>>) = g[x]
      BY <1>2, <3>1
    <3> QED
      BY <3>2
  <2> HIDE DEF p
  <2>3. p \o <<>> = p /\ <<>> \o <<x>> = <<x>>
    BY <2>1
  <2>4. /\ t \o <<x>> \in Seq(S) /\ Email!ToSet(t \o <<x>>) = Email!ToSet(t) \cup {x}
        /\ Email!IsInjective(t \o <<x>>) <=> Email!IsInjective(t) /\ x \notin Email!ToSet(t)
        /\ p \o <<x>> \in Seq(S) /\ Email!ToSet(p \o <<x>>) = Email!ToSet(p) \cup {x}
        /\ Email!IsInjective(p \o <<x>>) <=> Email!IsInjective(p) /\ x \notin Email!ToSet(p)
    BY <2>1, OneLonger
  <2>5. CASE x \in K
    <3>1. Spread(g, t \o <<x>>) = p \o <<x>>
      BY <1>1, <2>2, <2>5
    <3>2. ~(Email!ToSet(t \o <<x>>) \cap K = {})
      BY <2>4, <2>5
    <3> QED
      BY <2>1, <2>4, <2>5, <3>1, <3>2
  <2>6. CASE x \notin K
    <3>1. Spread(g, t \o <<x>>) = p
      BY <1>1, <2>2, <2>3, <2>6
    <3>2. ~(Email!ToSet(t \o <<x>>) \subseteq K)
      BY <2>4, <2>6
    <3> QED
      BY <2>1, <2>4, <2>6, <3>1, <3>2
  <2> QED
    BY <2>5, <2>6
<1>5. Seq(S) \subseteq T
  <2> HIDE DEF T
  <2> QED
    BY <1>3, <1>4, CatInduct
<1> QED
  BY <1>5 DEF g

LEMMA SheetChoose ==
    ASSUME NEW rows, NEW B, NEW n, Sheet(rows, B, n), NEW K,
           \A r \in Email!ToSet(rows) \ K : Holds(r) = {}
    PROVE  Sheet(Spread(Chosen(Shaped, K), rows), B, n)
<1>1. rows \in Seq(Shaped) /\ Email!IsInjective(rows) /\ B \subseteq 1..(n - 1)
          /\ Whole(Email!ToSet(rows), B, n)
  BY DEF Sheet
<1>2. /\ Spread(Chosen(Shaped, K), rows) \in Seq(Shaped)
      /\ Email!IsInjective(Spread(Chosen(Shaped, K), rows))
      /\ Email!ToSet(Spread(Chosen(Shaped, K), rows)) = Email!ToSet(rows) \cap K
  BY <1>1, ChosenIs
<1>3. Held(Email!ToSet(rows) \cap K) = Held(Email!ToSet(rows))
  BY DEF Held
<1>4. Whole(Email!ToSet(rows) \cap K, B, n)
  BY <1>1, <1>3 DEF Whole, Apart
<1> QED
  BY <1>1, <1>2, <1>4 DEF Sheet

DrawnRows == {r \in Shaped : r.layout # "1" \/ r.columns[1] # <<>>}
FilledRows == {r \in Shaped : Email!Ids(r) # <<>>}

LEMMA FiltersAre ==
    ASSUME NEW rows \in Seq(Shaped)
    PROVE  /\ Email!tidy(rows) = Spread(Chosen(Shaped, DrawnRows), rows)
           /\ Email!Filled(rows) = Spread(Chosen(Shaped, FilledRows), rows)
<1>1. \A i \in DOMAIN rows : rows[i] \in Shaped
  BY LenProperties
<1>2. \A i \in DOMAIN rows :
         /\ Chosen(Shaped, DrawnRows)[rows[i]]
              = IF rows[i].layout # "1" \/ rows[i].columns[1] # <<>> THEN <<rows[i]>> ELSE <<>>
         /\ Chosen(Shaped, FilledRows)[rows[i]]
              = IF Email!Ids(rows[i]) # <<>> THEN <<rows[i]>> ELSE <<>>
  BY <1>1, ChosenMakes DEF DrawnRows, FilledRows
<1>3. Map(Chosen(Shaped, DrawnRows), rows)
        = [i \in DOMAIN rows |-> IF rows[i].layout # "1" \/ rows[i].columns[1] # <<>>
                                 THEN <<rows[i]>> ELSE <<>>]
  BY <1>2 DEF Map
<1>4. Map(Chosen(Shaped, FilledRows), rows)
        = [i \in DOMAIN rows |-> IF Email!Ids(rows[i]) # <<>> THEN <<rows[i]>> ELSE <<>>]
  BY <1>2 DEF Map
<1> QED
  BY <1>3, <1>4 DEF Email!tidy, Email!Filled, Email!Filter, Spread

LEMMA TidyIs ==
    ASSUME NEW rows, NEW B, NEW n, Sheet(rows, B, n)
    PROVE  /\ Sheet(Email!tidy(rows), B, n)
           /\ Email!ToSet(Email!tidy(rows)) =
                  {r \in Email!ToSet(rows) : r.layout # "1" \/ r.columns[1] # <<>>}
<1>1. rows \in Seq(Shaped) /\ Email!ToSet(rows) \subseteq Shaped
  BY ToSetIn DEF Sheet
<1>2. \A r \in Email!ToSet(rows) \ DrawnRows : Holds(r) = {}
  BY <1>1, IdsAre DEF DrawnRows
<1>3. Sheet(Email!tidy(rows), B, n)
  BY <1>1, <1>2, FiltersAre, SheetChoose
<1>4. Email!ToSet(Email!tidy(rows)) = Email!ToSet(rows) \cap DrawnRows
  BY <1>1, FiltersAre, ChosenIs
<1> QED
  BY <1>1, <1>3, <1>4 DEF DrawnRows

---------------------------------------------------------------------------
\* A column of a row with columns takes other blocks.
LEMMA SheetColumn ==
    ASSUME NEW rows, NEW B, NEW n, Sheet(rows, B, n), NEW i \in DOMAIN rows,
           rows[i].layout # "1", NEW c \in DOMAIN rows[i].columns,
           NEW s \in Seq(Nat), Email!IsInjective(s), NEW N,
           Email!ToSet(s) \subseteq Email!ToSet(rows[i].columns[c]) \cup N,
           N \subseteq 1..(n - 1), N \cap B = {}, \A r \in Email!ToSet(rows) : -r.id \notin N
    PROVE  Sheet(Replace(rows, i, WithColumn(rows[i], c, s)),
                 (B \ Email!ToSet(rows[i].columns[c])) \cup Email!ToSet(s), n)
<1> DEFINE r == rows[i]
           x == WithColumn(r, c, s)
           Old == Email!ToSet(r.columns[c])
<1>1. rows \in Seq(Shaped) /\ Email!IsInjective(rows) /\ B \subseteq 1..(n - 1)
          /\ Whole(Email!ToSet(rows), B, n)
  BY DEF Sheet
<1>2. r \in Shaped /\ r \in Email!ToSet(rows) /\ Email!ToSet(rows) \subseteq Shaped
  BY <1>1, LenProperties, ToSetIn DEF Email!ToSet
<1>3. r.layout # "1" /\ c \in DOMAIN r.columns /\ Email!ToSet(s) \subseteq Old \cup N
  OBVIOUS
<1> HIDE DEF r
<1>4. HoldsOnce(r) /\ -r.id \in 1..(n - 1)
  BY <1>1, <1>2 DEF Whole, Fits
<1>5. Holds(r) \subseteq B /\ -r.id \notin B
  BY <1>1, <1>2, <1>3, RowsTold
<1>6. Old \subseteq Holds(r)
  BY <1>3 DEF Holds
<1>7. Email!ToSet(s) \cap (Holds(r) \ Old) = {}
  BY <1>3, <1>5
<1>8. /\ x \in Shaped /\ HoldsOnce(x) /\ x.id = r.id /\ x.layout = r.layout
      /\ Holds(x) = (Holds(r) \ Old) \cup Email!ToSet(s)
  BY <1>2, <1>3, <1>4, <1>7, WithColumnIs
<1> HIDE DEF x, Old
<1>9. Fits(x, (B \ Holds(r)) \cup Holds(x), n)
  <2>1. -x.id \notin (B \ Holds(r)) \cup Holds(x)
    BY <1>2, <1>3, <1>5, <1>6, <1>8
  <2> QED
    BY <1>3, <1>4, <1>8, <2>1 DEF Fits
<1>10. ASSUME NEW q \in Email!ToSet(rows), q # r PROVE q.id # x.id /\ -q.id \notin Holds(x)
  <2>1. q.id # r.id
    BY <1>1, <1>2, <1>10 DEF Whole, Apart
  <2>2. \A k \in Holds(r) : -q.id # k
    BY <1>1, <1>2, <1>10, RowsTold
  <2> QED
    BY <1>3, <1>6, <1>8, <2>1, <2>2
<1>11. Comes(x, Email!ToSet(rows) \ {r}, B \ Holds(r), n)
  BY <1>1, <1>3, <1>5, <1>6, <1>8, <1>9, <1>10 DEF Comes
<1>12. Sheet(Replace(rows, i, x), (B \ Holds(r)) \cup Holds(x), n)
  BY <1>11, SheetChange DEF r
<1>13. (B \ Holds(r)) \cup Holds(x) = (B \ Old) \cup Email!ToSet(s)
  BY <1>3, <1>5, <1>6, <1>8
<1> QED
  BY <1>12, <1>13 DEF x, r, Old

---------------------------------------------------------------------------
\* A place that is a slot of the rows: between two, or in a row with columns.
Place(rows, at) ==
    /\ at.index \in Nat
    /\ Email!InColumn(at) =>
         \E i \in DOMAIN rows :
             /\ rows[i].id = at.row /\ rows[i].layout # "1"
             /\ at.column \in DOMAIN rows[i].columns

LEMMA InsertStands ==
    ASSUME NEW rows, NEW B, NEW n, Sheet(rows, B, n), NEW b \in 1..(n - 1), n \in Nat, b \notin B,
           \A r \in Email!ToSet(rows) : -r.id # b, NEW at, Place(rows, at)
    PROVE  Sheet(Email!insertBlockId(rows, b, at), B \cup {b}, n)
<1>1. rows \in Seq(Shaped) /\ Email!IsInjective(rows) /\ B \subseteq 1..(n - 1)
          /\ Whole(Email!ToSet(rows), B, n)
  BY DEF Sheet
<1>2. \A i \in DOMAIN rows : rows[i] \in Shaped /\ rows[i] \in Email!ToSet(rows)
  BY <1>1, LenProperties DEF Email!ToSet
<1>3. CASE ~Email!InColumn(at)
  <2>1. Email!insertBlockId(rows, b, at) = Email!PutAt(rows, at.index, Email!Single(b))
            /\ at.index \in Nat
    BY <1>3 DEF Email!insertBlockId, Place
  <2>2. /\ Email!Single(b) \in Shaped /\ Email!Single(b).id = -b /\ Email!Single(b).layout = "1"
        /\ Email!Single(b).columns = <<<<b>>>> /\ Email!Single(b).columns[1] = <<b>>
        /\ Holds(Email!Single(b)) = {b} /\ HoldsOnce(Email!Single(b))
    BY SingleIs
  <2>3. -(-b) = b /\ Len(<<b>>) = 1
    OBVIOUS
  <2>4. Fits(Email!Single(b), B \cup {b}, n)
    BY <2>2, <2>3 DEF Fits
  <2>5. \A r \in Email!ToSet(rows) : r.id # -b
    BY <2>3
  <2>6. Comes(Email!Single(b), Email!ToSet(rows), B, n)
    BY <2>2, <2>4, <2>5 DEF Comes
  <2>7. Sheet(Email!PutAt(rows, at.index, Email!Single(b)), B \cup Holds(Email!Single(b)), n)
    BY <2>1, <2>6, SheetPutAt
  <2> QED
    BY <2>1, <2>2, <2>7
<1>4. CASE Email!InColumn(at)
  <2> DEFINE i == CHOOSE i \in DOMAIN rows : rows[i].id = at.row
             c == at.column
             s == Email!PutAt(rows[i].columns[c], at.index, b)
             x == WithColumn(rows[i], c, s)
  <2>1. /\ i \in DOMAIN rows /\ rows[i].layout # "1" /\ c \in DOMAIN rows[i].columns
        /\ at.index \in Nat
    <3>1. PICK k \in DOMAIN rows : /\ rows[k].id = at.row /\ rows[k].layout # "1"
                                   /\ at.column \in DOMAIN rows[k].columns
      BY <1>4 DEF Place
    <3>2. i \in DOMAIN rows /\ rows[i].id = at.row
      BY <3>1
    <3> HIDE DEF i
    <3>3. rows[i] = rows[k]
      BY <1>1, <1>2, <3>1, <3>2 DEF Whole, Apart
    <3> QED
      BY <3>1, <3>2, <3>3 DEF Place
  <2>2. Email!insertBlockId(rows, b, at) = Replace(rows, i, x)
    BY <1>4 DEF Email!insertBlockId, Replace, WithColumn
  <2> HIDE DEF i
  <2> DEFINE old == rows[i].columns[c]
  <2>3. old \in Seq(Nat) /\ Email!IsInjective(old) /\ Email!ToSet(old) \subseteq B
    <3>1. rows[i] \in Shaped /\ HoldsOnce(rows[i]) /\ Holds(rows[i]) \subseteq B
      BY <1>1, <1>2, <2>1 DEF Whole, Held
    <3> QED
      BY <2>1, <3>1, ShapedIs DEF HoldsOnce, Holds
  <2> HIDE DEF old
  <2>4. s \in Seq(Nat) /\ Email!ToSet(s) = Email!ToSet(old) \cup {b} /\ Email!IsInjective(s)
    <3>1. s = Email!PutAt(old, at.index, b) /\ b \notin Email!ToSet(old) /\ b \in Nat
      BY <2>3 DEF old
    <3>2. /\ Email!PutAt(old, at.index, b) \in Seq(Nat)
          /\ Email!IsInjective(Email!PutAt(old, at.index, b))
          /\ Email!ToSet(Email!PutAt(old, at.index, b)) = Email!ToSet(old) \cup {b}
      <4>1. /\ old \in Seq(Nat) /\ Email!IsInjective(old) /\ b \notin Email!ToSet(old)
            /\ at.index \in Nat /\ b \in Nat
        BY <2>1, <2>3, <3>1
      <4> HIDE DEF old, s, x, c
      <4>2. Email!PutAt(old, at.index, b) \in Seq(Nat)
        BY <4>1, PutIs
      <4>3. Email!ToSet(Email!PutAt(old, at.index, b)) = Email!ToSet(old) \cup {b}
        BY <4>1, PutHolds
      <4>4. Email!IsInjective(Email!PutAt(old, at.index, b))
        BY <4>1, PutIs
      <4> QED
        BY <4>2, <4>3, <4>4
    <3> HIDE DEF s
    <3> QED
      BY <3>1, <3>2
  <2>5. Email!ToSet(s) \subseteq Email!ToSet(rows[i].columns[c]) \cup {b}
    BY <2>4 DEF old
  <2> HIDE DEF s
  <2>6. {b} \subseteq 1..(n - 1) /\ {b} \cap B = {} /\ \A r \in Email!ToSet(rows) : -r.id \notin {b}
    OBVIOUS
  <2> HIDE DEF c
  <2>7. Sheet(Replace(rows, i, x), (B \ Email!ToSet(rows[i].columns[c])) \cup Email!ToSet(s), n)
    BY <2>1, <2>4, <2>5, <2>6, SheetColumn
  <2>8. (B \ Email!ToSet(old)) \cup Email!ToSet(s) = B \cup {b}
    BY <2>3, <2>4
  <2> QED
    BY <2>2, <2>7, <2>8 DEF old
<1> QED
  BY <1>3, <1>4

---------------------------------------------------------------------------
\* The row, the column and the place in it of a block.
IsSpot(rows, id, s) ==
    /\ s[1] \in DOMAIN rows /\ s[2] \in DOMAIN rows[s[1]].columns
    /\ s[3] \in DOMAIN rows[s[1]].columns[s[2]] /\ rows[s[1]].columns[s[2]][s[3]] = id

LEMMA SpotIs ==
    ASSUME NEW doc, NEW B, NEW n, Sheet(doc.rows, B, n), NEW id, NEW s \in Email!SpotOf(doc, id)
    PROVE  /\ IsSpot(doc.rows, id, s)
           /\ Email!RowOf(doc, id) = {} => doc.rows[s[1]].layout # "1"
<1>1. doc.rows \in Seq(Shaped) /\ Whole(Email!ToSet(doc.rows), B, n)
  BY DEF Sheet
<1>2. PICK r \in DOMAIN doc.rows : \E c \in DOMAIN doc.rows[r].columns :
         \E i \in DOMAIN doc.rows[r].columns[c] :
           s = <<r, c, i>> /\ doc.rows[r].columns[c][i] = id
  BY DEF Email!SpotOf
<1>3. PICK c \in DOMAIN doc.rows[r].columns : \E i \in DOMAIN doc.rows[r].columns[c] :
         s = <<r, c, i>> /\ doc.rows[r].columns[c][i] = id
  BY <1>2
<1>4. PICK i \in DOMAIN doc.rows[r].columns[c] :
         s = <<r, c, i>> /\ doc.rows[r].columns[c][i] = id
  BY <1>3
<1>5. s[1] = r /\ s[2] = c /\ s[3] = i
  BY <1>4
<1>6. ASSUME Email!RowOf(doc, id) = {}, doc.rows[r].layout = "1" PROVE FALSE
  <2> DEFINE x == doc.rows[r]
  <2>1. x \in Shaped /\ Fits(x, B, n)
    BY <1>1, LenProperties DEF Whole, Email!ToSet
  <2>2. x.layout = "1" /\ c \in DOMAIN x.columns /\ i \in DOMAIN x.columns[c]
            /\ x.columns[c][i] = id
    BY <1>4, <1>6
  <2>3. Email!targetIdOf(x) # id
    BY <1>6 DEF Email!RowOf
  <2> HIDE DEF x
  <2>4. c = 1 /\ x.columns[1] \in Seq(Nat)
    BY <2>1, <2>2, ShapedIs, ColumnsAre
  <2>5. Len(x.columns[1]) = 1 /\ i = 1
    <3> DEFINE col == x.columns[1]
    <3>1. col \in Seq(Nat) /\ Len(col) <= 1 /\ i \in DOMAIN col
      BY <2>1, <2>2, <2>4 DEF Fits
    <3> HIDE DEF col
    <3>2. DOMAIN col = 1..Len(col) /\ Len(col) \in Nat
      BY ONLY <3>1, LenProperties
    <3>3. Len(col) = 1 /\ i = 1
      BY ONLY <3>1, <3>2
    <3> QED
      BY <3>3 DEF col
  <2> QED
    BY <2>2, <2>3, <2>4, <2>5 DEF Email!targetIdOf
<1> QED
  BY <1>4, <1>5, <1>6 DEF IsSpot

LEMMA TargetIs ==
    ASSUME NEW r \in Shaped, NEW n, NEW B, Fits(r, B, n), NEW b \in B, b \in Nat,
               Email!targetIdOf(r) = b, b # 0
    PROVE  r.layout = "1" /\ Holds(r) = {b}
<1>1. r.id \in Int /\ -r.id \in 1..(n - 1)
  BY ShapedIs DEF Fits
<1>2. r.id # b
  BY <1>1
<1>3. r.layout = "1" /\ Len(r.columns[1]) = 1 /\ r.columns[1][1] = b
  BY <1>2 DEF Email!targetIdOf
<1>4. r.columns[1] = <<b>>
  <2>1. r.columns[1] \in Seq(Nat)
    BY ShapedIs
  <2> QED
    BY <1>3, <2>1
<1>5. Holds(r) = {b}
  BY <1>3, <1>4, HoldsOne, IdsAre
<1> QED
  BY <1>3, <1>5
---------------------------------------------------------------------------
\* Two sheets that differ in what their columns hold.
SameShape(rows, others) ==
    /\ DOMAIN others = DOMAIN rows
    /\ \A k \in DOMAIN rows : /\ others[k].id = rows[k].id /\ others[k].layout = rows[k].layout
                              /\ DOMAIN others[k].columns = DOMAIN rows[k].columns

\* A block leaves its column.
LEMMA TakeBlock ==
    ASSUME NEW rows, NEW B, NEW n, Sheet(rows, B, n), NEW r \in DOMAIN rows,
           rows[r].layout # "1", NEW c \in DOMAIN rows[r].columns,
           NEW i \in DOMAIN rows[r].columns[c], NEW less,
           less = Replace(rows, r, WithColumn(rows[r], c, Email!RemoveAt(rows[r].columns[c], i)))
    PROVE  Sheet(less, B \ {rows[r].columns[c][i]}, n) /\ SameShape(rows, less)
<1> DEFINE old == rows[r].columns[c]
           s == Email!RemoveAt(old, i)
<1>1. rows \in Seq(Shaped) /\ B \subseteq 1..(n - 1) /\ Whole(Email!ToSet(rows), B, n)
  BY DEF Sheet
<1>2. rows[r] \in Shaped /\ HoldsOnce(rows[r]) /\ Holds(rows[r]) \subseteq B
  BY <1>1, LenProperties DEF Whole, Held, Email!ToSet
<1>3. old \in Seq(Nat) /\ Email!IsInjective(old) /\ Email!ToSet(old) \subseteq B
          /\ Email!ToSet(old) \subseteq Holds(rows[r])
  BY <1>2, ShapedIs DEF HoldsOnce, Holds
<1>4. i \in DOMAIN old
  OBVIOUS
<1> HIDE DEF old
<1>5. s \in Seq(Nat) /\ Email!IsInjective(s) /\ Email!ToSet(s) = Email!ToSet(old) \ {old[i]}
  <2>1. i \in 1..Len(old)
    BY <1>3, <1>4, LenProperties
  <2> QED
    BY <1>3, <2>1, RemoveIs
<1> DEFINE N == {}
<1>6. /\ Email!ToSet(s) \subseteq Email!ToSet(rows[r].columns[c]) \cup N
      /\ N \subseteq 1..(n - 1) /\ N \cap B = {} /\ \A q \in Email!ToSet(rows) : -q.id \notin N
  BY <1>5 DEF old
<1>7. less = Replace(rows, r, WithColumn(rows[r], c, s))
  BY DEF old
<1> HIDE DEF s, N
<1>8. Sheet(less, (B \ Email!ToSet(rows[r].columns[c])) \cup Email!ToSet(s), n)
  <2>1. Sheet(Replace(rows, r, WithColumn(rows[r], c, s)),
              (B \ Email!ToSet(rows[r].columns[c])) \cup Email!ToSet(s), n)
    BY <1>5, <1>6, SheetColumn
  <2> QED
    BY <1>7, <2>1
<1>9. (B \ Email!ToSet(old)) \cup Email!ToSet(s) = B \ {old[i]}
  BY <1>3, <1>4, <1>5 DEF Email!ToSet
<1>10. /\ WithColumn(rows[r], c, s).id = rows[r].id
       /\ WithColumn(rows[r], c, s).layout = rows[r].layout
       /\ DOMAIN WithColumn(rows[r], c, s).columns = DOMAIN rows[r].columns
  <2>1. Email!ToSet(s) \cap (Holds(rows[r]) \ Email!ToSet(rows[r].columns[c])) = {}
    BY <1>5 DEF old
  <2> QED
    BY <1>2, <1>5, <2>1, WithColumnIs
<1>11. /\ DOMAIN less = DOMAIN rows
       /\ \A k \in DOMAIN rows :
            less[k] = IF k = r THEN WithColumn(rows[r], c, s) ELSE rows[k]
  BY <1>7 DEF Replace
<1> QED
  BY <1>8, <1>9, <1>10, <1>11 DEF old, SameShape

\* A row moves between rows.
LEMMA MoveRowStands ==
    ASSUME NEW rows, NEW B, NEW n, Sheet(rows, B, n), NEW r \in DOMAIN rows, NEW index \in Nat
    PROVE  Sheet(Email!MoveRow(rows, r, index), B, n)
<1> DEFINE x == rows[r]
           less == Email!RemoveAt(rows, r)
           to == IF index > r - 1 THEN index - 1 ELSE index
<1>1. rows \in Seq(Shaped) /\ B \subseteq 1..(n - 1) /\ Whole(Email!ToSet(rows), B, n)
  BY DEF Sheet
<1>2. x \in Shaped /\ x \in Email!ToSet(rows) /\ r \in 1..Len(rows)
  BY <1>1, LenProperties DEF Email!ToSet
<1>3. Sheet(less, B \ Holds(x), n) /\ Email!ToSet(less) = Email!ToSet(rows) \ {x}
  BY SheetTake
<1>4. to \in Nat
  BY <1>2
<1>5. Email!MoveRow(rows, r, index) = Email!PutAt(less, to, x)
  BY DEF Email!MoveRow
<1> HIDE DEF x, less, to
<1>6. Fits(x, B, n) /\ HoldsOnce(x) /\ Holds(x) \subseteq B
  BY <1>1, <1>2 DEF Whole, Held
<1>7. (B \ Holds(x)) \cup Holds(x) = B
  BY <1>6
<1>8. ASSUME NEW q \in Email!ToSet(less) PROVE q.id # x.id /\ -q.id \notin Holds(x)
  <2>1. q \in Email!ToSet(rows) /\ q # x /\ Email!ToSet(rows) \subseteq Shaped
    BY <1>1, <1>3, ToSetIn
  <2>2. q.id # x.id
    BY <1>1, <1>2, <2>1 DEF Whole, Apart
  <2>3. \A k \in Holds(x) : -q.id # k
    BY <1>1, <1>2, <2>1, RowsTold
  <2> QED
    BY <2>2, <2>3
<1>9. Comes(x, Email!ToSet(less), B \ Holds(x), n)
  BY <1>1, <1>2, <1>6, <1>7, <1>8 DEF Comes
<1> QED
  BY <1>3, <1>4, <1>5, <1>7, <1>9, SheetPutAt

LEMMA TheIs == ASSUME NEW S, S # {} PROVE Email!The(S) \in S
  BY DEF Email!The

\* What was picked up is put down elsewhere: a block of the sheet, or a row
\* between rows.
LEMMA MoveToStands ==
    ASSUME NEW doc, NEW B, NEW n \in Nat, Sheet(doc.rows, B, n), NEW id,
           ~(Email!RowOf(doc, id) = {} /\ Email!SpotOf(doc, id) = {}),
           NEW at \in [row : Int, column : Nat, index : Nat] \cup {Email!Between(k) : k \in Nat},
           Place(doc.rows, at), Email!InColumn(at) => id \in B
    PROVE  Sheet(Email!MoveTo(doc, id, at), B, n)
<1> DEFINE rows == doc.rows
<1>1. rows \in Seq(Shaped) /\ B \subseteq 1..(n - 1) /\ Whole(Email!ToSet(rows), B, n)
  BY DEF Sheet
<1>2. \A k \in DOMAIN rows : rows[k] \in Shaped /\ rows[k] \in Email!ToSet(rows)
  BY <1>1, LenProperties DEF Email!ToSet
<1>3. Email!ToSet(rows) \subseteq Shaped
  BY <1>1, ToSetIn
<1>4. CASE Email!RowOf(doc, id) # {}
  <2> DEFINE r == Email!The(Email!RowOf(doc, id))
  <2>1. r \in DOMAIN rows /\ Email!targetIdOf(rows[r]) = id
    <3>1. r \in Email!RowOf(doc, id)
      BY <1>4, TheIs
    <3> QED
      BY <3>1 DEF Email!RowOf
  <2>2. Email!MoveTo(doc, id, at) = IF Email!InColumn(at)
            THEN Email!insertBlockId(Email!RemoveAt(rows, r), id, at)
                              ELSE Email!MoveRow(rows, r, at.index)
    BY <1>4 DEF Email!MoveTo
  <2> HIDE DEF r, rows
  <2>3. CASE ~Email!InColumn(at)
    BY <2>1, <2>2, <2>3, MoveRowStands DEF Place, rows
  <2>4. CASE Email!InColumn(at)
    <3> DEFINE x == rows[r]
               less == Email!RemoveAt(rows, r)
    <3>1. x \in Shaped /\ x \in Email!ToSet(rows) /\ Fits(x, B, n) /\ id \in B /\ id \in 1..(n - 1)
      BY <1>1, <1>2, <2>1, <2>4 DEF Whole
    <3>2. x.layout = "1" /\ Holds(x) = {id}
      BY <2>1, <3>1, TargetIs
    <3>3. Sheet(less, B \ Holds(x), n) /\ Email!ToSet(less) = Email!ToSet(rows) \ {x}
      BY <2>1, SheetTake DEF rows
    <3>4. \A q \in Email!ToSet(less) : -q.id # id
      BY <1>1, <1>3, <3>1, <3>2, <3>3, RowsTold
    <3>5. Place(less, at)
      <4>1. PICK k \in DOMAIN rows : /\ rows[k].id = at.row /\ rows[k].layout # "1"
                                     /\ at.column \in DOMAIN rows[k].columns
        BY <2>4 DEF Place, rows
      <4>2. rows[k] \in Email!ToSet(less)
        BY <1>2, <3>2, <3>3, <4>1
      <4>3. PICK m \in DOMAIN less : less[m] = rows[k]
        BY <4>2 DEF Email!ToSet
      <4> QED
        BY <4>1, <4>3 DEF Place
    <3> HIDE DEF x, less
    <3>6. Sheet(Email!insertBlockId(less, id, at), (B \ {id}) \cup {id}, n)
      BY <3>1, <3>2, <3>3, <3>4, <3>5, InsertStands
    <3>7. (B \ {id}) \cup {id} = B
      BY <3>1
    <3> QED
      BY <2>2, <2>4, <3>6, <3>7 DEF less
  <2> QED
    BY <2>3, <2>4
<1>5. CASE Email!RowOf(doc, id) = {}
  <2> DEFINE s == Email!The(Email!SpotOf(doc, id))
             r == s[1]
             c == s[2]
             i == s[3]
             less == [rows EXCEPT ![r].columns[c] = Email!RemoveAt(@, i)]
             shifts == at.row = rows[r].id /\ at.column = c /\ at.index > i - 1
             to == IF shifts THEN [at EXCEPT !.index = @ - 1] ELSE at
  <2>1. /\ r \in DOMAIN rows /\ c \in DOMAIN rows[r].columns /\ i \in DOMAIN rows[r].columns[c]
        /\ rows[r].columns[c][i] = id /\ rows[r].layout # "1"
    <3>1. s \in Email!SpotOf(doc, id)
      BY <1>5, TheIs
    <3> HIDE DEF s, less, to, shifts, r, c, i, rows
    <3>2. IsSpot(doc.rows, id, s) /\ (Email!RowOf(doc, id) = {} => doc.rows[s[1]].layout # "1")
      BY <3>1, SpotIs
    <3> QED
      BY <1>5, <3>2 DEF r, c, i, rows, IsSpot
  <2>2. Email!MoveTo(doc, id, at) = Email!tidy(Email!insertBlockId(less, id, to))
    BY <1>5 DEF Email!MoveTo, Email!MoveBlock
  <2>3. less = Replace(rows, r, WithColumn(rows[r], c, Email!RemoveAt(rows[r].columns[c], i)))
    BY DEF Replace, WithColumn
  <2> HIDE DEF less, s, r, c, i, rows
  <2>4. Sheet(less, B \ {id}, n) /\ SameShape(rows, less)
    <3>1. Sheet(rows, B, n)
      BY DEF rows
    <3> HIDE DEF to, shifts
    <3>2. Sheet(less, B \ {rows[r].columns[c][i]}, n) /\ SameShape(rows, less)
      BY <2>1, <2>3, <3>1, TakeBlock
    <3> QED
      BY <2>1, <3>2
  <2>5. i \in Nat \ {0}
    <3>1. rows[r].columns[c] \in Seq(Nat)
      BY <1>2, <2>1, ShapedIs
    <3>2. DOMAIN rows[r].columns[c] = 1..Len(rows[r].columns[c])
      BY <3>1, LenProperties
    <3> QED
      BY <2>1, <3>2
  <2>6. to.index \in Nat /\ Email!InColumn(to) = Email!InColumn(at)
            /\ (Email!InColumn(at) => to.row = at.row /\ to.column = at.column)
    <3>1. at.index \in Nat
      BY DEF Place
    <3>2. CASE shifts
      <4>1. at.index - 1 \in Nat
        BY <2>5, <3>1, <3>2
      <4>2. DOMAIN at = {"row", "column", "index"}
        BY DEF Email!Between
      <4>3. to.index = at.index - 1 /\ to.row = at.row /\ to.column = at.column
        BY <3>2, <4>2
      <4> QED
        BY <4>1, <4>3 DEF Email!InColumn
    <3>3. CASE ~shifts
      BY <3>1, <3>3
    <3> QED
      BY <3>2, <3>3
  <2> HIDE DEF to
  <2>7. Place(less, to)
    BY <2>4, <2>6 DEF Place, rows, SameShape
  <2>8. id \in B /\ \A q \in Email!ToSet(less) : -q.id # id
    <3>1. id \in Holds(rows[r]) /\ rows[r] \in Email!ToSet(rows)
      BY <1>2, <2>1 DEF Holds, Email!ToSet
    <3>2. \A k \in DOMAIN rows : -rows[k].id # id
      BY <1>1, <1>2, <1>3, <2>1, <3>1, RowsTold
    <3> QED
      BY <1>1, <2>4, <3>1, <3>2 DEF Whole, Held, Email!ToSet, SameShape
  <2>9. Sheet(Email!insertBlockId(less, id, to), (B \ {id}) \cup {id}, n)
    BY <1>1, <2>4, <2>7, <2>8, InsertStands
  <2>10. (B \ {id}) \cup {id} = B
    BY <2>8
  <2> QED
    BY <2>2, <2>9, <2>10, TidyIs
<1> QED
  BY <1>4, <1>5
---------------------------------------------------------------------------
(***************************************************************************)
(* The operations.  A document stands when its rows are a sheet of its     *)
(* blocks; what the canvas offers on one that stands, each operation takes *)
(* to another that stands, at the next id it leaves.                       *)
(***************************************************************************)
\* The documents that stand, n the next id.
Standing(n) ==
    {doc \in [rows : Seq(Shaped), blocks : SUBSET Nat] : Sheet(doc.rows, doc.blocks, n)}
Good(doc, n) == doc \in Standing(n)

LEMMA GoodIs ==
    ASSUME NEW doc, NEW n
    PROVE  /\ Good(doc, n) => /\ doc = [rows |-> doc.rows, blocks |-> doc.blocks]
                              /\ Sheet(doc.rows, doc.blocks, n)
           /\ \A rows, B : Sheet(rows, B, n) /\ n \in Nat => Good([rows |-> rows, blocks |-> B], n)
<1>1. ASSUME NEW rows, NEW B, Sheet(rows, B, n), n \in Nat
      PROVE  Good([rows |-> rows, blocks |-> B], n)
  <2>1. rows \in Seq(Shaped) /\ B \subseteq 1..(n - 1)
    BY <1>1 DEF Sheet
  <2>2. B \subseteq Nat
    BY <1>1, <2>1
  <2> QED
    BY <1>1, <2>1, <2>2 DEF Good, Standing
<1> QED
  BY <1>1 DEF Good, Standing

LEMMA GoodNow == ASSUME Good(present, fresh) PROVE Sheet(present.rows, present.blocks, fresh)
  BY GoodIs

LEMMA CellIs ==
    ASSUME Good(present, fresh), NEW r \in DOMAIN Email!Measured
    PROVE  /\ Email!Measured[r] \in Shaped
           /\ \E i \in DOMAIN present.rows : present.rows[i] = Email!Measured[r]
           /\ Email!targetIdOf(Email!Measured[r]) = Email!Measured[r].id =>
                  Email!Measured[r].layout # "1"
<1> DEFINE rows == present.rows
           x == Email!Measured[r]
<1>1. Sheet(rows, present.blocks, fresh)
  BY GoodNow
<1>2. x \in Email!ToSet(Email!tidy(rows))
  BY DEF Email!Measured, Email!ToSet
<1> HIDE DEF rows, x
<1>3. x \in Email!ToSet(rows) /\ (x.layout # "1" \/ x.columns[1] # <<>>)
  BY <1>1, <1>2, TidyIs
<1>4. rows \in Seq(Shaped) /\ Whole(Email!ToSet(rows), present.blocks, fresh)
  BY <1>1 DEF Sheet
<1>5. x \in Shaped /\ Fits(x, present.blocks, fresh) /\ \E i \in DOMAIN rows : rows[i] = x
  BY <1>3, <1>4, LenProperties DEF Whole, Email!ToSet
<1>6. ASSUME Email!targetIdOf(x) = x.id, x.layout = "1" PROVE FALSE
  <2> DEFINE col == x.columns[1]
  <2>1. col \in Seq(Nat) /\ Len(col) <= 1 /\ col # <<>>
    BY <1>3, <1>5, <1>6, ShapedIs DEF Fits
  <2>2. x.id \in Int /\ -x.id \in 1..(fresh - 1)
    BY <1>5, ShapedIs DEF Fits
  <2>3. x.id = IF Len(col) = 1 THEN col[1] ELSE x.id
    BY <1>6 DEF Email!targetIdOf
  <2> HIDE DEF col
  <2>4. Len(col) = 1 /\ col[1] \in Nat
    <3>1. Len(col) \in Nat /\ Len(col) # 0 /\ \A i \in 1..Len(col) : col[i] \in Nat
      BY <2>1, LenProperties, EmptySeq
    <3>2. Len(col) = 1
      <4> DEFINE m == Len(col)
      <4>1. m \in Nat /\ m # 0 /\ m <= 1
        BY <2>1, <3>1
      <4> HIDE DEF m
      <4>2. m = 1
        BY <4>1
      <4> QED
        BY <4>2 DEF m
    <3> QED
      BY ONLY <3>1, <3>2
  <2> QED
    BY <2>2, <2>3, <2>4
<1> QED
  BY <1>5, <1>6 DEF x, rows

LEMMA SlotIs ==
    ASSUME Good(present, fresh), NEW at \in Email!Slots
    PROVE  /\ at \in [row : Int, column : Nat, index : Nat] \cup {Email!Between(k) : k \in Nat}
           /\ Place(present.rows, at) /\ (Email!InColumn(at) => Email!inCells)
<1>1. CASE at \in {Email!Between(index) : index \in 0..Len(Email!Measured)}
  <2>1. Len(Email!Measured) \in Nat
    <3>1. Email!Measured \in Seq(Shaped)
      BY GoodNow, TidyIs DEF Email!Measured, Sheet
    <3> QED
      BY <3>1, LenProperties
  <2>2. PICK index \in 0..Len(Email!Measured) : at = Email!Between(index)
    BY <1>1
  <2>3. index \in Nat /\ at.index = index /\ ~Email!InColumn(at)
    BY <2>1, <2>2 DEF Email!Between, Email!InColumn
  <2> QED
    BY <2>2, <2>3 DEF Place
<1>2. CASE at \notin {Email!Between(index) : index \in 0..Len(Email!Measured)}
  <2> DEFINE In(r, c) == {[row |-> Email!Measured[r].id, column |-> c, index |-> index] :
                             index \in 0..Len(Email!Measured[r].columns[c])}
  <2>1. Email!inCells /\ \E r \in Email!WithCells : \E c \in DOMAIN Email!Measured[r].columns :
            at \in In(r, c)
    <3>1. Email!inCells /\ at \in UNION {UNION {In(r, c) : c \in DOMAIN Email!Measured[r].columns} :
              r \in Email!WithCells}
      BY <1>2 DEF Email!Slots
    <3> HIDE DEF In
    <3> QED
      BY <3>1
  <2>2. PICK r \in Email!WithCells : \E c \in DOMAIN Email!Measured[r].columns :
           at \in {[row |-> Email!Measured[r].id, column |-> c, index |-> index] :
                      index \in 0..Len(Email!Measured[r].columns[c])}
    BY <2>1
  <2>3. PICK c \in DOMAIN Email!Measured[r].columns :
           at \in {[row |-> Email!Measured[r].id, column |-> c, index |-> index] :
                      index \in 0..Len(Email!Measured[r].columns[c])}
    BY <2>2
  <2>4. PICK index \in 0..Len(Email!Measured[r].columns[c]) :
           at = [row |-> Email!Measured[r].id, column |-> c, index |-> index]
    BY <2>3
  <2>5. r \in DOMAIN Email!Measured /\ Email!targetIdOf(Email!Measured[r]) = Email!Measured[r].id
    BY DEF Email!WithCells
  <2> DEFINE x == Email!Measured[r]
  <2>6. x \in Shaped /\ x.layout # "1" /\ \E i \in DOMAIN present.rows : present.rows[i] = x
    BY <2>5, CellIs
  <2>7. c \in DOMAIN x.columns /\ at = [row |-> x.id, column |-> c, index |-> index]
         /\ index \in 0..Len(x.columns[c])
    BY <2>4
  <2> HIDE DEF x
  <2>8. x.id \in Int /\ x.columns[c] \in Seq(Nat) /\ c \in Nat
    BY <2>6, <2>7, ShapedIs, ColumnsAre
  <2>9. Len(x.columns[c]) \in Nat
    BY <2>8, LenProperties
  <2>10. index \in Nat
    BY <2>7, <2>9
  <2> QED
    BY <2>1, <2>6, <2>7, <2>8, <2>10 DEF Place
<1> QED
  BY <1>1, <1>2

LEMMA HandleIs ==
    ASSUME Good(present, fresh), NEW id \in Email!Handles
    PROVE  ~(Email!RowOf(present, id) = {} /\ Email!SpotOf(present, id) = {})
<1>1. PICK bar \in Email!Bars : id \in Email!ToSet(bar)
  BY DEF Email!Handles
<1>2. PICK i \in DOMAIN bar : id = bar[i]
  BY <1>1 DEF Email!ToSet
<1>3. CASE bar = Email!Targets(Email!Measured)
  <2>1. i \in DOMAIN Email!Measured /\ id = Email!targetIdOf(Email!Measured[i])
    BY <1>2, <1>3 DEF Email!Targets
  <2>2. PICK k \in DOMAIN present.rows : present.rows[k] = Email!Measured[i]
    BY <2>1, CellIs
  <2> QED
    BY <2>1, <2>2 DEF Email!RowOf
<1>4. CASE bar # Email!Targets(Email!Measured)
  <2>1. PICK r \in Email!WithCells :
                 bar \in {Email!Measured[r].columns[c] : c \in DOMAIN Email!Measured[r].columns}
    BY <1>4 DEF Email!Bars
  <2>2. PICK c \in DOMAIN Email!Measured[r].columns : bar = Email!Measured[r].columns[c]
    BY <2>1
  <2>3. PICK k \in DOMAIN present.rows : present.rows[k] = Email!Measured[r]
    BY CellIs DEF Email!WithCells
  <2>4. /\ c \in DOMAIN present.rows[k].columns /\ i \in DOMAIN present.rows[k].columns[c]
        /\ present.rows[k].columns[c][i] = id
    BY <1>2, <2>2, <2>3
  <2>5. <<k, c, i>> \in Email!SpotOf(present, id)
    BY <2>4 DEF Email!SpotOf
  <2> QED
    BY <2>5
<1> QED
  BY <1>3, <1>4

---------------------------------------------------------------------------
\* A row is copied, or a block.
LEMMA CopiedIs ==
    ASSUME NEW r \in Shaped, HoldsOnce(r), fresh \in Nat
    PROVE  /\ Email!Copied(r) \in Shaped
           /\ Email!Copied(r).id = -fresh /\ Email!Copied(r).layout = r.layout
           /\ HoldsOnce(Email!Copied(r)) /\ Holds(Email!Copied(r)) = {fresh + b : b \in Holds(r)}
           /\ Len(Email!Copied(r).columns[1]) = Len(r.columns[1])
<1> DEFINE x == Email!Copied(r)
           Q == Seq(Nat)
           of(s) == [i \in DOMAIN s |-> Email!CopyOf(s[i])]
<1>10. -fresh \in Int
  OBVIOUS
<1>1. /\ x.id = -fresh /\ x.layout = r.layout /\ DOMAIN x = {"id", "layout", "columns"}
      /\ DOMAIN x.columns = DOMAIN r.columns
      /\ \A c \in DOMAIN r.columns : x.columns[c] = of(r.columns[c])
      /\ x = [id |-> -fresh, layout |-> r.layout, columns |-> x.columns]
      /\ x.columns = [c \in DOMAIN r.columns |-> of(r.columns[c])]
  BY DEF Email!Copied
<1>2. /\ r.layout \in DOMAIN Email!Columns /\ DOMAIN r.columns = 1..Email!Columns[r.layout]
      /\ Email!Columns[r.layout] \in Nat /\ 1 \in DOMAIN r.columns
      /\ \A c \in DOMAIN r.columns : r.columns[c] \in Seq(Nat)
  <2> HIDE DEF x, Q, of
  <2>1. /\ r.layout \in DOMAIN Email!Columns /\ DOMAIN r.columns = 1..Email!Columns[r.layout]
        /\ 1 \in DOMAIN r.columns /\ \A c \in DOMAIN r.columns : r.columns[c] \in Seq(Nat)
    BY ShapedIs
  <2>2. Email!Columns[r.layout] \in 1..3
    BY <2>1, ColumnsAre
  <2> QED
    BY <2>1, <2>2
<1>3. ASSUME NEW s \in Seq(Nat)
      PROVE  /\ of(s) \in Seq(Nat) /\ DOMAIN of(s) = DOMAIN s /\ Len(of(s)) = Len(s)
             /\ Email!ToSet(of(s)) = {fresh + b : b \in Email!ToSet(s)}
             /\ Email!IsInjective(s) => Email!IsInjective(of(s))
  <2>1. DOMAIN s = 1..Len(s) /\ Len(s) \in Nat /\ \A i \in 1..Len(s) : s[i] \in Nat
    BY LenProperties
  <2>2. of(s) = [i \in 1..Len(s) |-> fresh + s[i]]
    BY <2>1 DEF Email!CopyOf
  <2> DEFINE t == of(s)
  <2>3. /\ t \in Seq(Nat) /\ DOMAIN t = 1..Len(s) /\ Len(t) = Len(s)
        /\ \A i \in 1..Len(s) : t[i] = fresh + s[i]
    <3> DEFINE m == Len(s)
               f == [i \in 1..m |-> fresh + s[i]]
    <3>1. t = f /\ m \in Nat
      BY <2>1, <2>2
    <3>2. f \in [1..m -> Nat] /\ \A i \in 1..m : f[i] = fresh + s[i]
      BY <2>1
    <3> HIDE DEF f, m, t
    <3>3. f \in Seq(Nat) /\ DOMAIN f = 1..m /\ Len(f) = m
      BY <3>1, <3>2
    <3> QED
      BY <3>1, <3>2, <3>3 DEF m
  <2> HIDE DEF t
  <2>4. Email!ToSet(t) = {fresh + b : b \in Email!ToSet(s)}
    BY <2>1, <2>3 DEF Email!ToSet
  <2>5. Email!IsInjective(s) => Email!IsInjective(t)
    BY <2>1, <2>3 DEF Email!IsInjective
  <2> QED
    BY <2>1, <2>3, <2>4, <2>5 DEF t
<1> HIDE DEF of, x
<1>4. x.columns \in Seq(Q) /\ Len(x.columns) = Email!Columns[r.layout]
  <2>1. \A c \in DOMAIN r.columns : of(r.columns[c]) \in Q
    BY <1>2, <1>3
  <2>2. x.columns \in [1..Email!Columns[r.layout] -> Q]
    BY <1>1, <1>2, <2>1
  <2> HIDE DEF Q
  <2> QED
    BY <1>2, <2>2
<1>5. x \in Shaped
  <2> DEFINE k == x.columns
  <2>1. /\ x = [id |-> -fresh, layout |-> r.layout, columns |-> k]
        /\ k \in Seq(Q) /\ Len(k) = Email!Columns[r.layout] /\ r.layout \in DOMAIN Email!Columns
    BY <1>1, <1>2, <1>4
  <2> HIDE DEF k
  <2> QED
    BY <1>10, <2>1 DEF Shaped, Email!Row, Q
<1>6. \A c \in DOMAIN r.columns :
         /\ Email!ToSet(x.columns[c]) = {fresh + b : b \in Email!ToSet(r.columns[c])}
         /\ Email!IsInjective(r.columns[c]) => Email!IsInjective(x.columns[c])
         /\ Len(x.columns[c]) = Len(r.columns[c])
  BY <1>1, <1>2, <1>3
<1>7. Holds(x) = {fresh + b : b \in Holds(r)}
  <2> DEFINE H == {fresh + b : b \in Holds(r)}
  <2>1. ASSUME NEW k \in Holds(x) PROVE k \in H
    <3>1. PICK c \in DOMAIN r.columns : k \in Email!ToSet(x.columns[c])
      BY <1>1 DEF Holds
    <3>2. PICK b \in Email!ToSet(r.columns[c]) : k = fresh + b
      BY <1>6, <3>1
    <3> QED
      BY <3>2 DEF Holds
  <2>2. ASSUME NEW b \in Holds(r) PROVE fresh + b \in Holds(x)
    <3>1. PICK c \in DOMAIN r.columns : b \in Email!ToSet(r.columns[c])
      BY DEF Holds
    <3>2. fresh + b \in Email!ToSet(x.columns[c])
      BY <1>6, <3>1
    <3> QED
      BY <1>1, <3>2 DEF Holds
  <2> QED
    BY <2>1, <2>2
<1>8. ASSUME NEW c \in DOMAIN r.columns, NEW d \in DOMAIN r.columns, c # d
      PROVE  Email!ToSet(x.columns[c]) \cap Email!ToSet(x.columns[d]) = {}
  <2>1. Email!ToSet(r.columns[c]) \subseteq Nat /\ Email!ToSet(r.columns[d]) \subseteq Nat
    BY <1>2, ToSetIn
  <2>2. Email!ToSet(r.columns[c]) \cap Email!ToSet(r.columns[d]) = {}
    BY <1>8 DEF HoldsOnce
  <2> SUFFICES ASSUME NEW k \in Email!ToSet(x.columns[c]), k \in Email!ToSet(x.columns[d])
                          PROVE FALSE
    OBVIOUS
  <2>3. PICK a \in Email!ToSet(r.columns[c]) : k = fresh + a
    BY <1>6
  <2>4. PICK b \in Email!ToSet(r.columns[d]) : k = fresh + b
    BY <1>6
  <2>5. a = b
    BY <2>1, <2>3, <2>4
  <2> QED
    BY <2>2, <2>5
<1>9. HoldsOnce(x)
  BY <1>1, <1>6, <1>8 DEF HoldsOnce
<1> QED
  BY <1>1, <1>2, <1>5, <1>6, <1>7, <1>9 DEF x

LEMMA CopyRow ==
    ASSUME NEW rows, NEW B, Sheet(rows, B, fresh), fresh \in Nat \ {0}, NEW r \in DOMAIN rows
    PROVE  /\ Sheet(Email!InsertAt(rows, r + 1, Email!Copied(rows[r])),
                    B \cup Email!ToSet(Email!Ids(Email!Copied(rows[r]))), fresh + fresh)
<1> DEFINE x == Email!Copied(rows[r])
           n == fresh + fresh
<1>1. rows \in Seq(Shaped) /\ B \subseteq 1..(fresh - 1) /\ Whole(Email!ToSet(rows), B, fresh)
  BY DEF Sheet
<1>2. rows[r] \in Shaped /\ rows[r] \in Email!ToSet(rows) /\ r \in 1..Len(rows) /\ Len(rows) \in Nat
  BY <1>1, LenProperties DEF Email!ToSet
<1>3. HoldsOnce(rows[r]) /\ Fits(rows[r], B, fresh) /\ Holds(rows[r]) \subseteq B
  BY <1>1, <1>2 DEF Whole, Held
<1>4. /\ x \in Shaped /\ x.id = -fresh /\ x.layout = rows[r].layout
      /\ HoldsOnce(x) /\ Holds(x) = {fresh + b : b \in Holds(rows[r])}
      /\ Len(x.columns[1]) = Len(rows[r].columns[1])
  BY <1>2, <1>3, CopiedIs
<1>5. Email!ToSet(Email!Ids(x)) = Holds(x)
  BY <1>4, IdsAre
<1> HIDE DEF x
<1>6. Holds(x) \subseteq (fresh + 1)..(n - 1)
  <2> SUFFICES ASSUME NEW k \in Holds(x) PROVE k \in (fresh + 1)..(n - 1)
    OBVIOUS
  <2>1. PICK b \in Holds(rows[r]) : k = fresh + b
    BY <1>4
  <2>2. b \in 1..(fresh - 1)
    BY <1>1, <1>3
  <2> QED
    BY <2>1, <2>2
<1>7. Holds(x) \cap B = {} /\ fresh \notin B \cup Holds(x) /\ -(-fresh) = fresh
  BY <1>1, <1>6
<1>8. Fits(x, B \cup Holds(x), n)
  BY <1>3, <1>4, <1>7 DEF Fits
<1>9. ASSUME NEW q \in Email!ToSet(rows) PROVE q.id # x.id /\ -q.id \notin Holds(x)
  <2>1. q.id \in Int /\ -q.id \in 1..(fresh - 1)
    BY <1>1, ToSetIn, ShapedIs DEF Whole, Fits
  <2> QED
    BY <1>4, <1>6, <2>1
<1>10. Sheet(rows, B, n)
  BY <1>1, FitsLater
<1>11. Comes(x, Email!ToSet(rows), B, n)
  BY <1>4, <1>6, <1>7, <1>8, <1>9 DEF Comes
<1>12. r + 1 \in 1..(Len(rows) + 1)
  BY <1>2
<1>13. Sheet(Email!InsertAt(rows, r + 1, x), B \cup Holds(x), n)
  BY <1>10, <1>11, <1>12, SheetPut
<1> QED
  BY <1>5, <1>13 DEF x

LEMMA CopyBlock ==
    ASSUME NEW rows, NEW B, Sheet(rows, B, fresh), fresh \in Nat \ {0}, NEW id, NEW s,
           IsSpot(rows, id, s), rows[s[1]].layout # "1"
    PROVE  Sheet([rows EXCEPT ![s[1]].columns[s[2]] =
               Email!InsertAt(@, s[3] + 1, Email!CopyOf(id))],
                 B \cup {Email!CopyOf(id)}, fresh + fresh)
<1> DEFINE r == s[1]
           c == s[2]
           i == s[3]
           n == fresh + fresh
           b == Email!CopyOf(id)
           old == rows[r].columns[c]
           t == Email!InsertAt(old, i + 1, b)
           after == [rows EXCEPT ![r].columns[c] = Email!InsertAt(@, i + 1, b)]
<1>1. rows \in Seq(Shaped) /\ B \subseteq 1..(fresh - 1) /\ Whole(Email!ToSet(rows), B, fresh)
  BY DEF Sheet
<1>2. r \in DOMAIN rows /\ c \in DOMAIN rows[r].columns /\ i \in DOMAIN old /\ old[i] = id
      /\ rows[r].layout # "1"
  BY DEF IsSpot
<1>3. after = Replace(rows, r, WithColumn(rows[r], c, t))
  BY DEF Replace, WithColumn
<1> HIDE DEF r, c, i, after
<1>4. rows[r] \in Shaped /\ HoldsOnce(rows[r]) /\ Holds(rows[r]) \subseteq B
  BY <1>1, <1>2, LenProperties DEF Whole, Held, Email!ToSet
<1>5. old \in Seq(Nat) /\ Email!IsInjective(old) /\ Email!ToSet(old) \subseteq B
  BY <1>2, <1>4, ShapedIs DEF HoldsOnce, Holds
<1>6. i \in 1..Len(old) /\ Len(old) \in Nat /\ id \in B
  BY <1>2, <1>5, LenProperties DEF Email!ToSet
<1>7. b = fresh + id /\ id \in Nat \ {0} /\ id < fresh
  BY <1>1, <1>6 DEF Email!CopyOf
<1> HIDE DEF b
<1>8. b \in (fresh + 1)..(n - 1)
  BY <1>7
<1>9. b \in Nat /\ b \notin B /\ i + 1 \in 1..(Len(old) + 1)
  <2>1. b \in Int /\ fresh + 1 <= b
    BY <1>8
  <2>2. b \in Nat /\ b \notin 1..(fresh - 1)
    BY <2>1
  <2> QED
    BY <1>1, <1>6, <2>2
<1>10. t \in Seq(Nat) /\ Email!IsInjective(t) /\ Email!ToSet(t) = Email!ToSet(old) \cup {b}
  <2> HIDE DEF old, t
  <2>1. b \notin Email!ToSet(old)
    BY <1>5, <1>9
  <2> USE DEF t
  <2>2. t \in Seq(Nat) /\ Email!IsInjective(t)
    BY <1>5, <1>9, <2>1, InsertIs
  <2>3. Email!ToSet(t) = Email!ToSet(old) \cup {b}
    BY <1>5, <1>9, InsertHolds
  <2> QED
    BY <2>2, <2>3
<1>11. ASSUME NEW q \in Email!ToSet(rows) PROVE -q.id \notin {b}
  <2>1. q.id \in Int /\ -q.id \in 1..(fresh - 1)
    BY <1>1, ToSetIn, ShapedIs DEF Whole, Fits
  <2> QED
    BY <1>8, <2>1
<1>12. Sheet(rows, B, n)
  BY <1>1, FitsLater
<1>13. {b} \subseteq 1..(n - 1) /\ {b} \cap B = {}
           /\ Email!ToSet(t) \subseteq Email!ToSet(rows[r].columns[c]) \cup {b}
  BY <1>8, <1>9, <1>10
<1> HIDE DEF t, n
<1>14. Sheet(Replace(rows, r, WithColumn(rows[r], c, t)),
             (B \ Email!ToSet(rows[r].columns[c])) \cup Email!ToSet(t), n)
  BY <1>2, <1>10, <1>11, <1>12, <1>13, SheetColumn
<1>15. (B \ Email!ToSet(old)) \cup Email!ToSet(t) = B \cup {b}
  BY <1>5, <1>10
<1> QED
  BY <1>3, <1>14, <1>15 DEF r, c, i, after, t, n, b
---------------------------------------------------------------------------
\* What each operation makes of the document.
LEMMA Placed ==
    ASSUME Good(present, fresh), fresh \in Nat \ {0}, NEW at \in Email!Slots
    PROVE  Good([rows |-> Email!insertBlockId(present.rows, fresh, at),
                 blocks |-> present.blocks \cup {fresh}], fresh + 1)
<1> DEFINE rows == present.rows
           B == present.blocks
           n == fresh + 1
<1>1. Sheet(rows, B, fresh) /\ n \in Nat /\ fresh <= n
  BY GoodNow
<1>2. Place(rows, at)
  BY SlotIs
<1>3. rows \in Seq(Shaped) /\ B \subseteq 1..(fresh - 1) /\ Whole(Email!ToSet(rows), B, fresh)
  BY <1>1 DEF Sheet
<1>4. Sheet(rows, B, n)
  BY <1>1, <1>3, FitsLater
<1>5. ASSUME NEW r \in Email!ToSet(rows) PROVE -r.id # fresh
  <2>1. r.id \in Int /\ -r.id \in 1..(fresh - 1)
    BY <1>3, ToSetIn, ShapedIs DEF Whole, Fits
  <2> QED
    BY <2>1
<1>6. fresh \notin B /\ fresh \in 1..(n - 1)
  BY <1>3
<1> HIDE DEF rows, B, n
<1>7. Sheet(Email!insertBlockId(rows, fresh, at), B \cup {fresh}, n)
  BY <1>1, <1>2, <1>4, <1>5, <1>6, InsertStands
<1> QED
  BY <1>1, <1>7, GoodIs DEF rows, B, n

LEMMA LaidOut ==
    ASSUME Good(present, fresh), fresh \in Nat \ {0}, NEW layout \in DOMAIN Email!Columns,
               NEW k \in Nat
    PROVE  Good([present EXCEPT !.rows = Email!PutAt(@, k, Email!emptyRow(layout))], fresh + 1)
<1> DEFINE rows == present.rows
           B == present.blocks
           n == fresh + 1
           x == Email!emptyRow(layout)
           Q == Seq(Nat)
<1>1. Sheet(rows, B, fresh) /\ n \in Nat /\ fresh <= n /\ present = [rows |-> rows, blocks |-> B]
  BY GoodIs
<1>3. rows \in Seq(Shaped) /\ B \subseteq 1..(fresh - 1) /\ Whole(Email!ToSet(rows), B, fresh)
  BY <1>1 DEF Sheet
<1>4. Sheet(rows, B, n)
  BY <1>1, <1>3, FitsLater
<1>5. /\ x.id = -fresh /\ x.layout = layout /\ DOMAIN x.columns = 1..Email!Columns[layout]
      /\ \A c \in 1..Email!Columns[layout] : x.columns[c] = <<>>
      /\ x = [id |-> -fresh, layout |-> layout, columns |-> x.columns]
      /\ x.columns = [c \in 1..Email!Columns[layout] |-> <<>>]
  BY DEF Email!emptyRow
<1> HIDE DEF x
<1>6. Email!Columns[layout] \in 1..3
  BY ColumnsAre
<1>7. x.columns \in Seq(Q) /\ Len(x.columns) = Email!Columns[layout]
  <2> DEFINE m == Email!Columns[layout]
             k0 == x.columns
  <2>1. <<>> \in Q
    OBVIOUS
  <2>2. k0 = [c \in 1..m |-> <<>>] /\ m \in Nat
    BY <1>5, <1>6
  <2> HIDE DEF Q, m, k0
  <2>3. k0 \in Seq(Q) /\ Len(k0) = m
    BY <2>1, <2>2
  <2> QED
    BY <2>3 DEF m, k0
<1>8. x \in Shaped
  <2> DEFINE k0 == x.columns
  <2>1. x = [id |-> -fresh, layout |-> layout, columns |-> k0]
    BY <1>5
  <2>2. k0 \in Seq(Q) /\ Len(k0) = Email!Columns[layout]
    BY <1>7
  <2>3. -fresh \in Int
    OBVIOUS
  <2> HIDE DEF k0
  <2> QED
    BY <2>1, <2>2, <2>3 DEF Shaped, Email!Row, Q
<1>9. Holds(x) = {} /\ HoldsOnce(x)
  BY <1>5, HoldsNone DEF Holds, HoldsOnce
<1>10. fresh \notin B /\ -(-fresh) = fresh /\ fresh \in 1..(n - 1) /\ Len(<<>>) <= 1
  BY <1>3
<1>11. x.columns[1] = <<>>
  BY <1>5, <1>6
<1>12. Fits(x, B, n)
  BY <1>5, <1>10, <1>11 DEF Fits
<1>13. ASSUME NEW r \in Email!ToSet(rows) PROVE r.id # x.id
  <2>1. r.id \in Int /\ -r.id \in 1..(fresh - 1)
    BY <1>3, ToSetIn, ShapedIs DEF Whole, Fits
  <2> QED
    BY <1>5, <2>1
<1>14. Comes(x, Email!ToSet(rows), B, n)
  BY <1>8, <1>9, <1>12, <1>13 DEF Comes
<1> HIDE DEF rows, B, n
<1>15. Sheet(Email!PutAt(rows, k, x), B \cup Holds(x), n)
  BY <1>4, <1>14, SheetPutAt
<1>16. B \cup Holds(x) = B
  BY <1>9
<1>17. Good([rows |-> Email!PutAt(rows, k, x), blocks |-> B], n)
  BY <1>1, <1>15, <1>16, GoodIs
<1>18. [present EXCEPT !.rows = Email!PutAt(@, k, x)] =
           [rows |-> Email!PutAt(rows, k, x), blocks |-> B]
  BY <1>1
<1> QED
  BY <1>17, <1>18 DEF x, n

LEMMA Moved ==
    ASSUME Good(present, fresh), fresh \in Nat \ {0}, NEW at \in Email!Slots, armed.kind = "move",
           ~(Email!RowOf(present, armed.id) = {} /\ Email!SpotOf(present, armed.id) = {})
    PROVE  Good([present EXCEPT !.rows = Email!MoveTo(present, armed.id, at)], fresh)
<1>1. /\ Sheet(present.rows, present.blocks, fresh)
      /\ present = [rows |-> present.rows, blocks |-> present.blocks]
  BY GoodIs
<1>2. /\ at \in [row : Int, column : Nat, index : Nat] \cup {Email!Between(k) : k \in Nat}
      /\ Place(present.rows, at) /\ (Email!InColumn(at) => armed.id \in present.blocks)
  BY SlotIs DEF Email!inCells
<1> DEFINE after == Email!MoveTo(present, armed.id, at)
<1>3. Sheet(after, present.blocks, fresh)
  BY <1>1, <1>2, MoveToStands
<1>4. [present EXCEPT !.rows = after] = [rows |-> after, blocks |-> present.blocks]
  BY <1>1
<1> HIDE DEF after
<1> QED
  BY <1>3, <1>4, GoodIs DEF after

LEMMA RowIs == ASSUME NEW doc, NEW id, Email!RowOf(doc, id) # {}
               PROVE  Email!The(Email!RowOf(doc, id)) \in DOMAIN doc.rows
  BY TheIs DEF Email!RowOf

LEMMA HandledSpot ==
    ASSUME NEW doc, NEW n, Good(doc, n), NEW id, Email!RowOf(doc, id) = {},
               Email!SpotOf(doc, id) # {}
    PROVE  /\ IsSpot(doc.rows, id, Email!The(Email!SpotOf(doc, id)))
           /\ doc.rows[Email!The(Email!SpotOf(doc, id))[1]].layout # "1"
<1>1. Sheet(doc.rows, doc.blocks, n)
  BY GoodIs
<1> DEFINE s == Email!The(Email!SpotOf(doc, id))
<1>2. s \in Email!SpotOf(doc, id)
  BY TheIs
<1> HIDE DEF s
<1>3. IsSpot(doc.rows, id, s) /\ (Email!RowOf(doc, id) = {} => doc.rows[s[1]].layout # "1")
  BY <1>1, <1>2, SpotIs
<1> QED
  BY <1>3 DEF s

LEMMA Copies ==
    ASSUME Good(present, fresh), fresh \in Nat \ {0}, NEW id \in Email!Handles
    PROVE  /\ Email!RowOf(present, id) # {} =>
                LET r == Email!The(Email!RowOf(present, id))
                    copy == Email!Copied(present.rows[r])
                IN  Good([rows |-> Email!InsertAt(present.rows, r + 1, copy),
                          blocks |-> present.blocks \cup Email!ToSet(Email!Ids(copy))],
                              fresh + fresh)
           /\ Email!RowOf(present, id) = {} =>
                LET s == Email!The(Email!SpotOf(present, id))
                IN  Good([rows |-> [present.rows EXCEPT ![s[1]].columns[s[2]] =
                                       Email!InsertAt(@, s[3] + 1, Email!CopyOf(id))],
                          blocks |-> present.blocks \cup {Email!CopyOf(id)}], fresh + fresh)
<1>1. Sheet(present.rows, present.blocks, fresh) /\ fresh + fresh \in Nat
  BY GoodNow
<1>2. ASSUME Email!RowOf(present, id) # {}
      PROVE  LET r == Email!The(Email!RowOf(present, id))
                 copy == Email!Copied(present.rows[r])
             IN  Good([rows |-> Email!InsertAt(present.rows, r + 1, copy),
                       blocks |-> present.blocks \cup Email!ToSet(Email!Ids(copy))], fresh + fresh)
  <2> DEFINE r == Email!The(Email!RowOf(present, id))
  <2>1. r \in DOMAIN present.rows
    BY <1>2, RowIs
  <2> HIDE DEF r
  <2>2. Sheet(Email!InsertAt(present.rows, r + 1, Email!Copied(present.rows[r])),
              present.blocks \cup Email!ToSet(Email!Ids(Email!Copied(present.rows[r]))),
                  fresh + fresh)
    BY <1>1, <2>1, CopyRow
  <2> QED
    BY <1>1, <2>2, GoodIs DEF r
<1>3. ASSUME Email!RowOf(present, id) = {}
      PROVE  LET s == Email!The(Email!SpotOf(present, id))
             IN  Good([rows |-> [present.rows EXCEPT ![s[1]].columns[s[2]] =
                                    Email!InsertAt(@, s[3] + 1, Email!CopyOf(id))],
                       blocks |-> present.blocks \cup {Email!CopyOf(id)}], fresh + fresh)
  <2> DEFINE s == Email!The(Email!SpotOf(present, id))
  <2>1. IsSpot(present.rows, id, s) /\ present.rows[s[1]].layout # "1"
    BY <1>3, HandleIs, HandledSpot
  <2> HIDE DEF s
  <2>2. Sheet([present.rows EXCEPT ![s[1]].columns[s[2]] =
            Email!InsertAt(@, s[3] + 1, Email!CopyOf(id))],
              present.blocks \cup {Email!CopyOf(id)}, fresh + fresh)
    BY <1>1, <2>1, CopyBlock
  <2> QED
    BY <1>1, <2>2, GoodIs DEF s
<1> QED
  BY <1>2, <1>3

LEMMA Removed ==
    ASSUME Good(present, fresh), fresh \in Nat \ {0}, NEW id \in Email!Handles
    PROVE  /\ Email!RowOf(present, id) # {} =>
                LET r == Email!The(Email!RowOf(present, id))
                IN  Good([rows |-> Email!RemoveAt(present.rows, r),
                          blocks |-> present.blocks \ Email!ToSet(Email!Ids(present.rows[r]))],
                              fresh)
           /\ Email!RowOf(present, id) = {} =>
                LET s == Email!The(Email!SpotOf(present, id))
                IN  Good([rows |-> Email!tidy([present.rows EXCEPT ![s[1]].columns[s[2]] =
                                            Email!RemoveAt(@, s[3])]),
                          blocks |-> present.blocks \ {id}], fresh)
<1>1. Sheet(present.rows, present.blocks, fresh)
  BY GoodNow
<1>2. ASSUME Email!RowOf(present, id) # {}
      PROVE  LET r == Email!The(Email!RowOf(present, id))
             IN  Good([rows |-> Email!RemoveAt(present.rows, r),
                       blocks |-> present.blocks \ Email!ToSet(Email!Ids(present.rows[r]))], fresh)
  <2> DEFINE r == Email!The(Email!RowOf(present, id))
  <2>1. r \in DOMAIN present.rows
    BY <1>2, RowIs
  <2> HIDE DEF r
  <2>2. present.rows[r] \in Shaped
    BY <1>1, <2>1, LenProperties DEF Sheet
  <2>3. Email!ToSet(Email!Ids(present.rows[r])) = Holds(present.rows[r])
    BY <2>2, IdsAre
  <2>4. Sheet(Email!RemoveAt(present.rows, r), present.blocks \ Holds(present.rows[r]), fresh)
    BY <1>1, <2>1, SheetTake
  <2> QED
    BY <2>3, <2>4, GoodIs DEF r
<1>3. ASSUME Email!RowOf(present, id) = {}
      PROVE  LET s == Email!The(Email!SpotOf(present, id))
             IN  Good([rows |-> Email!tidy([present.rows EXCEPT ![s[1]].columns[s[2]] =
                                         Email!RemoveAt(@, s[3])]),
                       blocks |-> present.blocks \ {id}], fresh)
  <2> DEFINE s == Email!The(Email!SpotOf(present, id))
             rows == present.rows
             less == [rows EXCEPT ![s[1]].columns[s[2]] = Email!RemoveAt(@, s[3])]
  <2>1. IsSpot(rows, id, s) /\ rows[s[1]].layout # "1"
    BY <1>3, HandleIs, HandledSpot
  <2> HIDE DEF s, rows
  <2>2. less = Replace(rows, s[1],
            WithColumn(rows[s[1]], s[2], Email!RemoveAt(rows[s[1]].columns[s[2]], s[3])))
    BY DEF Replace, WithColumn
  <2> HIDE DEF less
  <2>3. Sheet(rows, present.blocks, fresh)
    BY <1>1 DEF rows
  <2>4. Sheet(less, present.blocks \ {rows[s[1]].columns[s[2]][s[3]]}, fresh)
    BY <2>1, <2>2, <2>3, TakeBlock DEF IsSpot
  <2>5. Sheet(Email!tidy(less), present.blocks \ {id}, fresh)
    BY <2>1, <2>4, TidyIs DEF IsSpot
  <2> QED
    BY <2>5, GoodIs DEF s, less, rows
<1> QED
  BY <1>2, <1>3

LEMMA Stepped ==
    ASSUME Good(present, fresh), fresh \in Nat \ {0}, NEW id \in Email!Handles, NEW delta
    PROVE  /\ Email!RowOf(present, id) # {} =>
                LET r == Email!The(Email!RowOf(present, id))
                IN  r + delta \in DOMAIN present.rows =>
                      Good([present EXCEPT !.rows = Email!Swap(@, r, r + delta)], fresh)
           /\ Email!RowOf(present, id) = {} =>
                LET s == Email!The(Email!SpotOf(present, id))
                IN  s[3] + delta \in DOMAIN present.rows[s[1]].columns[s[2]] =>
                      Good([present EXCEPT !.rows[s[1]].columns[s[2]] =
                                Email!Swap(@, s[3], s[3] + delta)], fresh)
<1>1. /\ Sheet(present.rows, present.blocks, fresh)
      /\ present = [rows |-> present.rows, blocks |-> present.blocks]
  BY GoodIs
<1>2. ASSUME NEW rows, Sheet(rows, present.blocks, fresh)
      PROVE  Good([present EXCEPT !.rows = rows], fresh)
  <2>1. [present EXCEPT !.rows = rows] = [rows |-> rows, blocks |-> present.blocks]
    BY <1>1
  <2> QED
    BY <1>2, <2>1, GoodIs
<1>3. ASSUME Email!RowOf(present, id) # {}
      PROVE  LET r == Email!The(Email!RowOf(present, id))
             IN  r + delta \in DOMAIN present.rows =>
                   Good([present EXCEPT !.rows = Email!Swap(@, r, r + delta)], fresh)
  <2> DEFINE r == Email!The(Email!RowOf(present, id))
  <2>1. r \in DOMAIN present.rows
    BY <1>3, RowIs
  <2> HIDE DEF r
  <2>2. ASSUME r + delta \in DOMAIN present.rows
        PROVE  Sheet(Email!Swap(present.rows, r, r + delta), present.blocks, fresh)
    BY <1>1, <2>1, <2>2, SheetSwap
  <2> QED
    BY <1>2, <2>2 DEF r
<1>4. ASSUME Email!RowOf(present, id) = {}
      PROVE  LET s == Email!The(Email!SpotOf(present, id))
             IN  s[3] + delta \in DOMAIN present.rows[s[1]].columns[s[2]] =>
                   Good([present EXCEPT !.rows[s[1]].columns[s[2]] =
                             Email!Swap(@, s[3], s[3] + delta)], fresh)
  <2> DEFINE s == Email!The(Email!SpotOf(present, id))
             rows == present.rows
             B == present.blocks
             old == rows[s[1]].columns[s[2]]
             t == Email!Swap(old, s[3], s[3] + delta)
             after == Replace(rows, s[1], WithColumn(rows[s[1]], s[2], t))
  <2>1. IsSpot(rows, id, s) /\ rows[s[1]].layout # "1"
    BY <1>4, HandleIs, HandledSpot
  <2> SUFFICES ASSUME s[3] + delta \in DOMAIN old
               PROVE  Good([present EXCEPT !.rows[s[1]].columns[s[2]] =
                          Email!Swap(@, s[3], s[3] + delta)], fresh)
    OBVIOUS
  <2>2. [present EXCEPT !.rows[s[1]].columns[s[2]] = Email!Swap(@, s[3], s[3] + delta)]
          = [present EXCEPT !.rows = after]
    BY DEF Replace, WithColumn
  <2>3. Sheet(rows, B, fresh)
    BY <1>1
  <2> HIDE DEF s, rows, B
  <2>4. rows \in Seq(Shaped) /\ Whole(Email!ToSet(rows), B, fresh)
    BY <2>3 DEF Sheet
  <2>5. s[1] \in DOMAIN rows /\ s[2] \in DOMAIN rows[s[1]].columns /\ s[3] \in DOMAIN old
    BY <2>1 DEF IsSpot
  <2>6. rows[s[1]] \in Shaped /\ HoldsOnce(rows[s[1]]) /\ Holds(rows[s[1]]) \subseteq B
    BY <2>4, <2>5, LenProperties DEF Whole, Held, Email!ToSet
  <2>7. old \in Seq(Nat) /\ Email!IsInjective(old) /\ Email!ToSet(old) \subseteq B
    BY <2>5, <2>6, ShapedIs DEF HoldsOnce, Holds
  <2> DEFINE N == {}
             k == s[3] + delta
  <2>8. t \in Seq(Nat) /\ Email!IsInjective(t) /\ Email!ToSet(t) = Email!ToSet(old)
    <3>1. k \in DOMAIN old
      OBVIOUS
    <3> HIDE DEF old, k
    <3> QED
      BY <2>5, <2>7, <3>1, SwapIs
  <2>9. /\ Email!ToSet(t) \subseteq Email!ToSet(rows[s[1]].columns[s[2]]) \cup N
        /\ N \subseteq 1..(fresh - 1) /\ N \cap B = {}
               /\ \A q \in Email!ToSet(rows) : -q.id \notin N
    BY <2>8
  <2> HIDE DEF t, N
  <2>10. Sheet(after, (B \ Email!ToSet(rows[s[1]].columns[s[2]])) \cup Email!ToSet(t), fresh)
    BY <2>1, <2>3, <2>5, <2>8, <2>9, SheetColumn
  <2>11. (B \ Email!ToSet(old)) \cup Email!ToSet(t) = B
    BY <2>7, <2>8
  <2> HIDE DEF after
  <2>12. Sheet(after, present.blocks, fresh)
    BY <2>10, <2>11 DEF B
  <2>13. Good([present EXCEPT !.rows = after], fresh)
    BY <1>2, <2>12
  <2> QED
    BY <2>2, <2>13
<1> QED
  BY <1>3, <1>4
---------------------------------------------------------------------------
(***************************************************************************)
(* Storing and reading.  A one-column row is read as its block's, an empty *)
(* row is passed over, and a block no row names gets one: read once more,  *)
(* nothing changes.                                                        *)
(***************************************************************************)
\* What is spread twice, and what is spread alike.
LEMMA SpreadTwice ==
    ASSUME NEW S, NEW R, NEW Q, NEW f, NEW g, NEW h, Makes(f, S, Seq(R)), Makes(g, R, Seq(Q)),
           Makes(h, S, Seq(Q)), \A x \in S : Spread(g, f[x]) = h[x], NEW s \in Seq(S)
    PROVE  Spread(g, Spread(f, s)) = Spread(h, s)
<1> DEFINE T == {t \in Seq(S) : Spread(g, Spread(f, t)) = Spread(h, t)}
<1>1. \A x \in S : f[x] \in Seq(R)
  BY DEF Makes
<1>2. <<>> \in T
  <2>1. Spread(f, <<>>) = <<>> /\ Spread(g, <<>>) = <<>> /\ Spread(h, <<>>) = <<>>
            /\ <<>> \in Seq(S)
    <3>1. Spread(f, <<>>) = <<>>
      BY SpreadIs
    <3>2. Spread(g, <<>>) = <<>>
      BY SpreadIs
    <3>3. Spread(h, <<>>) = <<>>
      BY SpreadIs
    <3> QED
      BY <3>1, <3>2, <3>3
  <2> QED
    BY <2>1
<1>3. ASSUME NEW t \in T, NEW x \in S PROVE t \o <<x>> \in T
  <2> DEFINE one == <<x>>
  <2>1. one \in Seq(S) /\ t \in Seq(S) /\ Spread(g, Spread(f, t)) = Spread(h, t)
    OBVIOUS
  <2>2. Spread(f, one) = f[x]
    BY SpreadOne
  <2>3. Spread(h, one) = h[x]
    BY SpreadOne
  <2> HIDE DEF one, T
  <2>4. t \o one \in Seq(S)
    BY <2>1, ConcatProperties
  <2>5. Spread(f, t \o one) = Spread(f, t) \o Spread(f, one)
    BY <2>1, SpreadCat
  <2>6. Spread(h, t \o one) = Spread(h, t) \o Spread(h, one)
    BY <2>1, SpreadCat
  <2>7. Spread(f, t) \in Seq(R)
    BY <2>1, SpreadIs
  <2> DEFINE p == Spread(f, t)
             q == f[x]
  <2>8. p \in Seq(R) /\ q \in Seq(R)
    BY <1>1, <2>7
  <2> HIDE DEF p, q
  <2>9. Spread(g, p \o q) = Spread(g, p) \o Spread(g, q)
    BY <2>8, SpreadCat
  <2>10. Spread(g, Spread(f, t \o one)) = Spread(h, t \o one)
    BY <2>1, <2>2, <2>3, <2>5, <2>6, <2>9 DEF p, q
  <2> QED
    BY <2>4, <2>10 DEF T, one
<1>4. Seq(S) \subseteq T
  <2> HIDE DEF T
  <2> QED
    BY <1>2, <1>3, CatInduct
<1> QED
  BY <1>4

LEMMA SpreadSame ==
    ASSUME NEW g, NEW h, NEW s, \A i \in DOMAIN s : g[s[i]] = h[s[i]]
    PROVE  Spread(g, s) = Spread(h, s)
<1>1. Map(g, s) = Map(h, s)
  BY DEF Map
<1> QED
  BY <1>1 DEF Spread

\* A sequence made of one-element sequences is made element by element.
LEMMA SpreadMap ==
    ASSUME NEW S, NEW R, NEW g, NEW h, Makes(h, S, R), Makes(g, S, Seq(R)),
           \A x \in S : g[x] = <<h[x]>>, NEW s \in Seq(S)
    PROVE  Spread(g, s) = Map(h, s)
<1> DEFINE T == {t \in Seq(S) : Spread(g, t) = Map(h, t)}
<1>1. <<>> \in T
  <2>1. Spread(g, <<>>) = <<>>
    BY SpreadIs
  <2>2. Map(h, <<>>) = <<>>
    BY DEF Map
  <2> QED
    BY <2>1, <2>2
<1>2. ASSUME NEW t \in T, NEW x \in S PROVE t \o <<x>> \in T
  <2> DEFINE one == <<x>>
  <2>1. one \in Seq(S) /\ t \in Seq(S) /\ Spread(g, t) = Map(h, t)
    OBVIOUS
  <2>2. Spread(g, one) = g[x]
    BY SpreadOne
  <2>3. Map(h, one) = <<h[x]>>
    BY DEF Map
  <2> HIDE DEF one, T
  <2>4. t \o one \in Seq(S)
    BY <2>1, ConcatProperties
  <2>5. Spread(g, t \o one) = Spread(g, t) \o Spread(g, one)
    <3>1. Makes(g, S, Seq(R)) /\ one \in Seq(S) /\ t \in Seq(S)
      BY <2>1
    <3> QED
      BY ONLY <3>1, SpreadCat
  <2>6. Map(h, t \o one) = Map(h, t) \o Map(h, one)
    BY <2>1, MapCat
  <2> QED
    BY <2>1, <2>2, <2>3, <2>4, <2>5, <2>6 DEF T, one
<1>3. Seq(S) \subseteq T
  <2> HIDE DEF T
  <2> QED
    BY <1>1, <1>2, CatInduct
<1> QED
  BY <1>3

---------------------------------------------------------------------------
\* The rows as they are stored and read again, each made from one.
singleOf == [b \in Nat |-> Email!Single(b)]
oneOf == [b \in Nat |-> <<Email!Single(b)>>]
idOf == [b \in Nat |-> b]
wordOf == [b \in Nat |-> <<b>>]
flatOf == [r \in Shaped |-> IF r.layout = "1" THEN Email!Singles(r.columns[1]) ELSE <<r>>]
readOf == [r \in Shaped |-> IF Email!Ids(r) = <<>> THEN <<>> ELSE flatOf[r]]

LEMMA SinglesAre ==
    ASSUME NEW ids \in Seq(Nat)
    PROVE  /\ Email!Singles(ids) = Spread(oneOf, ids) /\ Email!Singles(ids) \in Seq(Shaped)
           /\ Makes(oneOf, Nat, Seq(Shaped))
<1>1. Makes(singleOf, Nat, Shaped) /\ \A b \in Nat : singleOf[b] = Email!Single(b)
  BY SingleIs DEF Makes, singleOf
<1>2. Makes(oneOf, Nat, Seq(Shaped)) /\ \A b \in Nat : oneOf[b] = <<Email!Single(b)>>
  <2>1. \A b \in Nat : <<Email!Single(b)>> \in Seq(Shaped)
    BY SingleIs
  <2> QED
    BY <2>1 DEF Makes, oneOf
<1>3. \A i \in DOMAIN ids : ids[i] \in Nat
  BY LenProperties
<1>4. Email!Singles(ids) = Map(singleOf, ids)
  BY <1>1, <1>3 DEF Email!Singles, Map
<1>5. Spread(oneOf, ids) = Map(singleOf, ids)
  BY <1>1, <1>2, SpreadMap
<1>6. Spread(oneOf, ids) \in Seq(Shaped)
  BY <1>2, SpreadIs
<1> QED
  BY <1>2, <1>4, <1>5, <1>6

LEMMA FlatIs ==
    /\ Makes(flatOf, Shaped, Seq(Shaped)) /\ Makes(readOf, Shaped, Seq(Shaped))
    /\ \A r \in Shaped : flatOf[r] = IF r.layout = "1" THEN Email!Singles(Email!Ids(r)) ELSE <<r>>
    /\ \A r \in Shaped : readOf[r] = IF Email!Ids(r) = <<>> THEN <<>> ELSE flatOf[r]
<1>1. ASSUME NEW r \in Shaped
      PROVE  /\ flatOf[r] = IF r.layout = "1" THEN Email!Singles(Email!Ids(r)) ELSE <<r>>
             /\ flatOf[r] \in Seq(Shaped)
  <2>1. flatOf[r] = IF r.layout = "1" THEN Email!Singles(r.columns[1]) ELSE <<r>>
    BY DEF flatOf
  <2>2. Email!Ids(r) \in Seq(Nat) /\ (r.layout = "1" => Email!Ids(r) = r.columns[1])
    BY IdsAre
  <2>3. Email!Singles(Email!Ids(r)) \in Seq(Shaped)
    BY <2>2, SinglesAre
  <2> QED
    BY <2>1, <2>2, <2>3
<1>2. Makes(flatOf, Shaped, Seq(Shaped))
  <2>1. flatOf = [r \in Shaped |-> flatOf[r]]
    BY DEF flatOf
  <2> QED
    BY <1>1, <2>1 DEF Makes
<1>3. \A r \in Shaped : readOf[r] = IF Email!Ids(r) = <<>> THEN <<>> ELSE flatOf[r]
  BY DEF readOf
<1>4. Makes(readOf, Shaped, Seq(Shaped))
  <2>1. readOf = [r \in Shaped |-> readOf[r]]
    BY DEF readOf
  <2>2. \A r \in Shaped : readOf[r] \in Seq(Shaped)
    BY <1>1, <1>3, EmptySeq
  <2> QED
    BY <2>1, <2>2 DEF Makes
<1> QED
  BY <1>1, <1>2, <1>3, <1>4

LEMMA FlattenedIs ==
    ASSUME NEW rows \in Seq(Shaped)
    PROVE  /\ Email!Flattened(rows) = Spread(flatOf, rows) /\ Email!Flattened(rows) \in Seq(Shaped)
           /\ Email!Flattened(Email!Filled(rows)) = Spread(readOf, rows)
           /\ Email!Flattened(Email!Filled(rows)) \in Seq(Shaped)
<1>1. ASSUME NEW t \in Seq(Shaped) PROVE Email!Flattened(t) = Spread(flatOf, t)
  <2>1. \A i \in DOMAIN t : t[i] \in Shaped
    BY LenProperties
  <2>2. Map(flatOf, t) = [i \in DOMAIN t |-> IF t[i].layout = "1"
            THEN Email!Singles(t[i].columns[1])
                                              ELSE <<t[i]>>]
    BY <2>1 DEF Map, flatOf
  <2> QED
    BY <2>2 DEF Email!Flattened, Spread
<1>2. Email!Flattened(rows) \in Seq(Shaped)
  BY <1>1, FlatIs, SpreadIs
<1> DEFINE keep == Chosen(Shaped, FilledRows)
<1>3. /\ Makes(keep, Shaped, Seq(Shaped))
      /\ \A r \in Shaped : keep[r] = IF Email!Ids(r) # <<>> THEN <<r>> ELSE <<>>
  BY ChosenMakes DEF FilledRows
<1>4. Email!Filled(rows) = Spread(keep, rows) /\ Email!Filled(rows) \in Seq(Shaped)
  BY FiltersAre, ChosenIs
<1> HIDE DEF keep
<1>5. ASSUME NEW r \in Shaped PROVE Spread(flatOf, keep[r]) = readOf[r]
  <2>1. CASE Email!Ids(r) = <<>>
    <3>1. Spread(flatOf, <<>>) = <<>>
      BY FlatIs, SpreadIs
    <3> QED
      BY <1>3, <2>1, <3>1, FlatIs
  <2>2. CASE Email!Ids(r) # <<>>
    <3>1. Spread(flatOf, <<r>>) = flatOf[r]
      BY FlatIs, SpreadOne
    <3> QED
      BY <1>3, <2>2, <3>1, FlatIs
  <2> QED
    BY <2>1, <2>2
<1>6. Spread(flatOf, Spread(keep, rows)) = Spread(readOf, rows)
  BY <1>3, <1>5, FlatIs, SpreadTwice
<1>7. Email!Flattened(Email!Filled(rows)) = Spread(readOf, rows)
  BY <1>1, <1>4, <1>6
<1>8. Spread(readOf, rows) \in Seq(Shaped)
  BY FlatIs, SpreadIs
<1> QED
  BY <1>1, <1>2, <1>7, <1>8

LEMMA SinglesStand ==
    ASSUME NEW ids \in Seq(Nat)
    PROVE  Spread(readOf, Email!Singles(ids)) = Email!Singles(ids)
               /\ Email!Order(Email!Singles(ids)) = ids
<1>1. Makes(oneOf, Nat, Seq(Shaped)) /\ Email!Singles(ids) = Spread(oneOf, ids)
          /\ Email!Singles(ids) \in Seq(Shaped)
  BY SinglesAre
<1>2. ASSUME NEW b \in Nat PROVE Spread(readOf, oneOf[b]) = oneOf[b]
                 /\ Spread(idsOf, oneOf[b]) = <<b>>
  <2>1. Email!Single(b) \in Shaped /\ Email!Ids(Email!Single(b)) = <<b>>
            /\ Email!Single(b).layout = "1" /\ oneOf[b] = <<Email!Single(b)>>
    BY SingleIs DEF oneOf
  <2>2. Email!Singles(<<b>>) = <<Email!Single(b)>> /\ <<b>> # <<>>
    BY DEF Email!Singles
  <2>3. readOf[Email!Single(b)] = <<Email!Single(b)>>
    BY <2>1, <2>2, FlatIs
  <2>4. idsOf[Email!Single(b)] = <<b>>
    BY <2>1 DEF idsOf
  <2>5. Spread(readOf, <<Email!Single(b)>>) = readOf[Email!Single(b)]
    BY <2>1, FlatIs, SpreadOne
  <2>6. Spread(idsOf, <<Email!Single(b)>>) = idsOf[Email!Single(b)]
    BY <2>1, OrderIs, SpreadOne
  <2> QED
    BY <2>1, <2>3, <2>4, <2>5, <2>6
<1>3. Spread(readOf, Spread(oneOf, ids)) = Spread(oneOf, ids)
  <2>1. Makes(readOf, Shaped, Seq(Shaped)) /\ \A b \in Nat : Spread(readOf, oneOf[b]) = oneOf[b]
    BY <1>2, FlatIs
  <2> QED
    BY ONLY <1>1, <2>1, ids \in Seq(Nat), SpreadTwice
<1>4. /\ Makes(wordOf, Nat, Seq(Nat)) /\ Makes(idOf, Nat, Nat)
      /\ \A b \in Nat : wordOf[b] = <<b>> /\ idOf[b] = b
  <2>1. \A b \in Nat : <<b>> \in Seq(Nat)
    OBVIOUS
  <2> QED
    BY <2>1 DEF Makes, wordOf, idOf
<1>5. Spread(idsOf, Spread(oneOf, ids)) = Spread(wordOf, ids)
  <2>1. \A b \in Nat : Spread(idsOf, oneOf[b]) = wordOf[b]
    BY <1>2, <1>4
  <2>2. Makes(oneOf, Nat, Seq(Shaped)) /\ Makes(idsOf, Shaped, Seq(Nat))
            /\ Makes(wordOf, Nat, Seq(Nat))
    BY <1>1, <1>4, OrderIs
  <2> QED
    BY ONLY <2>1, <2>2, ids \in Seq(Nat), SpreadTwice
<1>6. Spread(wordOf, ids) = Map(idOf, ids)
  BY <1>4, SpreadMap
<1>7. Map(idOf, ids) = ids
  <2>1. ids = [i \in DOMAIN ids |-> ids[i]] /\ \A i \in DOMAIN ids : ids[i] \in Nat
    BY LenProperties
  <2> QED
    BY <1>4, <2>1 DEF Map
<1> QED
  BY <1>1, <1>3, <1>5, <1>6, <1>7, OrderIs

LEMMA ReadAgain ==
    ASSUME NEW rows \in Seq(Shaped)
    PROVE  /\ Email!Flattened(Email!Filled(Email!Flattened(rows))) =
                 Email!Flattened(Email!Filled(rows))
           /\ Email!Flattened(Email!Filled(Email!Flattened(Email!Filled(rows)))) =
                  Email!Flattened(Email!Filled(rows))
           /\ Email!Order(Email!Flattened(rows)) = Email!Order(rows)
                  /\ Email!Order(Email!Flattened(Email!Filled(rows))) = Email!Order(rows)
           /\ (\A i \in DOMAIN rows : rows[i].layout = "1") =>
                 Email!Flattened(Email!Filled(rows)) = Email!Singles(Email!Order(rows))
<1>1. \A r \in Shaped : idsOf[r] = Email!Ids(r) /\ Email!Ids(r) \in Seq(Nat)
  BY IdsAre DEF idsOf
<1>2. Spread(readOf, <<>>) = <<>> /\ Spread(idsOf, <<>>) = <<>> /\ Email!Singles(<<>>) = <<>>
  <2>1. Spread(readOf, <<>>) = <<>>
    BY FlatIs, SpreadIs
  <2>2. Spread(idsOf, <<>>) = <<>>
    BY OrderIs, SpreadIs
  <2>3. Email!Singles(<<>>) = <<>>
    BY DEF Email!Singles
  <2> QED
    BY <2>1, <2>2, <2>3
<1>3. ASSUME NEW r \in Shaped
      PROVE  /\ Spread(readOf, flatOf[r]) = readOf[r] /\ Spread(readOf, readOf[r]) = readOf[r]
             /\ Spread(idsOf, flatOf[r]) = idsOf[r] /\ Spread(idsOf, readOf[r]) = idsOf[r]
  <2>1. Spread(readOf, <<r>>) = readOf[r]
    BY FlatIs, SpreadOne
  <2>2. Spread(idsOf, <<r>>) = idsOf[r]
    BY OrderIs, SpreadOne
  <2>3. Email!Singles(Email!Ids(r)) \in Seq(Shaped)
            /\ Spread(readOf, Email!Singles(Email!Ids(r))) = Email!Singles(Email!Ids(r))
          /\ Email!Order(Email!Singles(Email!Ids(r))) = Email!Ids(r)
    BY <1>1, SinglesAre, SinglesStand
  <2>4. Spread(idsOf, Email!Singles(Email!Ids(r))) = Email!Ids(r)
    BY <2>3, OrderIs
  <2>5. /\ flatOf[r] = IF r.layout = "1" THEN Email!Singles(Email!Ids(r)) ELSE <<r>>
        /\ readOf[r] = IF Email!Ids(r) = <<>> THEN <<>> ELSE flatOf[r]
    BY FlatIs
  <2>6. Spread(readOf, flatOf[r]) = readOf[r]
    <3>1. CASE r.layout = "1"
      BY <1>2, <2>3, <2>5, <3>1
    <3>2. CASE r.layout # "1"
      BY <2>1, <2>5, <3>2
    <3> QED
      BY <3>1, <3>2
  <2>7. Spread(idsOf, flatOf[r]) = idsOf[r]
    BY <1>1, <2>2, <2>4, <2>5
  <2> QED
    BY <1>1, <1>2, <2>5, <2>6, <2>7
<1>4. Spread(readOf, Spread(flatOf, rows)) = Spread(readOf, rows)
  BY <1>3, FlatIs, SpreadTwice
<1>5. Spread(readOf, Spread(readOf, rows)) = Spread(readOf, rows)
  BY <1>3, FlatIs, SpreadTwice
<1>6. Spread(idsOf, Spread(flatOf, rows)) = Spread(idsOf, rows)
  BY <1>3, FlatIs, OrderIs, SpreadTwice
<1>7. Spread(idsOf, Spread(readOf, rows)) = Spread(idsOf, rows)
  BY <1>3, FlatIs, OrderIs, SpreadTwice
<1>8. ASSUME \A i \in DOMAIN rows : rows[i].layout = "1"
      PROVE  Spread(readOf, rows) = Email!Singles(Email!Order(rows))
  <2> DEFINE h == [r \in Shaped |-> Email!Singles(Email!Ids(r))]
  <2>1. Makes(h, Shaped, Seq(Shaped)) /\ \A r \in Shaped : h[r] = Email!Singles(Email!Ids(r))
    <3>1. \A r \in Shaped : Email!Singles(Email!Ids(r)) \in Seq(Shaped)
      BY <1>1, SinglesAre
    <3> QED
      BY <3>1 DEF Makes
  <2> HIDE DEF h
  <2>2. Makes(oneOf, Nat, Seq(Shaped))
    BY EmptySeq, SinglesAre
  <2>3. \A r \in Shaped : Spread(oneOf, idsOf[r]) = h[r]
    BY <1>1, <2>1, SinglesAre
  <2>4. Spread(oneOf, Spread(idsOf, rows)) = Spread(h, rows)
    BY <2>1, <2>2, <2>3, OrderIs, SpreadTwice
  <2>5. Email!Order(rows) = Spread(idsOf, rows) /\ Email!Order(rows) \in Seq(Nat)
    BY OrderIs, OrderHolds
  <2>6. Email!Singles(Email!Order(rows)) = Spread(oneOf, Spread(idsOf, rows))
    BY <2>5, SinglesAre
  <2>7. \A i \in DOMAIN rows : readOf[rows[i]] = h[rows[i]]
    <3>1. \A i \in DOMAIN rows : rows[i] \in Shaped
      BY LenProperties
    <3> QED
      BY <1>2, <1>8, <2>1, <3>1, FlatIs
  <2>8. Spread(readOf, rows) = Spread(h, rows)
    BY <2>7, SpreadSame
  <2> QED
    BY <2>4, <2>6, <2>8
<1>9. /\ Email!Flattened(rows) = Spread(flatOf, rows) /\ Email!Flattened(rows) \in Seq(Shaped)
      /\ Email!Flattened(Email!Filled(rows)) = Spread(readOf, rows)
             /\ Email!Flattened(Email!Filled(rows)) \in Seq(Shaped)
  BY FlattenedIs
<1>10. /\ Email!Flattened(Email!Filled(Email!Flattened(rows))) =
             Spread(readOf, Email!Flattened(rows))
       /\ Email!Flattened(Email!Filled(Email!Flattened(Email!Filled(rows)))) =
              Spread(readOf, Email!Flattened(Email!Filled(rows)))
       /\ Email!Order(Email!Flattened(rows)) = Spread(idsOf, Email!Flattened(rows))
       /\ Email!Order(Email!Flattened(Email!Filled(rows))) =
              Spread(idsOf, Email!Flattened(Email!Filled(rows)))
       /\ Email!Order(rows) = Spread(idsOf, rows)
  BY <1>9, FlattenedIs, OrderIs
<1> QED
  BY <1>4, <1>5, <1>6, <1>7, <1>8, <1>9, <1>10
---------------------------------------------------------------------------
\* What is read again of a sheet's rows stands.
LEMMA ReadRow ==
    ASSUME NEW rows, NEW B, NEW n, Sheet(rows, B, n), NEW r \in Email!ToSet(rows)
    PROVE  /\ Email!IsInjective(readOf[r])
           /\ \A x \in Email!ToSet(readOf[r]) :
                /\ x \in Shaped /\ HoldsOnce(x) /\ Holds(x) = Holds(r) /\ Holds(r) # {}
                       /\ Fits(x, B, n)
                /\ \/ r.layout # "1" /\ x = r
                   \/ \E b \in B : x = Email!Single(b) /\ Holds(r) = {b}
           /\ Holds(r) # {} => Email!ToSet(readOf[r]) # {}
<1>1. Email!ToSet(rows) \subseteq Shaped /\ B \subseteq 1..(n - 1) /\ Whole(Email!ToSet(rows), B, n)
  BY ToSetIn DEF Sheet
<1>2. r \in Shaped /\ HoldsOnce(r) /\ Fits(r, B, n) /\ Holds(r) \subseteq B
  BY <1>1 DEF Whole, Held
<1>3. /\ Email!Ids(r) \in Seq(Nat) /\ Email!ToSet(Email!Ids(r)) = Holds(r)
      /\ (Email!Ids(r) = <<>> <=> Holds(r) = {})
      /\ r.layout = "1" => Email!Ids(r) = r.columns[1]
  BY <1>2, IdsAre
<1>4. readOf[r] = IF Email!Ids(r) = <<>> THEN <<>> ELSE IF r.layout = "1"
          THEN Email!Singles(Email!Ids(r)) ELSE <<r>>
  BY <1>2, FlatIs
<1>5. CASE Email!Ids(r) = <<>>
  <2>1. readOf[r] = <<>> /\ Holds(r) = {}
    BY <1>3, <1>4, <1>5
  <2>2. Email!IsInjective(readOf[r]) /\ Email!ToSet(readOf[r]) = {}
    BY <2>1, HoldsNone
  <2> QED
    BY <2>1, <2>2
<1>6. CASE Email!Ids(r) # <<>> /\ r.layout # "1"
  <2>1. readOf[r] = <<r>> /\ Holds(r) # {}
    BY <1>3, <1>4, <1>6
  <2>2. Email!IsInjective(readOf[r]) /\ Email!ToSet(readOf[r]) = {r}
    BY <2>1, HoldsOne
  <2> QED
    BY <1>2, <1>6, <2>1, <2>2
<1>7. CASE Email!Ids(r) # <<>> /\ r.layout = "1"
  <2> DEFINE s == Email!Ids(r)
  <2>1. s \in Seq(Nat) /\ s # <<>> /\ Len(s) <= 1 /\ readOf[r] = Email!Singles(s)
            /\ Email!ToSet(s) = Holds(r)
    BY <1>2, <1>3, <1>4, <1>7 DEF Fits
  <2> HIDE DEF s
  <2>2. Len(s) = 1
    <3> DEFINE m == Len(s)
    <3>1. m \in Nat /\ m # 0 /\ m <= 1
      BY <2>1, LenProperties, EmptySeq
    <3> HIDE DEF m
    <3>2. m = 1
      BY <3>1
    <3> QED
      BY <3>2 DEF m
  <2>3. PICK b \in Nat : s = <<b>>
    BY <2>1, <2>2
  <2>4. Holds(r) = {b} /\ b \in B
    BY <1>2, <2>1, <2>3, HoldsOne
  <2>5. Email!Singles(<<b>>) = <<Email!Single(b)>>
    BY DEF Email!Singles
  <2>6. Email!IsInjective(readOf[r]) /\ Email!ToSet(readOf[r]) = {Email!Single(b)}
    BY <2>1, <2>3, <2>5, HoldsOne
  <2>7. /\ Email!Single(b) \in Shaped /\ Email!Single(b).id = -b /\ Email!Single(b).layout = "1"
        /\ Email!Single(b).columns = <<<<b>>>> /\ Email!Single(b).columns[1] = <<b>>
        /\ Holds(Email!Single(b)) = {b} /\ HoldsOnce(Email!Single(b))
    BY SingleIs
  <2>8. -(-b) = b /\ Len(<<b>>) = 1
    OBVIOUS
  <2>9. Fits(Email!Single(b), B, n)
    BY <1>1, <2>4, <2>7, <2>8 DEF Fits
  <2> QED
    BY <2>4, <2>6, <2>7, <2>9
<1> QED
  BY <1>5, <1>6, <1>7

LEMMA SheetReads ==
    ASSUME NEW rows, NEW B, NEW n, Sheet(rows, B, n)
    PROVE  /\ Sheet(Email!Flattened(Email!Filled(rows)), B, n)
           /\ \A x \in Email!ToSet(Email!Flattened(Email!Filled(rows))) :
                \/ x \in Email!ToSet(rows) /\ x.layout # "1"
                \/ \E b \in B : x = Email!Single(b)
<1> DEFINE t == Email!Flattened(Email!Filled(rows))
           R == Email!ToSet(rows)
<1>1. /\ rows \in Seq(Shaped) /\ Email!IsInjective(rows) /\ B \subseteq 1..(n - 1) /\ Whole(R, B, n)
      /\ R \subseteq Shaped
  BY ToSetIn DEF Sheet
<1>2. t = Spread(readOf, rows) /\ t \in Seq(Shaped)
  BY <1>1, FlattenedIs
<1> HIDE DEF t
<1>3. Email!ToSet(t) = UNION {Email!ToSet(readOf[x]) : x \in R}
  BY <1>1, <1>2, FlatIs, SpreadHolds
<1>4. \A i \in DOMAIN rows : rows[i] \in R
  BY DEF Email!ToSet
<1> HIDE DEF R
<1>5. \A r \in R : /\ Email!IsInjective(readOf[r])
                   /\ \A x \in Email!ToSet(readOf[r]) :
                        /\ x \in Shaped /\ HoldsOnce(x) /\ Holds(x) = Holds(r) /\ Holds(r) # {}
                        /\ Fits(x, B, n)
                        /\ \/ r.layout # "1" /\ x = r
                           \/ \E b \in B : x = Email!Single(b) /\ Holds(r) = {b}
                   /\ Holds(r) # {} => Email!ToSet(readOf[r]) # {}
  BY ReadRow DEF R
<1>6. Email!IsInjective(t)
  <2>1. \A i \in DOMAIN rows : Email!IsInjective(readOf[rows[i]])
    BY <1>4, <1>5
  <2>2. ASSUME NEW i \in DOMAIN rows, NEW k \in DOMAIN rows, i # k
        PROVE  Email!ToSet(readOf[rows[i]]) \cap Email!ToSet(readOf[rows[k]]) = {}
    <3>1. rows[i] # rows[k]
      BY <1>1, <2>2 DEF Email!IsInjective
    <3>2. Holds(rows[i]) \cap Holds(rows[k]) = {}
      BY <1>1, <1>4, <3>1 DEF Whole, Apart
    <3> SUFFICES ASSUME NEW x \in Email!ToSet(readOf[rows[i]]), x \in Email!ToSet(readOf[rows[k]])
                            PROVE FALSE
      OBVIOUS
    <3>3. Holds(x) = Holds(rows[i]) /\ Holds(x) = Holds(rows[k]) /\ Holds(rows[i]) # {}
      BY <1>4, <1>5
    <3> QED
      BY <3>2, <3>3
  <2> DEFINE p == Spread(readOf, rows)
  <2>3. Email!IsInjective(p) <=>
           /\ \A i \in DOMAIN rows : Email!IsInjective(readOf[rows[i]])
           /\ \A i, k \in DOMAIN rows : i # k =>
                Email!ToSet(readOf[rows[i]]) \cap Email!ToSet(readOf[rows[k]]) = {}
    <3>1. Makes(readOf, Shaped, Seq(Shaped)) /\ rows \in Seq(Shaped)
      BY <1>1, FlatIs
    <3> QED
      BY ONLY <3>1, SpreadHolds
  <2> HIDE DEF p
  <2>4. Email!IsInjective(p)
    BY <2>1, <2>2, <2>3
  <2> QED
    BY <1>2, <2>4 DEF p
<1>7. ASSUME NEW x \in Email!ToSet(t)
      PROVE  \E r \in R : x \in Email!ToSet(readOf[r])
  BY <1>3
<1>8. Held(Email!ToSet(t)) = B
  <2>1. ASSUME NEW b \in Held(Email!ToSet(t)) PROVE b \in B
    <3>1. PICK x \in Email!ToSet(t) : b \in Holds(x)
      BY DEF Held
    <3>2. PICK r \in R : x \in Email!ToSet(readOf[r])
      BY <1>7
    <3>3. b \in Holds(r)
      BY <1>5, <3>1, <3>2
    <3> QED
      BY <1>1, <3>3 DEF Whole, Held
  <2>2. ASSUME NEW b \in B PROVE b \in Held(Email!ToSet(t))
    <3>1. PICK r \in R : b \in Holds(r)
      BY <1>1 DEF Whole, Held
    <3>2. PICK x \in Email!ToSet(readOf[r]) : TRUE
      BY <1>5, <3>1
    <3>3. b \in Holds(x) /\ x \in Email!ToSet(t)
      BY <1>3, <1>5, <3>1, <3>2
    <3> QED
      BY <3>3 DEF Held
  <2> QED
    BY <2>1, <2>2
<1>9. ASSUME NEW x \in Email!ToSet(t), NEW y \in Email!ToSet(t), x # y
      PROVE  x.id # y.id /\ Holds(x) \cap Holds(y) = {}
  <2>1. PICK r \in R : x \in Email!ToSet(readOf[r])
    BY <1>7
  <2>2. PICK q \in R : y \in Email!ToSet(readOf[q])
    BY <1>7
  <2>3. /\ Holds(x) = Holds(r) /\ Holds(r) # {}
        /\ (r.layout # "1" /\ x = r) \/ \E b \in B : x = Email!Single(b) /\ Holds(r) = {b}
    BY <1>5, <2>1
  <2>4. /\ Holds(y) = Holds(q) /\ Holds(q) # {}
        /\ (q.layout # "1" /\ y = q) \/ \E b \in B : y = Email!Single(b) /\ Holds(q) = {b}
    BY <1>5, <2>2
  <2>5. r # q
    <3>1. ASSUME r = q PROVE FALSE
      <4>1. CASE r.layout # "1" /\ x = r
        <5>1. \E b \in B : y = Email!Single(b) /\ Holds(r) = {b}
          BY <1>9, <2>4, <3>1, <4>1
        <5>2. PICK b \in B : y = Email!Single(b) /\ Holds(r) = {b}
          BY <5>1
        <5>3. readOf[r] = <<r>>
          BY <1>1, <2>3, <4>1, FlatIs, IdsAre
        <5> QED
          BY <1>9, <2>2, <3>1, <4>1, <5>3, HoldsOne
      <4>2. CASE \E b \in B : x = Email!Single(b) /\ Holds(r) = {b}
        <5>1. PICK b \in B : x = Email!Single(b) /\ Holds(r) = {b}
          BY <4>2
        <5>2. CASE r.layout # "1" /\ y = r
          <6>1. readOf[r] = <<r>>
            BY <1>1, <2>3, <5>2, FlatIs, IdsAre
          <6> QED
            BY <1>9, <2>1, <5>2, <6>1, HoldsOne
        <5>3. CASE \E c \in B : y = Email!Single(c) /\ Holds(r) = {c}
          BY <1>9, <5>1, <5>3
        <5> QED
          BY <2>4, <3>1, <5>2, <5>3
      <4> QED
        BY <2>3, <4>1, <4>2
    <3> QED
      BY <3>1
  <2>6. r.id # q.id /\ Holds(r) \cap Holds(q) = {}
    BY <1>1, <2>5 DEF Whole, Apart
  <2>7. \A b \in B : Email!Single(b).id = -b /\ b \in Int
    BY <1>1 DEF Email!Single
  <2>8. r.id \in Int /\ q.id \in Int
    BY <1>1, ShapedIs
  <2>9. \A b \in Holds(r) : -q.id # b
    BY <1>1, <2>5, RowsTold
  <2>10. \A b \in Holds(q) : -r.id # b
    BY <1>1, <2>5, RowsTold
  <2>11. x.id # y.id
    <3>1. CASE x = r /\ y = q
      BY <2>6, <3>1
    <3>2. CASE x = r /\ \E b \in B : y = Email!Single(b) /\ Holds(q) = {b}
      <4>1. PICK b \in B : y = Email!Single(b) /\ Holds(q) = {b}
        BY <3>2
      <4>2. y.id = -b /\ b \in Int /\ -r.id # b
        BY <2>7, <2>10, <4>1
      <4> QED
        BY <2>8, <3>2, <4>2
    <3>3. CASE (\E b \in B : x = Email!Single(b) /\ Holds(r) = {b}) /\ y = q
      <4>1. PICK b \in B : x = Email!Single(b) /\ Holds(r) = {b}
        BY <3>3
      <4>2. x.id = -b /\ b \in Int /\ -q.id # b
        BY <2>7, <2>9, <4>1
      <4> QED
        BY <2>8, <3>3, <4>2
    <3>4. CASE (\E b \in B : x = Email!Single(b) /\ Holds(r) = {b})
                   /\ \E b \in B : y = Email!Single(b) /\ Holds(q) = {b}
      <4>1. PICK b \in B : x = Email!Single(b) /\ Holds(r) = {b}
        BY <3>4
      <4>2. PICK c \in B : y = Email!Single(c) /\ Holds(q) = {c}
        BY <3>4
      <4>3. b # c /\ x.id = -b /\ y.id = -c /\ b \in Int /\ c \in Int
        BY <2>6, <2>7, <4>1, <4>2
      <4> QED
        BY <4>3
    <3> QED
      BY <2>3, <2>4, <3>1, <3>2, <3>3, <3>4
  <2> QED
    BY <2>3, <2>4, <2>6, <2>11
<1>10. \A x \in Email!ToSet(t) : Fits(x, B, n) /\ HoldsOnce(x)
  BY <1>5, <1>7
<1>11. Sheet(t, B, n)
  BY <1>1, <1>2, <1>6, <1>8, <1>9, <1>10 DEF Sheet, Whole, Apart
<1>12. ASSUME NEW x \in Email!ToSet(t)
       PROVE  (x \in R /\ x.layout # "1") \/ \E b \in B : x = Email!Single(b)
  BY <1>5, <1>7
<1> QED
  BY <1>11, <1>12 DEF t, R
---------------------------------------------------------------------------
\* A document that stands is read again as it was, its empty rows gone.
LEMMA FilterIs ==
    ASSUME NEW s \in Seq(Nat), NEW K
    PROVE  /\ Email!Filter(s, LAMBDA id : id \in K) = Spread(Chosen(Nat, K), s)
           /\ Email!Filter(s, LAMBDA id : id \notin K) = Spread(Chosen(Nat, Nat \ K), s)
<1>1. \A i \in DOMAIN s : s[i] \in Nat
  BY LenProperties
<1>2. \A i \in DOMAIN s : /\ Chosen(Nat, K)[s[i]] = IF s[i] \in K THEN <<s[i]>> ELSE <<>>
                          /\ Chosen(Nat, Nat \ K)[s[i]] = IF s[i] \notin K THEN <<s[i]>> ELSE <<>>
  BY <1>1, ChosenMakes
<1>3. /\ Map(Chosen(Nat, K), s) = [i \in DOMAIN s |-> IF s[i] \in K THEN <<s[i]>> ELSE <<>>]
      /\ Map(Chosen(Nat, Nat \ K), s) =
             [i \in DOMAIN s |-> IF s[i] \notin K THEN <<s[i]>> ELSE <<>>]
  BY <1>2 DEF Map
<1> QED
  BY <1>3 DEF Email!Filter, Spread

LEMMA StoredIs ==
    ASSUME NEW doc, NEW n, Good(doc, n)
    PROVE  Email!toDocument(doc) =
             [blocks |-> Email!Order(doc.rows),
              rows |-> IF Email!WritesRows(doc.rows) THEN Email!Flattened(doc.rows) ELSE <<>>]
<1>1. Sheet(doc.rows, doc.blocks, n)
  BY GoodIs
<1>2. Email!Order(doc.rows) \in Seq(Nat) /\ Email!ToSet(Email!Order(doc.rows)) = doc.blocks
  BY <1>1, SheetStands
<1>3. Email!Filter(Email!Order(doc.rows), LAMBDA id : id \in doc.blocks) = Email!Order(doc.rows)
  <2> DEFINE ids == Email!Order(doc.rows)
             K == doc.blocks
  <2>1. ids \in Seq(Nat) /\ Email!ToSet(ids) \subseteq K
    BY <1>2
  <2> HIDE DEF ids, K
  <2>2. Email!Filter(ids, LAMBDA id : id \in K) = Spread(Chosen(Nat, K), ids)
    BY <2>1, FilterIs
  <2>3. Spread(Chosen(Nat, K), ids) = ids
    BY <2>1, ChosenIs
  <2>4. Email!Filter(ids, LAMBDA id : id \in K) = ids
    BY <2>2, <2>3
  <2> QED
    BY <2>4 DEF ids, K
<1> QED
  BY <1>3 DEF Email!toDocument

LEMMA Reopened ==
    ASSUME NEW doc, NEW n, Good(doc, n)
    PROVE  Email!fromDocument(Email!toDocument(doc)) =
               [doc EXCEPT !.rows = Email!Flattened(Email!Filled(@))]
<1> DEFINE rows == doc.rows
           ids == Email!Order(rows)
           kept == IF Email!WritesRows(rows) THEN Email!Flattened(rows) ELSE <<>>
           rest == Email!Filter(ids, LAMBDA id : id \notin Email!ToSet(Email!Order(kept)))
<1>1. Sheet(rows, doc.blocks, n) /\ doc = [rows |-> rows, blocks |-> doc.blocks]
  BY GoodIs
<1>2. ids \in Seq(Nat) /\ Email!ToSet(ids) = doc.blocks /\ rows \in Seq(Shaped)
  BY <1>1, SheetStands DEF Sheet
<1>3. Email!toDocument(doc).blocks = ids /\ Email!toDocument(doc).rows = kept
  BY StoredIs
<1>4. Email!fromDocument(Email!toDocument(doc)) =
        [rows |-> Email!Flattened(Email!Filled(kept)) \o Email!Singles(rest), blocks |-> doc.blocks]
  <2> DEFINE document == Email!toDocument(doc)
  <2>1. document.blocks = ids /\ document.rows = kept
    BY <1>3
  <2> HIDE DEF document
  <2>2. Email!fromDocument(document) = [rows |-> Email!readRows(ids, kept), blocks |-> doc.blocks]
    BY <1>2, <2>1 DEF Email!fromDocument
  <2>3. Email!readRows(ids, kept) = Email!Flattened(Email!Filled(kept)) \o Email!Singles(rest)
    BY DEF Email!readRows
  <2> QED
    BY <2>2, <2>3 DEF document
<1>5. Email!Flattened(Email!Filled(rows)) \in Seq(Shaped)
  BY <1>2, FlattenedIs
<1>6. Email!Flattened(Email!Filled(kept)) \o Email!Singles(rest) =
          Email!Flattened(Email!Filled(rows))
  <2>1. CASE Email!WritesRows(rows)
    <3>1. Email!Flattened(Email!Filled(kept)) = Email!Flattened(Email!Filled(rows))
              /\ Email!Order(kept) = ids
      BY <1>2, <2>1, ReadAgain
    <3>2. rest = <<>>
      <4> DEFINE K == Email!ToSet(Email!Order(kept))
      <4>1. K = Email!ToSet(ids)
        BY <3>1
      <4> HIDE DEF K
      <4>2. Email!Filter(ids, LAMBDA id : id \notin K) = Spread(Chosen(Nat, Nat \ K), ids)
        BY <1>2, FilterIs
      <4>3. Email!ToSet(ids) \cap (Nat \ K) = {}
        BY <4>1
      <4>4. Spread(Chosen(Nat, Nat \ K), ids) = <<>>
        BY <1>2, <4>3, ChosenIs
      <4> QED
        BY <4>2, <4>4 DEF K
    <3>3. Email!Singles(rest) = <<>>
      <4>1. Email!Singles(<<>>) = <<>>
        BY DEF Email!Singles
      <4> HIDE DEF rest
      <4> QED
        BY <3>2, <4>1
    <3> QED
      BY <1>5, <3>1, <3>3, ConcatEmptySeq
  <2>2. CASE ~Email!WritesRows(rows)
    <3>1. kept = <<>> /\ \A i \in DOMAIN rows : rows[i].layout = "1"
      BY <2>2 DEF Email!WritesRows
    <3>2. Email!Order(<<>>) = <<>> /\ Email!Flattened(Email!Filled(<<>>)) = <<>>
      <4>1. <<>> \in Seq(Shaped)
        OBVIOUS
      <4>2. Spread(idsOf, <<>>) = <<>>
        BY OrderIs, SpreadIs
      <4>3. Spread(readOf, <<>>) = <<>>
        BY FlatIs, SpreadIs
      <4> QED
        BY <4>1, <4>2, <4>3, OrderIs, FlattenedIs
    <3>3. rest = ids
      <4> DEFINE K == Email!ToSet(Email!Order(kept))
      <4>1. K = {}
        BY <3>1, <3>2, HoldsNone
      <4> HIDE DEF K
      <4>2. Email!Filter(ids, LAMBDA id : id \notin K) = Spread(Chosen(Nat, Nat \ K), ids)
        BY <1>2, FilterIs
      <4>3. Email!ToSet(ids) \subseteq Nat \ K
        BY <1>2, <4>1, ToSetIn
      <4>4. Spread(Chosen(Nat, Nat \ K), ids) = ids
        BY <1>2, <4>3, ChosenIs
      <4> QED
        BY <4>2, <4>4 DEF K
    <3>4. Email!Singles(ids) = Email!Flattened(Email!Filled(rows))
      BY <1>2, <3>1, ReadAgain
    <3> QED
      BY <1>5, <3>1, <3>2, <3>3, <3>4, ConcatEmptySeq
  <2> QED
    BY <2>1, <2>2
<1>7. [doc EXCEPT !.rows = Email!Flattened(Email!Filled(@))]
        = [rows |-> Email!Flattened(Email!Filled(rows)), blocks |-> doc.blocks]
  BY <1>1
<1> QED
  BY <1>4, <1>6, <1>7

---------------------------------------------------------------------------
\* A stored document that opens on one that stands.
Opens(document, n) ==
    /\ document.blocks \in Seq(Nat) /\ document.rows \in Seq(Shaped)
    /\ Good(Email!fromDocument(document), n)

LEMMA SavedOpens ==
    ASSUME NEW doc, NEW n \in Nat, Good(doc, n)
    PROVE  Opens(Email!toDocument(doc), n)
<1>1. Sheet(doc.rows, doc.blocks, n) /\ doc = [rows |-> doc.rows, blocks |-> doc.blocks]
  BY GoodIs
<1>2. Email!Order(doc.rows) \in Seq(Nat) /\ Email!Flattened(doc.rows) \in Seq(Shaped)
          /\ <<>> \in Seq(Shaped)
  <2>1. Email!Order(doc.rows) \in Seq(Nat)
    BY <1>1, SheetStands
  <2>2. doc.rows \in Seq(Shaped)
    BY <1>1 DEF Sheet
  <2>3. Email!Flattened(doc.rows) \in Seq(Shaped)
    BY <2>2, FlattenedIs
  <2>4. <<>> \in Seq(Shaped)
    OBVIOUS
  <2> QED
    BY <2>1, <2>3, <2>4
<1>3. Sheet(Email!Flattened(Email!Filled(doc.rows)), doc.blocks, n)
  BY <1>1, SheetReads
<1> DEFINE again == Email!Flattened(Email!Filled(doc.rows))
<1>4. Email!fromDocument(Email!toDocument(doc)) = [rows |-> again, blocks |-> doc.blocks]
  BY <1>1, Reopened
<1> HIDE DEF again
<1>5. Good(Email!fromDocument(Email!toDocument(doc)), n)
  BY <1>3, <1>4, GoodIs DEF again
<1>6. /\ Email!toDocument(doc).blocks = Email!Order(doc.rows)
      /\ Email!toDocument(doc).rows = IF Email!WritesRows(doc.rows) THEN Email!Flattened(doc.rows)
             ELSE <<>>
  BY StoredIs
<1>7. Email!toDocument(doc).blocks \in Seq(Nat) /\ Email!toDocument(doc).rows \in Seq(Shaped)
  BY <1>2, <1>6
<1> QED
  BY <1>5, <1>7 DEF Opens

LEMMA ReadsOnce ==
    ASSUME NEW document, NEW n, Opens(document, n)
    PROVE  Email!Read(Email!Read(document)) = Email!Read(document)
<1> DEFINE doc == Email!fromDocument(document)
           rows == document.rows
           ids == document.blocks
           rest == Email!Filter(ids, LAMBDA id : id \notin Email!ToSet(Email!Order(rows)))
           p == Email!Flattened(Email!Filled(rows))
           q == Email!Singles(rest)
<1>1. ids \in Seq(Nat) /\ rows \in Seq(Shaped) /\ Good(doc, n)
  BY DEF Opens
<1>2. doc.rows = p \o q /\ doc = [rows |-> doc.rows, blocks |-> doc.blocks]
  BY DEF Email!fromDocument, Email!readRows
<1>3. p = Spread(readOf, rows) /\ p \in Seq(Shaped)
  BY <1>1, FlattenedIs
<1>4. rest \in Seq(Nat)
  <2> DEFINE K == Email!ToSet(Email!Order(rows))
  <2> HIDE DEF K
  <2>1. Email!Filter(ids, LAMBDA id : id \notin K) = Spread(Chosen(Nat, Nat \ K), ids)
    BY <1>1, FilterIs
  <2>2. Spread(Chosen(Nat, Nat \ K), ids) \in Seq(Nat)
    BY <1>1, ChosenIs
  <2> QED
    BY <2>1, <2>2 DEF K
<1>5. q \in Seq(Shaped) /\ Spread(readOf, q) = q
  <2> HIDE DEF rest
  <2> QED
    BY <1>4, SinglesAre, SinglesStand
<1>6. Spread(readOf, p) = p
  <2>1. Email!Flattened(Email!Filled(p)) = p
    BY <1>1, ReadAgain
  <2> HIDE DEF p
  <2> QED
    BY <1>3, <2>1, FlattenedIs
<1> HIDE DEF p, q
<1>7. Spread(readOf, p \o q) = p \o q
  <2>1. Spread(readOf, p \o q) = Spread(readOf, p) \o Spread(readOf, q)
    <3>1. Makes(readOf, Shaped, Seq(Shaped))
      BY FlatIs
    <3>2. p \in Seq(Shaped) /\ q \in Seq(Shaped)
      BY <1>3, <1>5
    <3> QED
      BY ONLY <3>1, <3>2, SpreadCat
  <2> QED
    BY <1>5, <1>6, <2>1
<1> HIDE DEF doc
<1>8. Email!Flattened(Email!Filled(doc.rows)) = doc.rows
  <2>1. doc.rows \in Seq(Shaped)
    BY <1>1, GoodIs DEF Sheet
  <2>2. Email!Flattened(Email!Filled(doc.rows)) = Spread(readOf, doc.rows)
    BY <2>1, FlattenedIs
  <2> QED
    BY <1>2, <1>7, <2>2
<1>9. Email!fromDocument(Email!toDocument(doc)) = doc
  <2>1. Email!fromDocument(Email!toDocument(doc)) =
            [doc EXCEPT !.rows = Email!Flattened(Email!Filled(@))]
    BY <1>1, Reopened
  <2>2. [doc EXCEPT !.rows = Email!Flattened(Email!Filled(@))] = doc
    <3>1. [doc EXCEPT !.rows = Email!Flattened(Email!Filled(@))] = [doc EXCEPT !.rows = doc.rows]
      BY <1>8
    <3>2. [doc EXCEPT !.rows = doc.rows] = doc
      BY <1>2
    <3> QED
      BY <3>1, <3>2
  <2> QED
    BY <2>1, <2>2
<1> QED
  BY <1>9 DEF Email!Read, doc

---------------------------------------------------------------------------
\* The platform's design opens on a document that stands.
LEMMA SinglesSheet ==
    ASSUME NEW n, NEW ids \in Seq(Nat), Email!IsInjective(ids),
               Email!ToSet(ids) \subseteq 1..(n - 1)
    PROVE  /\ Sheet(Email!Singles(ids), Email!ToSet(ids), n)
           /\ \A x \in Email!ToSet(Email!Singles(ids)) : \E b \in Email!ToSet(ids) : x =
                  Email!Single(b)
<1> DEFINE t == Email!Singles(ids)
           B == Email!ToSet(ids)
<1>1. t \in Seq(Shaped)
  BY SinglesAre
<1>2. /\ DOMAIN t = DOMAIN ids /\ \A i \in DOMAIN ids : t[i] = Email!Single(ids[i])
  BY DEF Email!Singles
<1>3. \A i \in DOMAIN ids : ids[i] \in Nat /\ ids[i] \in B
  BY LenProperties DEF Email!ToSet
<1>4. \A b \in Nat : /\ Email!Single(b).id = -b /\ Email!Single(b).layout = "1"
                     /\ Email!Single(b).columns = <<<<b>>>> /\ Email!Single(b).columns[1] = <<b>>
                     /\ Holds(Email!Single(b)) = {b} /\ HoldsOnce(Email!Single(b))
  BY SingleIs
<1> HIDE DEF t, B
<1>5. \A x \in Email!ToSet(t) : \E b \in B : x = Email!Single(b)
  BY <1>2, <1>3 DEF Email!ToSet
<1>6. \A b \in B : Email!Single(b) \in Email!ToSet(t)
  BY <1>2 DEF Email!ToSet, B
<1>7. B \subseteq Nat /\ B \subseteq 1..(n - 1)
  BY ToSetIn DEF B
<1>8. ASSUME NEW b \in B PROVE Fits(Email!Single(b), B, n) /\ HoldsOnce(Email!Single(b))
  <2>1. -(-b) = b /\ Len(<<b>>) = 1 /\ b \in Nat /\ b \in 1..(n - 1)
    BY <1>7
  <2>2. /\ Email!Single(b).id = -b /\ Email!Single(b).layout = "1"
        /\ Email!Single(b).columns = <<<<b>>>> /\ Email!Single(b).columns[1] = <<b>>
               /\ HoldsOnce(Email!Single(b))
    BY <1>4, <2>1
  <2> QED
    BY <2>1, <2>2 DEF Fits
<1>9. \A b, c \in B : Email!Single(b) # Email!Single(c) => Email!Single(b).id # Email!Single(c).id
                                         /\ Holds(Email!Single(b)) \cap Holds(Email!Single(c)) = {}
  BY <1>4, <1>7
<1>10. Held(Email!ToSet(t)) = B
  <2>1. ASSUME NEW b \in B PROVE b \in Held(Email!ToSet(t))
    <3>1. Email!Single(b) \in Email!ToSet(t) /\ Holds(Email!Single(b)) = {b}
      BY <1>4, <1>6, <1>7
    <3> QED
      BY <3>1 DEF Held
  <2>2. ASSUME NEW b \in Held(Email!ToSet(t)) PROVE b \in B
    <3>1. PICK x \in Email!ToSet(t) : b \in Holds(x)
      BY DEF Held
    <3>2. PICK c \in B : x = Email!Single(c)
      BY <1>5
    <3>3. Holds(x) = {c}
      BY <1>4, <1>7, <3>2
    <3> QED
      BY <3>1, <3>3
  <2> QED
    BY <2>1, <2>2
<1>11. Whole(Email!ToSet(t), B, n)
  BY <1>5, <1>8, <1>9, <1>10 DEF Whole, Apart
<1>12. Email!IsInjective(t)
  <2>1. \A a, b \in Nat : Email!Single(a) = Email!Single(b) => a = b
    BY <1>4
  <2> QED
    BY <1>2, <1>3, <2>1 DEF Email!IsInjective
<1> QED
  BY <1>1, <1>5, <1>7, <1>11, <1>12 DEF Sheet, t, B

LEMMA SheetCat ==
    ASSUME NEW n, NEW s, NEW B, Sheet(s, B, n), NEW t, NEW C, Sheet(t, C, n), B \cap C = {},
           \A x \in Email!ToSet(s), y \in Email!ToSet(t) : x.id # y.id /\ -x.id \notin C
               /\ -y.id \notin B
    PROVE  Sheet(s \o t, B \cup C, n)
<1>1. s \in Seq(Shaped) /\ Email!IsInjective(s) /\ B \subseteq 1..(n - 1)
          /\ Whole(Email!ToSet(s), B, n)
  BY DEF Sheet
<1>2. t \in Seq(Shaped) /\ Email!IsInjective(t) /\ C \subseteq 1..(n - 1)
          /\ Whole(Email!ToSet(t), C, n)
  BY DEF Sheet
<1>3. s \o t \in Seq(Shaped)
  BY <1>1, <1>2, ConcatProperties
<1>4. /\ Email!ToSet(s \o t) = Email!ToSet(s) \cup Email!ToSet(t)
      /\ Email!IsInjective(s \o t) <=> Email!IsInjective(s) /\ Email!IsInjective(t)
             /\ Email!ToSet(s) \cap Email!ToSet(t) = {}
  BY <1>1, <1>2, HoldsCat
<1> DEFINE R == Email!ToSet(s)
           Q == Email!ToSet(t)
<1>5. R \cap Q = {}
  OBVIOUS
<1>6. Whole(R \cup Q, B \cup C, n)
  <2>1. Held(R \cup Q) = Held(R) \cup Held(Q)
    BY DEF Held
  <2>2. \A x \in R, y \in Q : Holds(x) \cap Holds(y) = {} /\ x.id # y.id
    BY <1>1, <1>2 DEF Whole, Held
  <2>3. Apart(R \cup Q)
    BY <1>1, <1>2, <2>2 DEF Whole, Apart
  <2>4. CASE R = {} \/ Q = {}
    <3>1. R = {} => B = {}
      BY <1>1 DEF Whole, Held
    <3>2. Q = {} => C = {}
      BY <1>2 DEF Whole, Held
    <3>3. \A r \in R \cup Q : Fits(r, B \cup C, n) /\ HoldsOnce(r)
      <4>1. CASE R = {}
        BY <1>2, <3>1, <4>1 DEF Whole
      <4>2. CASE Q = {}
        BY <1>1, <3>2, <4>2 DEF Whole
      <4> QED
        BY <2>4, <4>1, <4>2
    <3> QED
      BY <1>1, <1>2, <2>1, <2>3, <3>3 DEF Whole
  <2>5. CASE R # {} /\ Q # {}
    <3>1. \A r \in R : Fits(r, B \cup C, n) /\ HoldsOnce(r)
      BY <1>1, <2>5 DEF Whole, Fits
    <3>2. \A r \in Q : Fits(r, B \cup C, n) /\ HoldsOnce(r)
      BY <1>2, <2>5 DEF Whole, Fits
    <3> QED
      BY <1>1, <1>2, <2>1, <2>3, <3>1, <3>2 DEF Whole
  <2> QED
    BY <2>4, <2>5
<1> QED
  BY <1>1, <1>2, <1>3, <1>4, <1>5, <1>6 DEF Sheet

LEMMA WrittenOpens ==
    ASSUME NEW document, Email!Written(document)
    PROVE  Opens(document, Len(document.blocks) + Len(document.rows) + 1)
<1> DEFINE ids == document.blocks
           rows == document.rows
           n == Len(ids) + Len(rows) + 1
           A == Email!ToSet(ids)
           B == Email!ToSet(Email!Order(rows))
           s == Email!Flattened(Email!Filled(rows))
           rest == Email!Filter(ids, LAMBDA id : id \notin B)
<1>1. /\ ids \in Seq(Nat) /\ rows \in Seq(Email!Row) /\ B \subseteq A
      /\ Email!IsInjective(ids) /\ Email!IsInjective(Email!Order(rows))
      /\ Email!IsInjective([i \in DOMAIN rows |-> rows[i].id])
      /\ A \cup {-rows[i].id : i \in DOMAIN rows} \subseteq 1..(Len(ids) + Len(rows))
      /\ \A i \in DOMAIN rows : \/ \E id \in A : rows[i] = Email!Single(id)
                                \/ /\ rows[i].layout # "1" /\ -rows[i].id \notin A
                                   /\ Len(rows[i].columns) = Email!Columns[rows[i].layout]
  BY DEF Email!Written
<1>2. /\ n \in Nat /\ n - 1 = Len(ids) + Len(rows) /\ A \subseteq 1..(n - 1) /\ A \subseteq Nat
      /\ \A i \in DOMAIN rows : -rows[i].id \in 1..(n - 1)
  <2>1. Len(ids) \in Nat /\ Len(rows) \in Nat
    BY <1>1, LenProperties
  <2> DEFINE k == Len(ids)
             m == Len(rows)
  <2>2. k \in Nat /\ m \in Nat
    BY <2>1
  <2>3. n = k + m + 1
    OBVIOUS
  <2> HIDE DEF n, k, m
  <2>4. n \in Nat /\ n - 1 = k + m
    BY <2>2, <2>3
  <2> USE DEF k, m
  <2>5. A \subseteq 1..(n - 1) /\ \A i \in DOMAIN rows : -rows[i].id \in 1..(n - 1)
    BY <1>1, <2>4
  <2>6. A \subseteq Nat
    BY <1>1, ToSetIn
  <2> QED
    BY <2>4, <2>5, <2>6
<1> HIDE DEF ids, rows, n
<1>3. \A i \in DOMAIN rows : rows[i] \in Email!Row
  BY <1>1, LenProperties
<1>4. ASSUME NEW i \in DOMAIN rows PROVE rows[i] \in Shaped
  BY <1>1, <1>2, <1>3, SingleIs DEF Shaped
<1>5. rows \in Seq(Shaped)
  <2>1. Len(rows) \in Nat /\ rows = [i \in 1..Len(rows) |-> rows[i]] /\ DOMAIN rows = 1..Len(rows)
    BY <1>1, LenProperties
  <2> DEFINE m == Len(rows)
  <2>2. rows \in [1..m -> Shaped] /\ m \in Nat
    BY <1>4, <2>1
  <2> HIDE DEF m
  <2> QED
    BY <2>2
<1>6. /\ B = Held(Email!ToSet(rows)) /\ \A i \in DOMAIN rows : HoldsOnce(rows[i])
      /\ \A i, k \in DOMAIN rows : i # k => Holds(rows[i]) \cap Holds(rows[k]) = {}
  BY <1>1, <1>5, OrderHolds
<1>7. ASSUME NEW i \in DOMAIN rows, NEW k \in DOMAIN rows, i # k PROVE rows[i].id # rows[k].id
  BY <1>1, <1>7 DEF Email!IsInjective
<1> HIDE DEF A, B
<1>8. ASSUME NEW i \in DOMAIN rows PROVE Fits(rows[i], B, n)
  <2>1. CASE rows[i].layout # "1" /\ -rows[i].id \notin A
    BY <1>1, <1>2, <2>1 DEF Fits
  <2>2. CASE \E id \in A : rows[i] = Email!Single(id)
    <3>1. PICK id \in A : rows[i] = Email!Single(id)
      BY <2>2
    <3>2. /\ Email!Single(id).id = -id /\ Email!Single(id).columns = <<<<id>>>>
          /\ Email!Single(id).columns[1] = <<id>>
          /\ id \in Nat
      BY <1>2, SingleIs
    <3>3. -(-id) = id /\ Len(<<id>>) = 1
      BY <3>2
    <3> QED
      BY <1>2, <3>1, <3>2, <3>3 DEF Fits
  <2> QED
    BY <1>1, <2>1, <2>2
<1>9. Sheet(rows, B, n)
  <2>1. Email!IsInjective(rows)
    BY <1>7 DEF Email!IsInjective
  <2>2. Apart(Email!ToSet(rows))
    BY <1>6, <1>7 DEF Apart, Email!ToSet
  <2>3. Whole(Email!ToSet(rows), B, n)
    BY <1>6, <1>8, <2>2 DEF Whole, Email!ToSet
  <2> QED
    BY <1>1, <1>2, <1>5, <2>1, <2>3 DEF Sheet
<1>10. /\ Sheet(s, B, n)
       /\ \A x \in Email!ToSet(s) : (x \in Email!ToSet(rows) /\ x.layout # "1")
              \/ \E b \in B : x = Email!Single(b)
  BY <1>9, SheetReads
<1>11. rest \in Seq(Nat) /\ Email!IsInjective(rest) /\ Email!ToSet(rest) = A \ B
  <2>1. rest = Spread(Chosen(Nat, Nat \ B), ids)
    BY <1>1, FilterIs
  <2>2. /\ Spread(Chosen(Nat, Nat \ B), ids) \in Seq(Nat)
        /\ Email!ToSet(Spread(Chosen(Nat, Nat \ B), ids)) = Email!ToSet(ids) \cap (Nat \ B)
        /\ Email!IsInjective(Spread(Chosen(Nat, Nat \ B), ids))
    BY <1>1, ChosenIs
  <2> QED
    BY <1>2, <2>1, <2>2 DEF A
<1> HIDE DEF rest
<1>12. /\ Sheet(Email!Singles(rest), A \ B, n)
       /\ \A y \in Email!ToSet(Email!Singles(rest)) : \E b \in A \ B : y = Email!Single(b)
  <2>1. Email!ToSet(rest) \subseteq 1..(n - 1)
    BY <1>2, <1>11
  <2>2. /\ Sheet(Email!Singles(rest), Email!ToSet(rest), n)
        /\ \A x \in Email!ToSet(Email!Singles(rest)) : \E b \in Email!ToSet(rest) : x =
               Email!Single(b)
    BY <1>11, <2>1, SinglesSheet
  <2> QED
    BY <1>11, <2>2
<1>13. ASSUME NEW x \in Email!ToSet(s), NEW y \in Email!ToSet(Email!Singles(rest))
       PROVE  x.id # y.id /\ -x.id \notin A \ B /\ -y.id \notin B
  <2>1. PICK c \in A \ B : y = Email!Single(c)
    BY <1>12
  <2>2. c \in Nat /\ y.id = -c /\ -y.id = c
    BY <1>2, <2>1, SingleIs
  <2>3. -x.id \notin A \ B /\ x.id \in Int
    <3>1. CASE x \in Email!ToSet(rows) /\ x.layout # "1"
      <4>1. PICK i \in DOMAIN rows : x = rows[i]
        BY <3>1 DEF Email!ToSet
      <4>2. ~\E id \in A : rows[i] = Email!Single(id)
        BY <1>2, <3>1, <4>1, SingleIs
      <4> QED
        BY <1>1, <1>4, <4>1, <4>2, ShapedIs
    <3>2. CASE \E b \in B : x = Email!Single(b)
      <4>1. PICK b \in B : x = Email!Single(b)
        BY <3>2
      <4>2. b \in Nat
        BY <1>1, <1>2
      <4>3. x.id = -b
        BY <4>1, <4>2, SingleIs
      <4>4. -x.id = b /\ x.id \in Int
        BY <4>2, <4>3
      <4> QED
        BY <4>1, <4>4
    <3> QED
      BY <1>10, <3>1, <3>2
  <2> QED
    BY <2>1, <2>2, <2>3
<1> HIDE DEF s
<1>14. Sheet(s \o Email!Singles(rest), B \cup (A \ B), n)
  <2>1. B \cap (A \ B) = {}
    OBVIOUS
  <2> QED
    BY <1>10, <1>12, <1>13, <2>1, SheetCat
<1>15. B \cup (A \ B) = A
  BY <1>1 DEF A, B
<1>16. Email!fromDocument(document) = [rows |-> s \o Email!Singles(rest), blocks |-> A]
  BY DEF Email!fromDocument, Email!readRows, s, rest, ids, rows, A, B
<1>17. Good(Email!fromDocument(document), n)
  <2> DEFINE all == s \o Email!Singles(rest)
  <2>1. Sheet(all, A, n)
    BY <1>14, <1>15
  <2>2. Email!fromDocument(document) = [rows |-> all, blocks |-> A]
    BY <1>16
  <2> HIDE DEF all
  <2>3. Good([rows |-> all, blocks |-> A], n)
    BY <1>2, <2>1, GoodIs
  <2> QED
    BY <2>2, <2>3
<1> QED
  BY <1>1, <1>5, <1>17 DEF Opens, ids, rows, n
---------------------------------------------------------------------------
(***************************************************************************)
(* The steps of the page.                                                  *)
(***************************************************************************)
\* What every step keeps: each document that undo and redo bring back stands,
\* and so does the one on screen; each stored document opens on one that does.
HistoryStands ==
    /\ past \in Seq(Standing(fresh)) /\ future \in Seq(Standing(fresh))
    /\ Good(present, fresh) /\ Len(past) + Len(future) <= HistoryLimit

StoredStand ==
    /\ Opens(Platform, fresh) /\ Opens(server, fresh)
    /\ posted = <<>> \/ \E document : posted = <<document>> /\ Opens(document, fresh)

ArmedStands == armed # <<>> /\ armed.kind = "layout" => armed.layout \in DOMAIN Email!Columns

RowStands == own \in 0..MaxPosts /\ known \in 0..MaxPosts /\ unheard \in BOOLEAN

CountsStand ==
    /\ fresh \in Nat \ {0} /\ RowStands
    /\ commits \in 0..MaxCommits /\ posts \in 0..MaxPosts

EmailInv == HistoryStands /\ StoredStand /\ ArmedStands /\ CountsStand

LEMMA StandingLater ==
    ASSUME NEW n \in Nat, NEW m \in Nat, n <= m
    PROVE  Standing(n) \subseteq Standing(m)
<1> SUFFICES ASSUME NEW doc \in Standing(n) PROVE doc \in Standing(m)
  OBVIOUS
<1>1. doc.rows \in Seq(Shaped) /\ Sheet(doc.rows, doc.blocks, n)
  BY DEF Standing
<1>2. Sheet(doc.rows, doc.blocks, m)
  BY <1>1, FitsLater
<1> QED
  BY <1>2 DEF Standing

LEMMA OpensLater ==
    ASSUME NEW n \in Nat, NEW m \in Nat, n <= m, NEW document, Opens(document, n)
    PROVE  Opens(document, m)
<1> DEFINE doc == Email!fromDocument(document)
<1>1. doc \in Standing(n)
  BY DEF Opens, Good
<1> HIDE DEF doc
<1>2. doc \in Standing(m)
  BY <1>1, StandingLater
<1> QED
  BY <1>2 DEF Opens, Good, doc

LEMMA SeqLater ==
    ASSUME NEW S, NEW T, S \subseteq T, NEW s \in Seq(S)
    PROVE  s \in Seq(T)
<1> DEFINE m == Len(s)
<1>1. m \in Nat /\ s = [i \in 1..m |-> s[i]] /\ \A i \in 1..m : s[i] \in S
  BY LenProperties
<1> HIDE DEF m
<1>2. s \in [1..m -> T]
  BY <1>1
<1> QED
  BY <1>1, <1>2

LEMMA Remembers ==
    ASSUME NEW S, NEW s \in Seq(S), NEW n \in Nat \ {0}, s # <<>>
    PROVE  LET k == Email!Clamp(n, Len(s))
           IN  /\ SubSeq(s, Len(s) - k + 1, Len(s)) \in Seq(S)
               /\ Len(SubSeq(s, Len(s) - k + 1, Len(s))) <= n
<1> DEFINE m == Len(s)
           k == Email!Clamp(n, m)
           a == m - k + 1
<1>1. m \in Nat
  BY LenProperties
<1>2. k \in 1..n /\ k <= m
  <2>1. m # 0
    BY EmptySeq
  <2> HIDE DEF m
  <2> QED
    BY <1>1, <2>1 DEF Email!Clamp
<1>3. a \in 1..(m + 1) /\ m \in 0..m
  <2> HIDE DEF m, k
  <2> QED
    BY <1>1, <1>2
<1>4. SubSeq(s, a, m) \in Seq(S) /\ Len(SubSeq(s, a, m)) = IF a <= m THEN m - a + 1 ELSE 0
  <2>1. a \in 1..(Len(s) + 1) /\ m \in (a - 1)..Len(s)
    <3> HIDE DEF k
    <3>1. k \in Nat /\ a - 1 = m - k
      BY <1>1, <1>2
    <3>2. m - k <= m /\ m <= m
      BY <1>1, <3>1
    <3> QED
      BY <1>1, <1>3, <3>1, <3>2
  <2> QED
    BY <2>1, SubSeqProperties
<1>5. (IF a <= m THEN m - a + 1 ELSE 0) <= n
  <2> HIDE DEF m, k
  <2> QED
    BY <1>1, <1>2
<1> QED
  BY <1>4, <1>5

\* A step that leaves what is stored alone, and takes no id back.
LEMMA StoredLater ==
    ASSUME StoredStand, CountsStand, Email!Screen, fresh' \in Nat, fresh <= fresh'
    PROVE  StoredStand'
<1>1. fresh \in Nat /\ server' = server /\ posted' = posted
  BY DEF CountsStand, Email!Screen, Email!row
<1>2. \A document : Opens(document, fresh) => Opens(document, fresh')
  BY <1>1, OpensLater
<1> QED
  BY <1>1, <1>2 DEF StoredStand

LEMMA CommitStands ==
    ASSUME Email!EmailAssumption, EmailInv, NEW next, Email!commit(next), Email!Screen,
           fresh' \in Nat, fresh <= fresh', Good(next, fresh'), armed' \in {armed, <<>>}
    PROVE  EmailInv'
<1>1. fresh \in Nat \ {0} /\ HistoryLimit \in Nat \ {0} /\ MaxCommits \in Nat
  BY DEF EmailInv, CountsStand, Email!EmailAssumption
<1> DEFINE S == Standing(fresh')
           s == Append(past, present)
<1>2. s \in Seq(S) /\ s # <<>>
  <2>1. past \in Seq(Standing(fresh)) /\ present \in Standing(fresh)
    BY DEF EmailInv, HistoryStands, Good
  <2>2. s \in Seq(Standing(fresh)) /\ s # <<>>
    BY <2>1, AppendProperties
  <2>3. Standing(fresh) \subseteq S
    BY <1>1, StandingLater
  <2> HIDE DEF s, S
  <2> QED
    BY <2>2, <2>3, SeqLater
<1> HIDE DEF s, S
<1>3. past' \in Seq(S) /\ Len(past') <= HistoryLimit
  <2>1. past' = SubSeq(s, Len(s) - Email!Clamp(HistoryLimit, Len(s)) + 1, Len(s))
    BY DEF Email!commit, s
  <2> QED
    BY <1>1, <1>2, <2>1, Remembers
<1>4. HistoryStands'
  <2>1. present' = next /\ future' = <<>>
    BY DEF Email!commit
  <2>2. <<>> \in Seq(S) /\ Len(<<>>) = 0 /\ Len(past') \in Nat
    BY <1>3, LenProperties
  <2>3. Len(past') + Len(future') <= HistoryLimit
    BY <1>1, <1>3, <2>1, <2>2
  <2> QED
    BY <1>3, <2>1, <2>2, <2>3 DEF HistoryStands, S
<1>5. StoredStand'
  BY StoredLater DEF EmailInv
<1>6. ArmedStands'
  BY DEF EmailInv, ArmedStands
<1>7. CountsStand'
  <2>1. commits \in 0..MaxCommits /\ commits < MaxCommits /\ commits' = commits + 1
    BY DEF EmailInv, CountsStand, Email!commit
  <2>2. RowStands' /\ posts' = posts
    BY DEF EmailInv, CountsStand, RowStands, Email!Screen, Email!row
  <2>3. commits' \in 0..MaxCommits /\ fresh' \in Nat \ {0}
    BY <1>1, <2>1
  <2> QED
    BY <2>2, <2>3 DEF EmailInv, CountsStand
<1> QED
  BY <1>4, <1>5, <1>6, <1>7 DEF EmailInv

\* A step that leaves the documents where they are.
LEMMA RestStands ==
    ASSUME EmailInv, UNCHANGED <<Email!history, fresh, commits>>, StoredStand', ArmedStands',
           RowStands', posts' \in 0..MaxPosts
    PROVE  EmailInv'
<1>1. HistoryStands'
  BY DEF EmailInv, HistoryStands, Email!history, Good
<1>2. CountsStand'
  BY DEF EmailInv, CountsStand
<1> QED
  BY <1>1, <1>2 DEF EmailInv

LEMMA ScreenStands ==
    ASSUME EmailInv, UNCHANGED <<Email!history, fresh, commits>>, Email!Screen, ArmedStands'
    PROVE  EmailInv'
<1>1. StoredStand'
  <2>1. fresh' \in Nat /\ fresh <= fresh'
    BY DEF EmailInv, CountsStand
  <2> QED
    BY <2>1, StoredLater DEF EmailInv
<1>2. RowStands' /\ posts' \in 0..MaxPosts
  BY DEF EmailInv, CountsStand, RowStands, Email!Screen, Email!row
<1> QED
  BY <1>1, <1>2, RestStands

LEMMA ArmStands == ASSUME Email!EmailAssumption, EmailInv, Email!Arms \/ Email!Disarm
    PROVE EmailInv'
<1>1. ASSUME NEW thing, Email!Arm(thing), thing.kind = "layout" =>
                 thing.layout \in DOMAIN Email!Columns
      PROVE  EmailInv'
  <2>1. ArmedStands'
    BY <1>1 DEF Email!Arm, ArmedStands
  <2> QED
    BY <1>1, <2>1, ScreenStands DEF Email!Arm
<1>2. CASE Email!Disarm
  <2>1. ArmedStands'
    BY <1>2 DEF Email!Disarm, ArmedStands
  <2> QED
    BY <1>2, <2>1, ScreenStands DEF Email!Disarm
<1>3. CASE Email!Arm([kind |-> "block"])
  <2>1. [kind |-> "block"].kind # "layout"
    OBVIOUS
  <2> QED
    BY <1>1, <1>3, <2>1
<1>4. ASSUME NEW l \in Layouts, Email!Arm([kind |-> "layout", layout |-> l]) PROVE EmailInv'
  <2>1. [kind |-> "layout", layout |-> l].layout \in DOMAIN Email!Columns
    BY DEF Email!EmailAssumption
  <2> QED
    BY <1>1, <1>4, <2>1
<1>5. ASSUME NEW id, Email!Arm([kind |-> "move", id |-> id]) PROVE EmailInv'
  <2>1. [kind |-> "move", id |-> id].kind # "layout"
    OBVIOUS
  <2> QED
    BY <1>1, <1>5, <2>1
<1> QED
  BY <1>2, <1>3, <1>4, <1>5 DEF Email!Arms

LEMMA PlaceStands ==
    ASSUME Email!EmailAssumption, EmailInv, NEW at \in Email!Slots, Email!placeAt(at)
    PROVE  EmailInv'
<1>1. fresh \in Nat \ {0} /\ fresh + 1 \in Nat /\ fresh <= fresh + 1 /\ Good(present, fresh)
  BY DEF EmailInv, CountsStand, HistoryStands
<1>2. armed' = <<>> /\ Email!Screen /\ armed # <<>>
  BY DEF Email!placeAt
<1>3. CASE Email!PlaceBlock(at)
  <2>1. Good([rows |-> Email!insertBlockId(present.rows, fresh, at),
              blocks |-> present.blocks \cup {fresh}], fresh + 1)
    BY <1>1, Placed
  <2> DEFINE next == [rows |-> Email!insertBlockId(present.rows, fresh, at),
                      blocks |-> present.blocks \cup {fresh}]
  <2>2. Email!commit(next) /\ fresh' = fresh + 1
    BY <1>3 DEF Email!PlaceBlock
  <2> HIDE DEF next
  <2> QED
    BY <1>1, <1>2, <2>1, <2>2, CommitStands DEF next
<1>4. CASE Email!PlaceLayout(at)
  <2>1. at.index \in Nat /\ armed.layout \in DOMAIN Email!Columns
    <3>1. at.index \in Nat
      BY <1>1, SlotIs DEF Email!Between
    <3>2. armed.layout \in DOMAIN Email!Columns
      BY <1>2, <1>4 DEF Email!PlaceLayout, EmailInv, ArmedStands
    <3> QED
      BY <3>1, <3>2
  <2> DEFINE next == [present EXCEPT !.rows =
          Email!PutAt(@, at.index, Email!emptyRow(armed.layout))]
  <2>2. Good(next, fresh + 1)
    BY <1>1, <2>1, LaidOut
  <2>3. Email!commit(next) /\ fresh' = fresh + 1
    BY <1>4 DEF Email!PlaceLayout
  <2> HIDE DEF next
  <2> QED
    BY <1>1, <1>2, <2>2, <2>3, CommitStands
<1>5. CASE Email!PlaceMoved(at)
  <2>1. fresh' = fresh /\ armed.kind = "move"
    BY <1>5 DEF Email!PlaceMoved
  <2>2. CASE Email!RowOf(present, armed.id) = {} /\ Email!SpotOf(present, armed.id) = {}
    <3>1. UNCHANGED <<Email!history, commits>>
      BY <1>5, <2>2 DEF Email!PlaceMoved
    <3>2. ArmedStands'
      BY <1>2 DEF ArmedStands
    <3> QED
      BY <1>2, <2>1, <3>1, <3>2, ScreenStands
  <2>3. CASE ~(Email!RowOf(present, armed.id) = {} /\ Email!SpotOf(present, armed.id) = {})
    <3> DEFINE next == [present EXCEPT !.rows = Email!MoveTo(present, armed.id, at)]
    <3>1. Good(next, fresh)
      BY <1>1, <2>1, <2>3, Moved
    <3>2. Email!commit(next)
      BY <1>5, <2>3 DEF Email!PlaceMoved
    <3> HIDE DEF next
    <3> QED
      BY <1>1, <1>2, <2>1, <3>1, <3>2, CommitStands
  <2> QED
    BY <2>2, <2>3
<1> QED
  BY <1>3, <1>4, <1>5 DEF Email!placeAt

LEMMA StepStands ==
    ASSUME Email!EmailAssumption, EmailInv, NEW bar \in Email!Bars, NEW i, NEW delta,
               Email!moveStep(bar, i, delta)
    PROVE  EmailInv'
<1>1. fresh \in Nat \ {0} /\ fresh <= fresh /\ Good(present, fresh)
  BY DEF EmailInv, CountsStand, HistoryStands
<1>2. armed' = armed /\ fresh' = fresh /\ Email!Screen /\ i \in DOMAIN bar
  BY DEF Email!moveStep
<1> DEFINE id == bar[i]
<1>3. id \in Email!Handles
  BY <1>2 DEF Email!Handles, Email!ToSet
<1>4. CASE Email!RowOf(present, id) # {}
  <2> DEFINE r == Email!The(Email!RowOf(present, id))
             next == [present EXCEPT !.rows = Email!Swap(@, r, r + delta)]
  <2>1. r + delta \in DOMAIN present.rows /\ Email!commit(next)
    BY <1>4 DEF Email!moveStep
  <2>2. Good(next, fresh)
    BY <1>1, <1>3, <1>4, <2>1, Stepped
  <2> HIDE DEF next
  <2> QED
    BY <1>1, <1>2, <2>1, <2>2, CommitStands
<1>5. CASE Email!RowOf(present, id) = {}
  <2> DEFINE s == Email!The(Email!SpotOf(present, id))
             next == [present EXCEPT !.rows[s[1]].columns[s[2]] = Email!Swap(@, s[3], s[3] + delta)]
  <2>1. s[3] + delta \in DOMAIN present.rows[s[1]].columns[s[2]] /\ Email!commit(next)
    BY <1>5 DEF Email!moveStep
  <2>2. Good(next, fresh)
    BY <1>1, <1>3, <1>5, <2>1, Stepped
  <2> HIDE DEF next
  <2> QED
    BY <1>1, <1>2, <2>1, <2>2, CommitStands
<1> QED
  BY <1>4, <1>5

LEMMA DuplicateStands ==
    ASSUME Email!EmailAssumption, EmailInv, NEW id \in Email!Handles, Email!duplicate(id)
    PROVE  EmailInv'
<1>1. /\ fresh \in Nat \ {0} /\ fresh + fresh \in Nat /\ fresh <= fresh + fresh
      /\ Good(present, fresh)
  BY DEF EmailInv, CountsStand, HistoryStands
<1>2. armed' = armed /\ fresh' = fresh + fresh /\ Email!Screen
  BY DEF Email!duplicate
<1>3. CASE Email!RowOf(present, id) # {}
  <2> DEFINE r == Email!The(Email!RowOf(present, id))
             copy == Email!Copied(present.rows[r])
             next == [rows |-> Email!InsertAt(present.rows, r + 1, copy),
                      blocks |-> present.blocks \cup Email!ToSet(Email!Ids(copy))]
  <2>1. Email!commit(next)
    BY <1>3 DEF Email!duplicate
  <2>2. Good(next, fresh + fresh)
    BY <1>1, <1>3, Copies
  <2> HIDE DEF next
  <2> QED
    BY <1>1, <1>2, <2>1, <2>2, CommitStands
<1>4. CASE Email!RowOf(present, id) = {}
  <2> DEFINE s == Email!The(Email!SpotOf(present, id))
             next == [rows |-> [present.rows EXCEPT ![s[1]].columns[s[2]] =
                                   Email!InsertAt(@, s[3] + 1, Email!CopyOf(id))],
                      blocks |-> present.blocks \cup {Email!CopyOf(id)}]
  <2>1. Email!commit(next)
    BY <1>4 DEF Email!duplicate
  <2>2. Good(next, fresh + fresh)
    BY <1>1, <1>4, Copies
  <2> HIDE DEF next
  <2> QED
    BY <1>1, <1>2, <2>1, <2>2, CommitStands
<1> QED
  BY <1>3, <1>4

LEMMA RemoveStands ==
    ASSUME Email!EmailAssumption, EmailInv, NEW id \in Email!Handles, Email!remove(id)
    PROVE  EmailInv'
<1>1. fresh \in Nat \ {0} /\ fresh <= fresh /\ Good(present, fresh)
  BY DEF EmailInv, CountsStand, HistoryStands
<1>2. armed' = armed /\ fresh' = fresh /\ Email!Screen
  BY DEF Email!remove
<1>3. CASE Email!RowOf(present, id) # {}
  <2> DEFINE r == Email!The(Email!RowOf(present, id))
             next == [rows |-> Email!RemoveAt(present.rows, r),
                      blocks |-> present.blocks \ Email!ToSet(Email!Ids(present.rows[r]))]
  <2>1. Email!commit(next)
    BY <1>3 DEF Email!remove
  <2>2. Good(next, fresh)
    BY <1>1, <1>3, Removed
  <2> HIDE DEF next
  <2> QED
    BY <1>1, <1>2, <2>1, <2>2, CommitStands
<1>4. CASE Email!RowOf(present, id) = {}
  <2> DEFINE s == Email!The(Email!SpotOf(present, id))
             next == [rows |-> Email!tidy([present.rows EXCEPT ![s[1]].columns[s[2]] =
                                        Email!RemoveAt(@, s[3])]),
                      blocks |-> present.blocks \ {id}]
  <2>1. Email!commit(next)
    BY <1>4 DEF Email!remove
  <2>2. Good(next, fresh)
    BY <1>1, <1>4, Removed
  <2> HIDE DEF next
  <2> QED
    BY <1>1, <1>2, <2>1, <2>2, CommitStands
<1> QED
  BY <1>3, <1>4

LEMMA UndoStands == ASSUME EmailInv, Email!undo \/ Email!redo PROVE EmailInv'
<1> DEFINE S == Standing(fresh)
<1>1. /\ past \in Seq(S) /\ future \in Seq(S) /\ present \in S
      /\ Len(past) + Len(future) <= HistoryLimit
  BY DEF EmailInv, HistoryStands, Good
<1>2. fresh' = fresh /\ armed' = armed /\ commits' = commits /\ Email!Screen
  BY DEF Email!undo, Email!redo
<1>3. /\ past' \in Seq(S) /\ future' \in Seq(S) /\ present' \in S
      /\ Len(past') + Len(future') = Len(past) + Len(future)
  <2> HIDE DEF S
  <2>1. Len(past) \in Nat /\ Len(future) \in Nat
    BY <1>1, LenProperties
  <2>2. CASE Email!undo
    <3>1. /\ past # <<>> /\ past' = SubSeq(past, 1, Len(past) - 1) /\ present' = past[Len(past)]
          /\ future' = <<present>> \o future
      BY <2>2 DEF Email!undo, Email!Front, Email!Last
    <3>2. Len(past) # 0 /\ \A i \in 1..Len(past) : past[i] \in S
      BY <1>1, <3>1, EmptySeq, LenProperties
    <3> DEFINE m == Len(past)
    <3>3. m \in 1..m /\ m - 1 \in Nat /\ \A i \in 1..(m - 1) : past[i] \in S
      <4>1. m \in Nat \ {0}
        BY <2>1, <3>2
      <4>2. \A i \in 1..m : past[i] \in S
        BY <3>2
      <4> HIDE DEF m
      <4> QED
        BY <4>1, <4>2
    <3>4. past' \in Seq(S) /\ Len(past') = m - 1
      <4>1. /\ SubSeq(past, 1, m - 1) \in Seq(S)
            /\ Len(SubSeq(past, 1, m - 1)) = IF 1 <= m - 1 THEN m - 1 - 1 + 1 ELSE 0
        <5> HIDE DEF m
        <5>1. 1 \in Int /\ m - 1 \in Int
          BY <3>3
        <5> QED
          BY <3>3, <5>1, SubSeqProperties
      <4>2. (IF 1 <= m - 1 THEN m - 1 - 1 + 1 ELSE 0) = m - 1
        <5> HIDE DEF m
        <5> QED
          BY <3>3
      <4> QED
        BY <3>1, <4>1, <4>2
    <3>5. <<present>> \o future \in Seq(S) /\ Len(<<present>> \o future) = 1 + Len(future)
      <4>1. <<present>> \in Seq(S) /\ Len(<<present>>) = 1
        BY <1>1
      <4> QED
        BY <1>1, <4>1, ConcatProperties
    <3>6. past[m] \in S
      BY <3>2, <3>3
    <3>7. Len(past') + Len(future') = Len(past) + Len(future)
      <4>1. Len(past') = m - 1 /\ Len(future') = 1 + Len(future) /\ m \in Nat /\ Len(future) \in Nat
        BY <2>1, <3>1, <3>4, <3>5
      <4> DEFINE k == Len(future)
      <4>2. Len(past') = m - 1 /\ Len(future') = 1 + k /\ m \in Nat /\ k \in Nat
        BY <4>1
      <4>3. m = Len(past) /\ k = Len(future)
        OBVIOUS
      <4> HIDE DEF m, k
      <4> QED
        BY <4>2, <4>3
    <3> QED
      BY <3>1, <3>4, <3>5, <3>6, <3>7
  <2>3. CASE Email!redo
    <3>1. /\ future # <<>> /\ past' = Append(past, present)
          /\ present' = Head(future) /\ future' = Tail(future)
      BY <2>3 DEF Email!redo
    <3>2. Head(future) \in S /\ Tail(future) \in Seq(S) /\ Len(Tail(future)) = Len(future) - 1
      BY <1>1, <3>1, HeadTailProperties
    <3>3. Append(past, present) \in Seq(S) /\ Len(Append(past, present)) = Len(past) + 1
      BY <1>1, AppendProperties
    <3> QED
      BY <2>1, <3>1, <3>2, <3>3
  <2> QED
    BY <2>2, <2>3
<1>4. HistoryStands'
  BY <1>1, <1>2, <1>3 DEF HistoryStands, Good
<1>5. StoredStand'
  <2>1. fresh' \in Nat /\ fresh <= fresh'
    BY <1>2 DEF EmailInv, CountsStand
  <2> QED
    BY <1>2, <2>1, StoredLater DEF EmailInv
<1>6. ArmedStands' /\ CountsStand'
  BY <1>2 DEF EmailInv, ArmedStands, CountsStand, RowStands, Email!Screen, Email!row
<1> QED
  BY <1>4, <1>5, <1>6 DEF EmailInv

\* A page that opens anew on a stored document.
LEMMA OpenedStands ==
    ASSUME Email!EmailAssumption, EmailInv, NEW document, Opens(document, fresh),
               Email!Opened(document),
           server' = document, UNCHANGED <<fresh, commits, posts>>, own' \in 0..MaxPosts
    PROVE  EmailInv'
<1> DEFINE S == Standing(fresh)
<1>1. /\ past' = <<>> /\ future' = <<>> /\ present' = Email!fromDocument(document)
      /\ armed' = <<>> /\ posted' = <<>> /\ known' = own' /\ unheard' = FALSE /\ fresh' = fresh
  BY DEF Email!Opened
<1>2. HistoryStands'
  <2>1. <<>> \in Seq(S) /\ Len(<<>>) + Len(<<>>) = 0 /\ 0 <= HistoryLimit
    <3> HIDE DEF S
    <3> QED
      BY DEF Email!EmailAssumption
  <2>2. Good(present', fresh)
    BY <1>1 DEF Opens
  <2> QED
    BY <1>1, <2>1, <2>2 DEF HistoryStands
<1>3. StoredStand'
  BY <1>1 DEF EmailInv, StoredStand
<1>4. ArmedStands' /\ CountsStand'
  BY <1>1 DEF EmailInv, ArmedStands, CountsStand, RowStands
<1> QED
  BY <1>2, <1>3, <1>4 DEF EmailInv

\* The row that is written: what was posted opens again, under an id of its own
\* or the one that was there.
LEMMA WrittenStands ==
    ASSUME Email!EmailAssumption, EmailInv, Email!Writes
    PROVE  /\ Opens(posted[1], fresh) /\ server' = posted[1] /\ own' \in 0..MaxPosts
           /\ UNCHANGED <<fresh, commits, posts>>
<1>1. Opens(posted[1], fresh)
  BY DEF Email!Writes, Email!saving, EmailInv, StoredStand
<1>2. own' \in 0..MaxPosts
  BY DEF Email!Writes, EmailInv, CountsStand, RowStands
<1> QED
  BY <1>1, <1>2 DEF Email!Writes

LEMMA SaveStands ==
    ASSUME Email!EmailAssumption, EmailInv, Email!save \/ Email!SaveLands \/ Email!SaveUnheard
               \/ Email!SaveRefused
    PROVE  EmailInv'
<1>1. CASE Email!save
  <2>1. Opens(Email!toDocument(present), fresh)
    BY SavedOpens DEF EmailInv, HistoryStands, CountsStand
  <2>2. /\ posted' = <<Email!toDocument(present)>> /\ UNCHANGED Email!row
        /\ fresh' = fresh /\ armed' = armed /\ posts' = posts + 1 /\ posts < MaxPosts
    BY <1>1 DEF Email!save, Email!json
  <2> DEFINE document == Email!toDocument(present)
  <2> HIDE DEF document
  <2>3. StoredStand'
    BY <2>1, <2>2 DEF EmailInv, StoredStand, document, Email!row
  <2>4. ArmedStands'
    BY <2>2 DEF EmailInv, ArmedStands
  <2>5. posts' \in 0..MaxPosts
    BY <2>2 DEF EmailInv, CountsStand, Email!EmailAssumption
  <2>6. RowStands'
    BY <2>2 DEF EmailInv, CountsStand, RowStands, Email!row
  <2> QED
    BY <1>1, <2>3, <2>4, <2>5, <2>6, RestStands DEF Email!save
<1>2. ASSUME Email!Writes, posted' = <<>>, UNCHANGED <<Email!history, armed, known>>,
             unheard' \in BOOLEAN
      PROVE  EmailInv'
  <2>1. Opens(posted[1], fresh) /\ server' = posted[1] /\ own' \in 0..MaxPosts
          /\ UNCHANGED <<fresh, commits, posts>>
    BY <1>2, WrittenStands
  <2>2. StoredStand'
    BY <1>2, <2>1 DEF EmailInv, StoredStand
  <2>3. ArmedStands' /\ RowStands' /\ posts' \in 0..MaxPosts
    BY <1>2, <2>1 DEF EmailInv, ArmedStands, CountsStand, RowStands
  <2> QED
    BY <1>2, <2>1, <2>2, <2>3, RestStands
<1>3. CASE Email!SaveLands
  <2>1. CASE Email!Opened(posted[1])
    BY <1>3, <2>1, WrittenStands, OpenedStands DEF Email!SaveLands
  <2>2. CASE posted' = <<>> /\ unheard' = FALSE /\ UNCHANGED <<Email!history, armed, known>>
    BY <1>2, <1>3, <2>2 DEF Email!SaveLands
  <2> QED
    BY <1>3, <2>1, <2>2 DEF Email!SaveLands
<1>4. CASE Email!SaveUnheard
  BY <1>2, <1>4 DEF Email!SaveUnheard
<1>5. CASE Email!SaveRefused
  <2>1. posted' = <<>> /\ UNCHANGED Email!row /\ fresh' = fresh
          /\ armed' = armed /\ posts' = posts
    BY <1>5 DEF Email!SaveRefused
  <2>2. StoredStand' /\ ArmedStands' /\ RowStands' /\ posts' \in 0..MaxPosts
    BY <2>1 DEF EmailInv, StoredStand, ArmedStands, CountsStand, RowStands, Email!row
  <2> QED
    BY <1>5, <2>2, RestStands DEF Email!SaveRefused
<1> QED
  BY <1>1, <1>3, <1>4, <1>5

\* The page that is read again opens on what is stored: the platform's design
\* when the row is gone.
LEMMA ReopensStand ==
    ASSUME Email!EmailAssumption, EmailInv, Email!restore \/ Email!Reopens
    PROVE  EmailInv'
<1>1. Opens(Platform, fresh) /\ Opens(server, fresh) /\ RowStands
  BY DEF EmailInv, StoredStand, CountsStand
<1>2. CASE Email!restore
  <2>1. UNCHANGED <<fresh, commits, posts>>
    BY <1>2 DEF Email!restore
  <2>2. server' \in {Platform, server} /\ own' \in {0, own}
    BY <1>2 DEF Email!restore
  <2>3. own' \in 0..MaxPosts
    BY <1>1, <2>2 DEF RowStands, Email!EmailAssumption
  <2>4. Opens(server', fresh)
    BY <1>1, <2>2
  <2>5. CASE Email!Opened(server')
    <3> DEFINE document == server'
    <3>1. Opens(document, fresh) /\ Email!Opened(document) /\ server' = document
      BY <2>4, <2>5
    <3> HIDE DEF document
    <3> QED
      BY <2>1, <2>3, <3>1, OpenedStands
  <2>6. CASE unheard' = (unheard \/ own' # own) /\ UNCHANGED <<Email!history, Email!page, known>>
    <3>1. unheard' \in BOOLEAN
      BY <2>6
    <3>2. armed' = armed /\ posted' = posted
      BY <2>6 DEF Email!page
    <3>3. StoredStand'
      BY <2>1, <2>4, <3>2 DEF EmailInv, StoredStand
    <3>4. ArmedStands'
      BY <3>2 DEF EmailInv, ArmedStands
    <3>5. RowStands' /\ posts' \in 0..MaxPosts
      BY <1>1, <2>1, <2>3, <2>6, <3>1 DEF EmailInv, CountsStand, RowStands
    <3> QED
      BY <2>1, <2>6, <3>3, <3>4, <3>5, RestStands
  <2> QED
    BY <1>2, <2>5, <2>6 DEF Email!restore
<1>3. CASE Email!Reopens
  <2>1. server' = server /\ own' = own /\ Email!Opened(server)
            /\ UNCHANGED <<fresh, commits, posts>>
    BY <1>3 DEF Email!Reopens
  <2>2. own' \in 0..MaxPosts
    BY <1>1, <2>1 DEF RowStands
  <2> QED
    BY <1>1, <2>1, <2>2, OpenedStands
<1> QED
  BY <1>2, <1>3

LEMMA EmailStart == ASSUME Email!EmailAssumption, Email!Init PROVE EmailInv
<1> DEFINE n == Len(Platform.blocks) + Len(Platform.rows) + 1
<1>1. /\ past = <<>> /\ future = <<>> /\ present = Email!fromDocument(Platform) /\ armed = <<>>
      /\ posted = <<>> /\ server = Platform /\ own = 0 /\ known = 0 /\ unheard = FALSE
      /\ commits = 0 /\ posts = 0 /\ fresh = n
  BY DEF Email!Init
<1>2. n \in Nat \ {0}
  <2>1. Len(Platform.blocks) \in Nat /\ Len(Platform.rows) \in Nat
    <3>1. Platform.blocks \in Seq(Nat) /\ Platform.rows \in Seq(Email!Row)
      BY DEF Email!EmailAssumption, Email!Written
    <3> QED
      BY <3>1, LenProperties
  <2> DEFINE a == Len(Platform.blocks)
             b == Len(Platform.rows)
  <2>2. a \in Nat /\ b \in Nat /\ n = a + b + 1
    BY <2>1
  <2> HIDE DEF a, b, n
  <2> QED
    BY <2>2
<1>3. Opens(Platform, n)
  BY WrittenOpens DEF Email!EmailAssumption
<1> HIDE DEF n
<1>4. HistoryStands
  <2> DEFINE S == Standing(fresh)
  <2>1. <<>> \in Seq(S) /\ Len(<<>>) + Len(<<>>) = 0 /\ 0 <= HistoryLimit
    <3> HIDE DEF S
    <3> QED
      BY DEF Email!EmailAssumption
  <2>2. Good(present, fresh)
    BY <1>1, <1>3 DEF Opens
  <2> QED
    BY <1>1, <2>1, <2>2 DEF HistoryStands
<1>5. StoredStand /\ ArmedStands
  BY <1>1, <1>3 DEF StoredStand, ArmedStands
<1>6. CountsStand
  <2>1. MaxCommits \in Nat /\ MaxPosts \in Nat
    BY DEF Email!EmailAssumption
  <2>2. RowStands
    <3>1. own \in 0..MaxPosts /\ known \in 0..MaxPosts
      BY <1>1, <2>1
    <3>2. unheard \in BOOLEAN
      BY <1>1, Zenon
    <3> QED
      BY <3>1, <3>2 DEF RowStands
  <2>3. commits \in 0..MaxCommits /\ posts \in 0..MaxPosts
    BY <1>1, <2>1
  <2>4. fresh \in Nat \ {0}
    BY <1>1, <1>2
  <2> QED
    BY <2>2, <2>3, <2>4 DEF CountsStand
<1> QED
  BY <1>4, <1>5, <1>6 DEF EmailInv

LEMMA EmailStep == ASSUME Email!EmailAssumption, EmailInv, Email!Next PROVE EmailInv'
<1>1. CASE Email!Arms \/ Email!Disarm
  BY <1>1, ArmStands
<1>2. ASSUME NEW at \in Email!Slots, Email!placeAt(at) PROVE EmailInv'
  BY <1>2, PlaceStands
<1>3. ASSUME NEW bar \in Email!Bars, NEW i, NEW delta, Email!moveStep(bar, i, delta) PROVE EmailInv'
  BY <1>3, StepStands
<1>4. ASSUME NEW id \in Email!Handles, Email!duplicate(id) \/ Email!remove(id) PROVE EmailInv'
  BY <1>4, DuplicateStands, RemoveStands
<1>5. CASE Email!undo \/ Email!redo
  BY <1>5, UndoStands
<1>6. CASE Email!save \/ Email!SaveLands \/ Email!SaveUnheard \/ Email!SaveRefused
  BY <1>6, SaveStands
<1>7. CASE Email!restore \/ Email!Reopens
  BY <1>7, ReopensStand
<1> QED
  BY <1>1, <1>2, <1>3, <1>4, <1>5, <1>6, <1>7 DEF Email!Next

LEMMA EmailStays == ASSUME EmailInv, UNCHANGED Email!vars PROVE EmailInv'
BY DEF EmailInv, HistoryStands, StoredStand, ArmedStands, CountsStand, RowStands, Good,
  Email!vars, Email!history, Email!page, Email!row

---------------------------------------------------------------------------
\* What the documents that stand give the reader.
LEMMA DocumentsStand ==
    ASSUME EmailInv, NEW doc \in Email!Documents
    PROVE  /\ doc = [rows |-> doc.rows, blocks |-> doc.blocks] /\ Good(doc, fresh)
           /\ Sheet(doc.rows, doc.blocks, fresh)
<1>1. past \in Seq(Standing(fresh)) /\ future \in Seq(Standing(fresh))
          /\ present \in Standing(fresh)
  BY DEF EmailInv, HistoryStands, Good
<1>2. Email!ToSet(past) \subseteq Standing(fresh) /\ Email!ToSet(future) \subseteq Standing(fresh)
  BY <1>1, ToSetIn
<1>3. Good(doc, fresh)
  BY <1>1, <1>2 DEF Email!Documents, Good
<1> QED
  BY <1>3, GoodIs

LEMMA AllStand == ASSUME EmailInv PROVE Email!BlocksStand
<1> SUFFICES ASSUME NEW doc \in Email!Documents
             PROVE  /\ Email!IsInjective(Email!Order(doc.rows))
                    /\ Email!ToSet(Email!Order(doc.rows)) = doc.blocks
                    /\ Email!IsInjective([i \in DOMAIN doc.rows |-> doc.rows[i].id])
  BY DEF Email!BlocksStand
<1>1. Sheet(doc.rows, doc.blocks, fresh)
  BY DocumentsStand
<1> QED
  BY <1>1, SheetStands

LEMMA AllReopen == ASSUME EmailInv PROVE Email!ReopensAsSaved
<1> SUFFICES ASSUME NEW doc \in Email!Documents
             PROVE  Email!fromDocument(Email!toDocument(doc)) =
                        [doc EXCEPT !.rows = Email!Flattened(Email!Filled(@))]
  BY DEF Email!ReopensAsSaved
<1>1. Good(doc, fresh)
  BY DocumentsStand
<1> QED
  BY <1>1, Reopened

LEMMA ServerReadsOnce == ASSUME EmailInv PROVE Email!Read(Email!Read(server)) = Email!Read(server)
<1>1. Opens(server, fresh)
  BY DEF EmailInv, StoredStand
<1> QED
  BY <1>1, ReadsOnce

LEMMA EmailTypes == ASSUME Email!EmailAssumption, EmailInv PROVE Email!TypeOK
<1>1. ASSUME NEW doc \in Email!Documents
      PROVE  /\ doc.rows \in Seq(Email!Row)
             /\ \A i \in DOMAIN doc.rows :
                  /\ Len(doc.rows[i].columns) = Email!Columns[doc.rows[i].layout]
                  /\ -doc.rows[i].id \in 1..(fresh - 1)
             /\ doc.blocks \subseteq 1..(fresh - 1)
  <2>1. Sheet(doc.rows, doc.blocks, fresh)
    BY DocumentsStand
  <2>2. doc.rows \in Seq(Shaped) /\ doc.blocks \subseteq 1..(fresh - 1)
    BY <2>1 DEF Sheet
  <2>3. Shaped \subseteq Email!Row
    BY DEF Shaped
  <2>4. doc.rows \in Seq(Email!Row)
    BY <2>2, <2>3, SeqLater
  <2>5. ASSUME NEW i \in DOMAIN doc.rows
        PROVE  /\ Len(doc.rows[i].columns) = Email!Columns[doc.rows[i].layout]
               /\ -doc.rows[i].id \in 1..(fresh - 1)
    <3>1. doc.rows[i] \in Shaped
      BY <2>2, LenProperties
    <3>2. Fits(doc.rows[i], doc.blocks, fresh)
      BY <2>1 DEF Sheet, Whole, Email!ToSet
    <3> QED
      BY <3>1, <3>2 DEF Shaped, Fits
  <2> QED
    BY <2>2, <2>4, <2>5
<1>2. Len(past) <= HistoryLimit
  <2>1. Len(past) \in Nat /\ Len(future) \in Nat
    BY LenProperties DEF EmailInv, HistoryStands
  <2>2. Len(past) + Len(future) <= HistoryLimit /\ HistoryLimit \in Nat
    BY DEF EmailInv, HistoryStands, Email!EmailAssumption
  <2> DEFINE a == Len(past)
             b == Len(future)
  <2>3. a \in Nat /\ b \in Nat /\ a + b <= HistoryLimit /\ HistoryLimit \in Nat
    BY <2>1, <2>2
  <2> HIDE DEF a, b
  <2>4. a <= HistoryLimit
    BY <2>3
  <2> QED
    BY <2>4 DEF a
<1>3. Len(posted) <= 1
  <2>1. CASE posted = <<>>
    BY <2>1
  <2>2. ASSUME NEW document, posted = <<document>> PROVE Len(posted) <= 1
    BY <2>2
  <2> QED
    BY <2>1, <2>2 DEF EmailInv, StoredStand
<1>4. {own, known} \subseteq 0..MaxPosts /\ unheard \in BOOLEAN
          /\ commits \in 0..MaxCommits /\ posts \in 0..MaxPosts
  BY DEF EmailInv, CountsStand, RowStands
<1> QED
  BY <1>1, <1>2, <1>3, <1>4 DEF Email!TypeOK

---------------------------------------------------------------------------
(***************************************************************************)
(* The mail builder among the pages in one run.                            *)
(***************************************************************************)
MailInv == BrowserInv /\ EmailInv

LEMMA MailStart == ASSUME Init PROVE MailInv
<1>1. Email!EmailAssumption
  BY BrowserAssumption
<1> QED
  BY <1>1, BrowserStart, EmailStart DEF MailInv, Init

LEMMA MailSteps == ASSUME MailInv, [Next]_browser PROVE MailInv'
<1>1. Email!EmailAssumption
  BY BrowserAssumption
<1>2. Email!Next \/ UNCHANGED email
  BY DEF Next, browser
<1>3. UNCHANGED email => UNCHANGED Email!vars
  BY DEF email, Email!vars, Email!history, Email!page, Email!row
<1>4. EmailInv'
  BY <1>1, <1>2, <1>3, EmailStep, EmailStays DEF MailInv
<1>5. BrowserInv'
  BY BrowserStep DEF MailInv
<1> QED
  BY <1>4, <1>5 DEF MailInv

LEMMA MailInductive == Spec => []MailInv
<1>1. Init => MailInv
  BY MailStart
<1>2. MailInv /\ [Next]_browser => MailInv'
  BY MailSteps
<1> QED
  BY <1>1, <1>2, PTL DEF Spec, browser

(***************************************************************************)
(* The state of every page is of its types.  Of the mail builder: each     *)
(* document undo and redo bring back has rows of the columns of their      *)
(* layout and ids that were handed out before the next one, the history    *)
(* is as long as HISTORY_LIMIT at most, and at most one save is on its     *)
(* way.  (fromDocument, commit, newId, onSubmit)                           *)
(***************************************************************************)
THEOREM BrowserTypeCorrect == Spec => []TypeOK
<1>1. Email!EmailAssumption
  BY BrowserAssumption
<1>2. MailInv => TypeOK
  BY <1>1, EmailTypes DEF MailInv, BrowserInv, EditorInv, ReactionInv, ViewsInv, TypeOK
<1> QED
  BY <1>2, MailInductive, PTL

(***************************************************************************)
(* No operation loses a block, draws one twice or leaves one behind: in    *)
(* the document and in every one undo or redo would bring back, each block *)
(* is in one place of one row and every row has an id of its own, whatever *)
(* is placed, moved, duplicated, removed, undone, saved and opened again.  *)
(* (place, move, duplicate, remove, tidy, fromDocument)                    *)
(***************************************************************************)
THEOREM NoBlockIsLost == Spec => []BlocksStand
<1>1. MailInv => BlocksStand
  BY AllStand DEF MailInv, BlocksStand
<1> QED
  BY <1>1, MailInductive, PTL

(***************************************************************************)
(* The mail that is saved is the one that is opened again, all but the     *)
(* rows nothing was put in: with the rows written when one has columns,    *)
(* and without them when none has.  (toDocument, fromDocument, readRows)   *)
(***************************************************************************)
THEOREM SavedMailReopens == Spec => []ReopensAsSaved
<1>1. MailInv => ReopensAsSaved
  BY AllReopen DEF MailInv, ReopensAsSaved
<1> QED
  BY <1>1, MailInductive, PTL

(***************************************************************************)
(* A page of the mail builder that does not say «not saved» shows what the *)
(* message is sent with, whatever was edited or undone while the save was  *)
(* on its way, unless the answer to what it had the server do was lost:    *)
(* what is held to be stored is what is sent or how that is read, and what *)
(* was read once is read again as it is.  (stored, posted, onSubmit,       *)
(* saveEmailDesign, restoreDefaultTemplate)                                *)
(***************************************************************************)
THEOREM SavedMailIsSent == Spec => []SavedIsSent
<1>1. MailInv => SavedIsSent
  <2>1. MailInv => Email!Read(Email!Read(server)) = Email!Read(server)
    BY ServerReadsOnce DEF MailInv
  <2>2. MailInv => unheard \/ stored \in {server, Email!Read(server)}
    BY DEF MailInv, BrowserInv, StoredIsSent
  <2> QED
    BY <2>1, <2>2 DEF SavedIsSent, Email!SavedIsSent, Email!unsaved
<1> QED
  BY <1>1, MailInductive, PTL
===========================================================================
