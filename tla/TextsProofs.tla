----------------------------- MODULE TextsProofs -----------------------------
(***************************************************************************)
(* What the orders of Texts are: the lemmas on flattened sequences,        *)
(* lexicographic order and sorting that the proofs about fingerprints and  *)
(* canonical JSON share.                                                   *)
(***************************************************************************)
EXTENDS Texts, TLAPS, FiniteSetTheorems, SequenceTheorems, WellFoundedInduction

-----------------------------------------------------------------------------
(* Induction over the naturals, as the least member of a set.              *)

LEMMA LeastOf ==
  ASSUME NEW S \in SUBSET Nat, S # {}
  PROVE  \E x \in S : \A y \in S : x <= y
<1>1. PICK x \in S : \A y \in S : ~(<<y, x>> \in OpToRel(<, Nat))
  BY NatLessThanWellFounded, WFMin
<1>2. \A y \in S : ~(y < x)
  BY <1>1 DEF OpToRel
<1> QED BY <1>2

LEMMA Induction ==
  ASSUME NEW G, NEW N \in Nat, 0 \in G, \A n \in 1..N : n - 1 \in G => n \in G
  PROVE  \A n \in 0..N : n \in G
<1> DEFINE bad == {n \in 0..N : n \notin G}
<1>1. ASSUME bad # {} PROVE FALSE
  <2>1. PICK n \in bad : \A m \in bad : n <= m
    <3>1. bad \in SUBSET Nat
      OBVIOUS
    <3> HIDE DEF bad
    <3> QED BY <1>1, <3>1, LeastOf
  <2>2. n \in 1..N /\ n - 1 \in 0..N /\ n - 1 \notin bad
    BY <2>1
  <2> QED BY <2>1, <2>2
<1> QED BY <1>1

-----------------------------------------------------------------------------
(* FlattenSeq.                                                             *)

\* The recursive function inside FlattenSeq exists.
LEMMA FlattenExists ==
  ASSUME NEW s, Len(s) \in Nat
  PROVE  \E f : f = [i \in 1..Len(s) |-> IF i = 1 THEN s[i] ELSE f[i-1] \o s[i]]
<1> DEFINE Good(n) ==
             \E f : f = [i \in 1..n |-> IF i = 1 THEN s[i] ELSE f[i-1] \o s[i]]
           good == {n \in 0..Len(s) : Good(n)}
<1>1. Good(0)
  <2>1. [i \in 1..0 |-> s[i]]
          = [i \in 1..0 |-> IF i = 1 THEN s[i] ELSE [j \in 1..0 |-> s[j]][i-1] \o s[i]]
    OBVIOUS
  <2> QED BY <2>1
<1>2. ASSUME NEW n \in 1..Len(s), Good(n - 1)
      PROVE  Good(n)
  <2>1. PICK f : f = [i \in 1..(n-1) |-> IF i = 1 THEN s[i] ELSE f[i-1] \o s[i]]
    BY <1>2
  <2> DEFINE last == IF n = 1 THEN s[n] ELSE f[n-1] \o s[n]
             g == [i \in 1..n |-> IF i = n THEN last ELSE f[i]]
             h == [i \in 1..n |-> IF i = 1 THEN s[i] ELSE g[i-1] \o s[i]]
  <2>2. ASSUME NEW i \in 1..n PROVE g[i] = h[i]
    <3>1. CASE i = n
      <4>1. CASE n = 1
        BY <3>1, <4>1
      <4>2. CASE n # 1
        <5>1. n - 1 \in 1..n /\ n - 1 # n
          BY <4>2
        <5>2. g[n - 1] = f[n - 1]
          BY <5>1
        <5> QED BY <3>1, <4>2, <5>2
      <4> QED BY <4>1, <4>2
    <3>2. CASE i # n
      <4>1. i \in 1..(n-1) /\ g[i] = f[i]
        BY <3>2
      <4>2. f[i] = IF i = 1 THEN s[i] ELSE f[i-1] \o s[i]
        BY <2>1, <4>1
      <4>3. CASE i = 1
        BY <4>1, <4>2, <4>3
      <4>4. CASE i # 1
        <5>1. i - 1 \in 1..n /\ i - 1 # n
          BY <4>1, <4>4
        <5>2. g[i-1] = f[i-1]
          BY <5>1
        <5> QED BY <4>1, <4>2, <4>4, <5>2
      <4> QED BY <4>3, <4>4
    <3> QED BY <3>1, <3>2
  <2>3. g = h
    <3> HIDE DEF last
    <3> QED BY <2>2
  <2> QED BY <2>3
<1>3. 0 \in good /\ \A n \in 1..Len(s) : n - 1 \in good => n \in good
  <2> HIDE DEF Good
  <2> QED BY <1>1, <1>2
<1>4. Len(s) \in good
  <2> HIDE DEF good
  <2> QED BY <1>3, Induction, SMTT(60)
<1> QED BY <1>4

\* What FlattenSeq gathers, step by step.
Gathers(f, s) ==
  /\ DOMAIN f = 1..Len(s)
  /\ f[1] = s[1]
  /\ \A i \in 2..Len(s) : f[i] = f[i-1] \o s[i]

LEMMA FlattenGathers ==
  ASSUME NEW s, Len(s) \in Nat \ {0}
  PROVE  \E f : Gathers(f, s) /\ FlattenSeq(s) = f[Len(s)]
<1> DEFINE f == CHOOSE g :
             g = [i \in 1..Len(s) |-> IF i = 1 THEN s[i] ELSE g[i-1] \o s[i]]
<1>1. f = [i \in 1..Len(s) |-> IF i = 1 THEN s[i] ELSE f[i-1] \o s[i]]
  BY FlattenExists, Zenon
<1>2. FlattenSeq(s) = f[Len(s)]
  BY DEF FlattenSeq
<1> HIDE DEF f
<1>3. \A i \in 1..Len(s) : f[i] = IF i = 1 THEN s[i] ELSE f[i-1] \o s[i]
  BY <1>1
<1>4. DOMAIN f = 1..Len(s)
  BY <1>1
<1>5. Gathers(f, s)
  <2>1. 1 \in 1..Len(s) /\ \A i \in 2..Len(s) : i \in 1..Len(s) /\ i # 1
    OBVIOUS
  <2>2. f[1] = s[1]
    BY <1>3, <2>1
  <2>3. ASSUME NEW i \in 2..Len(s) PROVE f[i] = f[i-1] \o s[i]
    BY <1>3, <2>1
  <2> QED BY <1>4, <2>2, <2>3 DEF Gathers
<1> QED BY <1>2, <1>5

LEMMA ConcatParts ==
  ASSUME NEW S, NEW u \in Seq(S), NEW w \in Seq(S), NEW v, v = u \o w
  PROVE  /\ v \in Seq(S)
         /\ Len(v) = Len(u) + Len(w)
         /\ \A k \in 1..Len(u) : v[k] = u[k]
         /\ \A k \in 1..Len(w) : v[Len(u) + k] = w[k]
<1>1. Len(u) \in Nat /\ Len(w) \in Nat
  OBVIOUS
<1> QED BY <1>1, ConcatProperties

LEMMA ConcatNumbers ==
  ASSUME NEW u \in Seq(Nat), NEW w \in Seq(Nat), NEW v, v = u \o w
  PROVE  /\ v \in Seq(Nat)
         /\ Len(v) = Len(u) + Len(w)
         /\ \A k \in 1..Len(u) : v[k] = u[k]
         /\ \A k \in 1..Len(w) : v[Len(u) + k] = w[k]
<1> DEFINE S == Nat
<1>1. u \in Seq(S) /\ w \in Seq(S) /\ v = u \o w
  OBVIOUS
<1> HIDE DEF S
<1>2. /\ v \in Seq(S)
      /\ Len(v) = Len(u) + Len(w)
      /\ \A k \in 1..Len(u) : v[k] = u[k]
      /\ \A k \in 1..Len(w) : v[Len(u) + k] = w[k]
  BY ONLY <1>1, ConcatParts
<1> QED BY <1>2 DEF S

LEMMA ConcatOne ==
  ASSUME NEW S, NEW l \in Seq(S), NEW x \in S, NEW u, u = l \o <<x>>
  PROVE  /\ u \in Seq(S) /\ Len(u) = Len(l) + 1
         /\ \A k \in 1..Len(l) : u[k] = l[k]
         /\ u[Len(l) + 1] = x
<1> DEFINE e == <<x>>
<1>1. e \in Seq(S) /\ Len(e) = 1 /\ e[1] = x
  OBVIOUS
<1>2. u = l \o e
  OBVIOUS
<1> HIDE DEF e
<1>3. /\ u \in Seq(S) /\ Len(u) = Len(l) + Len(e)
      /\ \A k \in 1..Len(l) : u[k] = l[k]
      /\ \A k \in 1..Len(e) : u[Len(l) + k] = e[k]
  BY <1>1, <1>2, ConcatParts
<1>4. 1 \in 1..Len(e)
  BY <1>1
<1> QED BY <1>1, <1>3, <1>4

\* Along the way, what is gathered only grows at its end.
LEMMA GathersSeq ==
  ASSUME NEW S, NEW s \in Seq(Seq(S)), Len(s) # 0, NEW f, Gathers(f, s)
  PROVE  \A i \in 1..Len(s) : f[i] \in Seq(S)
<1> DEFINE good == {n \in Nat : n \in 1..Len(s) => f[n] \in Seq(S)}
<1>1. Len(s) \in Nat /\ \A i \in 1..Len(s) : s[i] \in Seq(S)
  OBVIOUS
<1>2. 0 \in good
  OBVIOUS
<1>3. ASSUME NEW n \in 1..Len(s), n - 1 \in good PROVE n \in good
  <2>1. CASE n = 1
    BY <1>1, <2>1 DEF Gathers
  <2>2. CASE n # 1
    <3>1. n - 1 \in 1..Len(s) /\ n - 1 \in Nat /\ n \in 2..Len(s)
      BY <1>1, <2>2
    <3> DEFINE u == f[n-1]  v == f[n]
    <3>2. u \in Seq(S)
      BY <1>3, <3>1
    <3>3. v = u \o s[n]
      BY <3>1 DEF Gathers
    <3>4. s[n] \in Seq(S)
      BY <1>1
    <3>5. v \in Seq(S)
      <4> HIDE DEF u, v
      <4> QED BY <3>2, <3>3, <3>4, ConcatParts
    <3> QED BY <3>5
  <2> QED BY <2>1, <2>2
<1>4. \A n \in 0..Len(s) : n \in good
  <2> HIDE DEF good
  <2> QED BY <1>1, <1>2, <1>3, Induction
<1> QED BY <1>1, <1>4

IsPrefixOf(u, w) == Len(u) <= Len(w) /\ \A k \in 1..Len(u) : w[k] = u[k]

LEMMA GathersPrefix ==
  ASSUME NEW S, NEW s \in Seq(Seq(S)), Len(s) # 0, NEW f, Gathers(f, s),
         NEW i \in 1..Len(s), NEW j \in i..Len(s)
  PROVE  IsPrefixOf(f[i], f[j])
<1> DEFINE good == {n \in Nat : n \in i..Len(s) => IsPrefixOf(f[i], f[n])}
<1>1. Len(s) \in Nat /\ i \in Nat /\ i >= 1
  OBVIOUS
<1>2. \A n \in 1..Len(s) : f[n] \in Seq(S) /\ s[n] \in Seq(S)
  BY GathersSeq
<1>3. 0 \in good
  BY <1>1
<1>4. ASSUME NEW n \in 1..Len(s), n - 1 \in good PROVE n \in good
  <2>1. CASE n = i
    <3>1. f[i] \in Seq(S)
      BY <1>2
    <3> QED BY <2>1, <3>1 DEF IsPrefixOf
  <2>2. CASE n \in (i+1)..Len(s)
    <3>1. n - 1 \in i..Len(s) /\ n - 1 \in 1..Len(s) /\ n \in 2..Len(s)
      BY <1>1, <2>2
    <3>2. IsPrefixOf(f[i], f[n-1])
      BY <1>4, <3>1
    <3> DEFINE u == f[n-1]  v == f[n]  p == f[i]
    <3>3. v = u \o s[n]
      BY <3>1 DEF Gathers
    <3>4. u \in Seq(S) /\ s[n] \in Seq(S) /\ p \in Seq(S)
      BY <1>2, <3>1
    <3>5. IsPrefixOf(p, u)
      BY <3>2
    <3>6. IsPrefixOf(p, v)
      <4> HIDE DEF u, v, p
      <4>1. Len(v) = Len(u) + Len(s[n]) /\ \A k \in 1..Len(u) : v[k] = u[k]
        BY <3>3, <3>4, ConcatParts
      <4>2. Len(u) \in Nat /\ Len(s[n]) \in Nat /\ Len(p) \in Nat
        BY <3>4
      <4> QED BY <3>5, <4>1, <4>2 DEF IsPrefixOf
    <3> QED BY <3>6
  <2>3. CASE n \notin i..Len(s)
    BY <2>3
  <2> QED BY <1>1, <2>1, <2>2, <2>3
<1>5. \A n \in 0..Len(s) : n \in good
  <2> HIDE DEF good
  <2> QED BY <1>1, <1>3, <1>4, Induction
<1> QED BY <1>1, <1>5

\* What is gathered before the d-th sequence is taken.
Ahead(f, d) == IF d = 1 THEN <<>> ELSE f[d - 1]

LEMMA GathersAhead ==
  ASSUME NEW S, NEW s \in Seq(Seq(S)), Len(s) # 0, NEW f, Gathers(f, s),
         NEW d \in 1..Len(s)
  PROVE  Ahead(f, d) \in Seq(S) /\ f[d] = Ahead(f, d) \o s[d]
<1>1. s[d] \in Seq(S) /\ d \in Nat /\ Len(s) \in Nat
  OBVIOUS
<1>2. CASE d = 1
  <2>1. Ahead(f, d) = <<>> /\ f[d] = s[d]
    BY <1>2 DEF Ahead, Gathers
  <2> QED BY <1>1, <2>1, ConcatEmptySeq
<1>3. CASE d # 1
  <2>1. d \in 2..Len(s) /\ d - 1 \in 1..Len(s)
    BY <1>1, <1>3
  <2> QED BY <1>3, <2>1, GathersSeq DEF Ahead, Gathers
<1> QED BY <1>2, <1>3

AgreeTo(u, w, n) == \A i \in 1..n : u[i] = w[i]

LEMMA GathersAlike ==
  ASSUME NEW S, NEW s \in Seq(Seq(S)), NEW t \in Seq(Seq(S)),
         NEW f, NEW g, Gathers(f, s), Gathers(g, t),
         NEW d \in Nat \ {0}, d <= Len(s) + 1, d <= Len(t) + 1,
         AgreeTo(s, t, d - 1)
  PROVE  Ahead(f, d) = Ahead(g, d)
<1> DEFINE good == {n \in Nat : n = 0 \/ f[n] = g[n]}
<1>1. Len(s) \in Nat /\ Len(t) \in Nat
  OBVIOUS
<1>2. 0 \in good
  OBVIOUS
<1>3. ASSUME NEW n \in 1..(d-1), n - 1 \in good PROVE n \in good
  <2>1. CASE n = 1
    <3>1. s[1] = t[1]
      BY <2>1 DEF AgreeTo
    <3> QED BY <2>1, <3>1 DEF Gathers
  <2>2. CASE n # 1
    <3>1. n \in 2..Len(s) /\ n \in 2..Len(t)
      BY <1>1, <2>2
    <3>2. f[n] = f[n-1] \o s[n] /\ g[n] = g[n-1] \o t[n]
      BY <3>1 DEF Gathers
    <3>3. f[n-1] = g[n-1]
      BY <1>3, <2>2
    <3>4. s[n] = t[n] /\ n \in Nat
      BY DEF AgreeTo
    <3>5. f[n] = g[n]
      BY <3>2, <3>3, <3>4
    <3> QED BY <3>4, <3>5
  <2> QED BY <2>1, <2>2
<1>4. \A n \in 0..(d-1) : n \in good
  <2>1. d - 1 \in Nat
    OBVIOUS
  <2> HIDE DEF good
  <2> QED BY <1>2, <1>3, <2>1, Induction
<1> QED BY <1>4 DEF Ahead

-----------------------------------------------------------------------------
(* Lexicographic order.                                                    *)

LEMMA MinOfTwo ==
  ASSUME NEW m \in Int, NEW n \in Int
  PROVE  Min({m, n}) = IF m <= n THEN m ELSE n
<1> DEFINE least == IF m <= n THEN m ELSE n
<1>1. least \in {m, n} /\ \A y \in {m, n} : least <= y
  OBVIOUS
<1>2. \A x \in {m, n} : (\A y \in {m, n} : x <= y) => x = least
  OBVIOUS
<1> HIDE DEF least
<1>3. Min({m, n}) = least
  BY <1>1, <1>2 DEF Min
<1> QED BY <1>3 DEF least

\* The first n members agree and the next settles it.
Settles(u, w, n) ==
  /\ n <= Len(u) /\ n < Len(w)
  /\ \A i \in 1..n : u[i] = w[i]
  /\ n < Len(u) => u[n + 1] < w[n + 1]

LEMMA LexBeforeSettles ==
  ASSUME NEW u \in Seq(Nat), NEW w \in Seq(Nat)
  PROVE  LexBefore(u, w) <=> \E n \in Nat : Settles(u, w, n)
<1>1. Len(u) \in Nat /\ Len(w) \in Nat
  OBVIOUS
<1> DEFINE m == Len(u)  n == Len(w)
<1>2. Min({m, n}) = IF m <= n THEN m ELSE n
  <2>1. m \in Int /\ n \in Int
    BY <1>1
  <2> HIDE DEF m, n
  <2> QED BY <2>1, MinOfTwo
<1>3. \A k : k \in 0..Min({m, n}) <=> k \in Nat /\ k <= m /\ k <= n
  BY <1>1, <1>2
<1>4. ASSUME LexBefore(u, w) PROVE \E k \in Nat : Settles(u, w, k)
  <2>1. PICK k \in 0..Min({m, n}) :
               (\A i \in 1..k : u[i] = w[i]) /\ k < n /\ (k < m => u[k + 1] < w[k + 1])
    BY <1>4 DEF LexBefore
  <2> QED BY <1>3, <2>1 DEF Settles
<1>5. ASSUME NEW k \in Nat, Settles(u, w, k) PROVE LexBefore(u, w)
  <2>1. /\ \A i \in 1..k : u[i] = w[i]
        /\ k < n /\ (k < m => u[k + 1] < w[k + 1])
        /\ k <= m
    BY <1>5 DEF Settles
  <2>2. k \in 0..Min({m, n})
    <3>1. m \in Nat /\ n \in Nat
      BY <1>1
    <3>2. Min({m, n}) \in Nat /\ k <= Min({m, n})
      <4> HIDE DEF m, n
      <4> QED BY <1>2, <2>1, <3>1
    <3> QED BY <3>2
  <2> QED BY <2>1, <2>2 DEF LexBefore
<1> QED BY <1>4, <1>5

LEMMA LexIrreflexive ==
  ASSUME NEW u \in Seq(Nat)
  PROVE  ~LexBefore(u, u)
<1>1. Len(u) \in Nat /\ \A i \in 1..Len(u) : u[i] \in Nat
  OBVIOUS
<1>2. ASSUME NEW n \in Nat, Settles(u, u, n) PROVE FALSE
  <2>1. n < Len(u) /\ u[n + 1] < u[n + 1]
    BY <1>2 DEF Settles
  <2>2. n + 1 \in 1..Len(u)
    BY <1>1, <2>1
  <2> QED BY <1>1, <2>1, <2>2
<1> QED BY <1>2, LexBeforeSettles

LEMMA LexTransitive ==
  ASSUME NEW u \in Seq(Nat), NEW v \in Seq(Nat), NEW w \in Seq(Nat),
         LexBefore(u, v), LexBefore(v, w)
  PROVE  LexBefore(u, w)
<1>1. PICK m \in Nat : Settles(u, v, m)
  BY LexBeforeSettles
<1>2. PICK n \in Nat : Settles(v, w, n)
  BY LexBeforeSettles
<1>3. /\ Len(u) \in Nat /\ Len(v) \in Nat /\ Len(w) \in Nat
      /\ \A i \in 1..Len(u) : u[i] \in Nat
      /\ \A i \in 1..Len(v) : v[i] \in Nat
      /\ \A i \in 1..Len(w) : w[i] \in Nat
  OBVIOUS
<1>4. CASE m <= n
  <2>1. Settles(u, w, m)
    <3>1. m <= Len(u) /\ m < Len(w) /\ m < Len(v)
      BY <1>1, <1>2, <1>3, <1>4 DEF Settles
    <3>2. \A i \in 1..m : u[i] = w[i]
      BY <1>1, <1>2, <1>4 DEF Settles
    <3>3. ASSUME m < Len(u) PROVE u[m + 1] < w[m + 1]
      <4>1. u[m + 1] < v[m + 1]
        BY <1>1, <3>3 DEF Settles
      <4>2. /\ m + 1 \in 1..Len(u) /\ m + 1 \in 1..Len(v) /\ m + 1 \in 1..Len(w)
        BY <1>3, <3>1, <3>3
      <4>3. v[m + 1] <= w[m + 1]
        <5>1. CASE m = n
          <6>1. v[n + 1] < w[n + 1]
            BY <1>2, <1>3, <3>1, <5>1 DEF Settles
          <6> QED BY <1>3, <4>2, <5>1, <6>1, SMTT(60)
        <5>2. CASE m # n
          <6>1. m + 1 \in 1..n
            BY <1>4, <5>2
          <6> QED BY <1>2, <1>3, <4>2, <6>1, SMTT(60) DEF Settles
        <5> QED BY <5>1, <5>2
      <4> QED BY <1>3, <4>1, <4>2, <4>3, SMTT(60)
    <3> QED BY <3>1, <3>2, <3>3 DEF Settles
  <2> QED BY <2>1, LexBeforeSettles
<1>5. CASE n < m
  <2>1. Settles(u, w, n)
    <3>1. n <= Len(u) /\ n < Len(w) /\ n < Len(v)
      BY <1>1, <1>2, <1>3, <1>5 DEF Settles
    <3>2. \A i \in 1..n : u[i] = w[i]
      BY <1>1, <1>2, <1>5 DEF Settles
    <3>3. n + 1 \in 1..m
      BY <1>5
    <3>4. u[n + 1] = v[n + 1]
      BY <1>1, <3>3 DEF Settles
    <3>5. v[n + 1] < w[n + 1]
      BY <1>2, <3>1 DEF Settles
    <3> QED BY <3>1, <3>2, <3>4, <3>5 DEF Settles
  <2> QED BY <2>1, LexBeforeSettles
<1> QED BY <1>4, <1>5

\* Two sequences agree throughout, or up to some member.
LEMMA FirstDifference ==
  ASSUME NEW S, NEW u \in Seq(S), NEW w \in Seq(S), u # w
  PROVE  \E n \in Nat : /\ n <= Len(u) /\ n <= Len(w)
                        /\ \A i \in 1..n : u[i] = w[i]
                        /\ \/ n = Len(u) /\ n < Len(w)
                           \/ n = Len(w) /\ n < Len(u)
                           \/ n < Len(u) /\ n < Len(w) /\ u[n + 1] # w[n + 1]
<1> DEFINE lo == IF Len(u) <= Len(w) THEN Len(u) ELSE Len(w)
           differ == {n \in Nat : n < lo /\ u[n + 1] # w[n + 1]}
<1>1. Len(u) \in Nat /\ Len(w) \in Nat /\ lo \in Nat
  OBVIOUS
<1>2. CASE differ = {}
  <2>1. ASSUME NEW i \in 1..lo PROVE u[i] = w[i]
    <3>1. i - 1 \in Nat /\ i - 1 < lo /\ i - 1 \notin differ /\ (i - 1) + 1 = i
      BY <1>1, <1>2
    <3> QED BY <3>1
  <2>2. Len(u) # Len(w)
    BY <1>1, <2>1, SeqEqual
  <2> QED BY <1>1, <2>1, <2>2
<1>3. CASE differ # {}
  <2>1. differ \in SUBSET Nat
    OBVIOUS
  <2>2. PICK n \in differ : \A m \in differ : n <= m
    <3> HIDE DEF differ
    <3> QED BY <1>3, <2>1, LeastOf
  <2>3. ASSUME NEW i \in 1..n PROVE u[i] = w[i]
    <3>1. i - 1 \in Nat /\ i - 1 < lo /\ i - 1 \notin differ /\ (i - 1) + 1 = i
      BY <1>1, <2>2
    <3> QED BY <3>1
  <2> QED BY <1>1, <2>2, <2>3
<1> QED BY <1>2, <1>3

LEMMA LexTotal ==
  ASSUME NEW u \in Seq(Nat), NEW w \in Seq(Nat), u # w
  PROVE  LexBefore(u, w) \/ LexBefore(w, u)
<1>1. PICK n \in Nat : /\ n <= Len(u) /\ n <= Len(w)
                       /\ \A i \in 1..n : u[i] = w[i]
                       /\ \/ n = Len(u) /\ n < Len(w)
                          \/ n = Len(w) /\ n < Len(u)
                          \/ n < Len(u) /\ n < Len(w) /\ u[n + 1] # w[n + 1]
  BY FirstDifference
<1>2. Len(u) \in Nat /\ Len(w) \in Nat
  OBVIOUS
<1>3. n < Len(u) /\ n < Len(w) => u[n + 1] \in Nat /\ w[n + 1] \in Nat
  BY <1>2
<1>4. \A i \in 1..n : w[i] = u[i]
  BY <1>1
<1>5. CASE n = Len(u) /\ n < Len(w)
  <2>1. Settles(u, w, n)
    BY <1>1, <1>5 DEF Settles
  <2> QED BY <2>1, LexBeforeSettles
<1>6. CASE n = Len(w) /\ n < Len(u)
  <2>1. Settles(w, u, n)
    BY <1>1, <1>4, <1>6 DEF Settles
  <2> QED BY <2>1, LexBeforeSettles
<1>7. CASE n < Len(u) /\ n < Len(w) /\ u[n + 1] # w[n + 1]
  <2>1. u[n + 1] < w[n + 1] \/ w[n + 1] < u[n + 1]
    BY <1>3, <1>7
  <2>2. Settles(u, w, n) \/ Settles(w, u, n)
    BY <1>1, <1>4, <1>7, <2>1 DEF Settles
  <2>3. CASE Settles(u, w, n)
    BY <2>3, LexBeforeSettles
  <2>4. CASE Settles(w, u, n)
    BY <2>4, LexBeforeSettles
  <2> QED BY <2>2, <2>3, <2>4
<1>8. \/ n = Len(u) /\ n < Len(w)
      \/ n = Len(w) /\ n < Len(u)
      \/ n < Len(u) /\ n < Len(w) /\ u[n + 1] # w[n + 1]
  BY <1>1
<1> QED BY <1>5, <1>6, <1>7, <1>8

-----------------------------------------------------------------------------
(* The order of two texts, encoded piece by piece.                         *)

LEMMA FlattenType ==
  ASSUME NEW S, NEW s \in Seq(Seq(S))
  PROVE  FlattenSeq(s) \in Seq(S)
<1>1. CASE Len(s) = 0
  <2>1. FlattenSeq(s) = s
    BY <1>1 DEF FlattenSeq
  <2>2. s = <<>>
    BY <1>1
  <2> QED BY <2>1, <2>2
<1>2. CASE Len(s) # 0
  <2>1. Len(s) \in Nat \ {0} /\ Len(s) \in 1..Len(s)
    BY <1>2
  <2>2. PICK f : Gathers(f, s) /\ FlattenSeq(s) = f[Len(s)]
    BY <2>1, FlattenGathers
  <2> QED BY <1>2, <2>1, <2>2, GathersSeq
<1> QED BY <1>1, <1>2

\* After its first p members, u goes on with x.
Continues(u, p, x) ==
  p + Len(x) <= Len(u) /\ \A i \in 1..Len(x) : u[p + i] = x[i]

LEMMA ConcatContinues ==
  ASSUME NEW S, NEW pre \in Seq(S), NEW w \in Seq(S), NEW v, v = pre \o w,
         NEW whole, IsPrefixOf(v, whole), Len(whole) \in Nat
  PROVE  AgreeTo(whole, pre, Len(pre)) /\ Continues(whole, Len(pre), w)
<1>1. /\ Len(v) = Len(pre) + Len(w)
      /\ \A k \in 1..Len(pre) : v[k] = pre[k]
      /\ \A k \in 1..Len(w) : v[Len(pre) + k] = w[k]
  BY ConcatParts
<1>2. Len(pre) \in Nat /\ Len(w) \in Nat
  OBVIOUS
<1>3. Len(v) <= Len(whole) /\ \A k \in 1..Len(v) : whole[k] = v[k]
  BY DEF IsPrefixOf
<1>4. \A i \in 1..Len(pre) : whole[i] = pre[i]
  BY <1>1, <1>2, <1>3
<1>5. ASSUME NEW i \in 1..Len(w) PROVE whole[Len(pre) + i] = w[i]
  <2>1. Len(pre) + i \in 1..Len(v)
    BY <1>1, <1>2
  <2> QED BY <1>1, <1>3, <2>1
<1> QED BY <1>1, <1>3, <1>4, <1>5 DEF AgreeTo, Continues

\* What is flattened begins with what is ahead of any piece, and the piece.
LEMMA FlattenAt ==
  ASSUME NEW S, NEW s \in Seq(Seq(S)), NEW f, Gathers(f, s),
         FlattenSeq(s) = f[Len(s)], NEW d \in 1..Len(s)
  PROVE  /\ Ahead(f, d) \in Seq(S)
         /\ AgreeTo(FlattenSeq(s), Ahead(f, d), Len(Ahead(f, d)))
         /\ Continues(FlattenSeq(s), Len(Ahead(f, d)), s[d])
<1> DEFINE pre == Ahead(f, d)  v == f[d]  whole == FlattenSeq(s)  w == s[d]
<1>1. Len(s) \in Nat /\ Len(s) # 0 /\ Len(s) \in d..Len(s) /\ w \in Seq(S)
  OBVIOUS
<1>2. pre \in Seq(S) /\ v = pre \o w
  BY <1>1, GathersAhead
<1>3. IsPrefixOf(v, whole)
  BY <1>1, GathersPrefix
<1>4. Len(whole) \in Nat
  BY FlattenType
<1> HIDE DEF pre, v, whole, w
<1>5. AgreeTo(whole, pre, Len(pre)) /\ Continues(whole, Len(pre), w)
  BY <1>1, <1>2, <1>3, <1>4, ConcatContinues
<1> QED BY <1>2, <1>5 DEF pre, whole, w

LEMMA SettleAfter ==
  ASSUME NEW u \in Seq(Nat), NEW w \in Seq(Nat), NEW x \in Seq(Nat), NEW y \in Seq(Nat),
         NEW p \in Nat, AgreeTo(u, w, p), Continues(u, p, x), Continues(w, p, y),
         NEW k \in Nat, k < Len(x), Settles(x, y, k)
  PROVE  LexBefore(u, w)
<1>1. Len(u) \in Nat /\ Len(w) \in Nat /\ Len(x) \in Nat /\ Len(y) \in Nat
  OBVIOUS
<1>2. k < Len(y)
  BY DEF Settles
<1>3. p + Len(x) <= Len(u) /\ p + Len(y) <= Len(w)
  BY DEF Continues
<1> DEFINE n == p + k
<1>4. n \in Nat /\ n <= Len(u) /\ n < Len(w)
  <2> DEFINE a == Len(u)  b == Len(w)  c == Len(x)  e == Len(y)
  <2>1. /\ a \in Nat /\ b \in Nat /\ c \in Nat /\ e \in Nat
        /\ p + c <= a /\ p + e <= b /\ k < c /\ k < e
    BY <1>1, <1>2, <1>3
  <2> HIDE DEF a, b, c, e
  <2>2. p + k \in Nat /\ p + k <= a /\ p + k < b
    BY <2>1
  <2> QED BY <2>2 DEF a, b
<1>5. ASSUME NEW i \in 1..n PROVE u[i] = w[i]
  <2>1. CASE i \in 1..p
    BY <2>1 DEF AgreeTo
  <2>2. CASE i \notin 1..p
    <3>1. PICK j \in 1..k : i = p + j
      <4>1. i - p \in 1..k /\ i = p + (i - p)
        BY <2>2
      <4> QED BY <4>1
    <3>2. j \in 1..Len(x) /\ j \in 1..Len(y)
      BY <1>1, <1>2
    <3>3. u[p + j] = x[j]
      BY <3>2 DEF Continues
    <3>4. w[p + j] = y[j]
      BY <3>2 DEF Continues
    <3>5. x[j] = y[j]
      BY DEF Settles
    <3> QED BY <3>1, <3>3, <3>4, <3>5
  <2> QED BY <2>1, <2>2
<1>6. u[n + 1] < w[n + 1]
  <2>1. /\ k + 1 \in 1..Len(x) /\ k + 1 \in 1..Len(y)
        /\ n + 1 = p + (k + 1)
    BY <1>1, <1>2
  <2>2. u[p + (k + 1)] = x[k + 1]
    BY <2>1 DEF Continues
  <2>3. w[p + (k + 1)] = y[k + 1]
    BY <2>1 DEF Continues
  <2>4. x[k + 1] < y[k + 1]
    BY DEF Settles
  <2> QED BY <2>1, <2>2, <2>3, <2>4
<1> HIDE DEF n
<1>7. Settles(u, w, n)
  BY <1>4, <1>5, <1>6 DEF Settles
<1> QED BY <1>4, <1>7, LexBeforeSettles

\* Pieces that differ settle it.
LEMMA PiecesSettle ==
  ASSUME NEW s \in Seq(Seq(Nat)), NEW t \in Seq(Seq(Nat)),
         NEW d \in 1..Len(s), d \in 1..Len(t), AgreeTo(s, t, d - 1),
         NEW k \in Nat, k < Len(s[d]), Settles(s[d], t[d], k)
  PROVE  LexBefore(FlattenSeq(s), FlattenSeq(t))
<1>1. /\ Len(s) \in Nat \ {0} /\ Len(t) \in Nat \ {0} /\ d \in Nat \ {0}
      /\ d <= Len(s) + 1 /\ d <= Len(t) + 1
  BY SMTT(60)
<1>2. PICK f : Gathers(f, s) /\ FlattenSeq(s) = f[Len(s)]
  BY <1>1, FlattenGathers
<1>3. PICK g : Gathers(g, t) /\ FlattenSeq(t) = g[Len(t)]
  BY <1>1, FlattenGathers
<1>4. Ahead(f, d) = Ahead(g, d)
  BY <1>1, <1>2, <1>3, GathersAlike
<1> DEFINE pre == Ahead(f, d)  u == FlattenSeq(s)  w == FlattenSeq(t)
           p == Len(pre)  x == s[d]  y == t[d]
<1>5. pre \in Seq(Nat) /\ AgreeTo(u, pre, p) /\ Continues(u, p, x)
  BY <1>2, FlattenAt
<1>6. AgreeTo(w, pre, p) /\ Continues(w, p, y)
  BY <1>3, <1>4, FlattenAt
<1>7. u \in Seq(Nat) /\ w \in Seq(Nat)
  BY FlattenType
<1>8. x \in Seq(Nat) /\ y \in Seq(Nat) /\ k < Len(x) /\ Settles(x, y, k)
  OBVIOUS
<1>9. p \in Nat
  BY <1>5
<1> HIDE DEF u, w, p, x, y, pre
<1>10. AgreeTo(u, w, p)
  BY <1>5, <1>6 DEF AgreeTo
<1>11. LexBefore(u, w)
  BY <1>5, <1>6, <1>7, <1>8, <1>9, <1>10, SettleAfter
<1> QED BY <1>11 DEF u, w

\* A proper prefix comes first.
LEMMA PiecesPrefix ==
  ASSUME NEW s \in Seq(Seq(Nat)), NEW t \in Seq(Seq(Nat)),
         Len(s) < Len(t), AgreeTo(s, t, Len(s)), Len(t[Len(s) + 1]) # 0
  PROVE  LexBefore(FlattenSeq(s), FlattenSeq(t))
<1>1. /\ Len(s) \in Nat /\ Len(t) \in Nat \ {0} /\ Len(s) + 1 \in 1..Len(t)
  OBVIOUS
<1>2. PICK g : Gathers(g, t) /\ FlattenSeq(t) = g[Len(t)]
  BY <1>1, FlattenGathers
<1>3. PICK d \in 1..Len(t) : d = Len(s) + 1
  BY <1>1
<1> DEFINE u == FlattenSeq(s)  w == FlattenSeq(t)  m == Len(u)  y == t[d]
<1>4. Ahead(g, d) = u
  <2>1. CASE Len(s) = 0
    <3>1. u = s /\ s = <<>> /\ d = 1
      BY <1>3, <2>1 DEF FlattenSeq
    <3> QED BY <3>1 DEF Ahead
  <2>2. CASE Len(s) # 0
    <3>1. PICK f : Gathers(f, s) /\ FlattenSeq(s) = f[Len(s)]
      BY <1>1, <2>2, FlattenGathers
    <3>2. /\ d \in Nat \ {0} /\ d <= Len(s) + 1 /\ d <= Len(t) + 1
          /\ d - 1 = Len(s) /\ d # 1
      BY <1>1, <1>3, <2>2
    <3>3. AgreeTo(s, t, d - 1)
      BY <3>2
    <3>4. Ahead(f, d) = Ahead(g, d)
      BY <1>2, <3>1, <3>2, <3>3, GathersAlike
    <3>5. Ahead(f, d) = u
      BY <3>1, <3>2 DEF Ahead
    <3> QED BY <3>4, <3>5
  <2> QED BY <2>1, <2>2
<1>5. u \in Seq(Nat) /\ AgreeTo(w, u, m) /\ Continues(w, m, y)
  BY <1>2, <1>4, FlattenAt
<1>6. w \in Seq(Nat) /\ y \in Seq(Nat) /\ Len(y) # 0
  BY <1>1, <1>3, FlattenType
<1>7. Len(u) \in Nat /\ Len(w) \in Nat /\ Len(y) \in Nat
  BY <1>5, <1>6
<1> HIDE DEF u, w, y
<1>8. m <= Len(u) /\ m < Len(w) /\ ~(m < Len(u))
  BY <1>5, <1>6, <1>7, SMTT(60) DEF Continues
<1>9. Settles(u, w, m)
  BY <1>5, <1>8 DEF Settles, AgreeTo
<1>10. LexBefore(u, w)
  BY <1>5, <1>6, <1>7, <1>9, LexBeforeSettles
<1> QED BY <1>10 DEF u, w
-----------------------------------------------------------------------------
(* UTF-8: bytes in order are code points in order.                         *)

LEMMA Shifted ==
  ASSUME NEW c \in Nat
  PROVE  /\ (c \div 1) = c /\ (c \div 64) \in Nat
         /\ (c \div 4096) = ((c \div 64) \div 64)
         /\ (c \div 262144) = ((c \div 4096) \div 64)
         /\ (c \div 4096) \in Nat /\ (c \div 262144) \in Nat
         /\ (c % 64) \in 0..63 /\ ((c \div 64) % 64) \in 0..63
         /\ ((c \div 4096) % 64) \in 0..63
BY SMT

LEMMA Digits ==
  ASSUME NEW c \in Nat, NEW d \in Nat, c < d
  PROVE  (c \div 64) < (d \div 64) \/ ((c \div 64) = (d \div 64) /\ (c % 64) < (d % 64))
BY SMT

LEMMA LeadingBytes ==
  ASSUME NEW c \in Nat
  PROVE  /\ c >= 128 /\ c < 2048 => (c \div 64) \in 2..31
         /\ c < 65536 => (c \div 4096) \in 0..15
         /\ c <= 1114111 => (c \div 262144) \in 0..4
BY SMT

LEMMA Utf8One == ASSUME NEW c \in Nat, c < 128 PROVE Utf8Bytes(c) = <<c>>
BY DEF Utf8Bytes

LEMMA Utf8Two ==
  ASSUME NEW c \in Nat, c >= 128, c < 2048
  PROVE  Utf8Bytes(c) = <<192 + (c \div 64), 128 + (c % 64)>>
<1>1. ~(c < 128) /\ c < 2048
  BY SMT
<1>2. Continuation(c, 1) = 128 + (c % 64)
  BY Shifted, SMT DEF Continuation
<1>3. Utf8Bytes(c) = <<192 + (c \div 64), Continuation(c, 1)>>
  BY <1>1 DEF Utf8Bytes
<1> QED BY <1>2, <1>3

LEMMA Utf8Three ==
  ASSUME NEW c \in Nat, c >= 2048, c < 65536
  PROVE  Utf8Bytes(c) = <<224 + (c \div 4096), 128 + ((c \div 64) % 64), 128 + (c % 64)>>
<1>1. ~(c < 128) /\ ~(c < 2048) /\ c < 65536
  BY SMT
<1>2. Continuation(c, 1) = 128 + (c % 64) /\ Continuation(c, 64) = 128 + ((c \div 64) % 64)
  BY Shifted, SMT DEF Continuation
<1>3. Utf8Bytes(c) = <<224 + (c \div 4096), Continuation(c, 64), Continuation(c, 1)>>
  BY <1>1 DEF Utf8Bytes
<1> QED BY <1>2, <1>3

LEMMA Utf8Four ==
  ASSUME NEW c \in Nat, c >= 65536
  PROVE  Utf8Bytes(c) = <<240 + (c \div 262144), 128 + ((c \div 4096) % 64),
                          128 + ((c \div 64) % 64), 128 + (c % 64)>>
<1>1. ~(c < 128) /\ ~(c < 2048) /\ ~(c < 65536)
  BY SMT
<1>2. /\ Continuation(c, 1) = 128 + (c % 64)
      /\ Continuation(c, 64) = 128 + ((c \div 64) % 64)
      /\ Continuation(c, 4096) = 128 + ((c \div 4096) % 64)
  BY Shifted, SMT DEF Continuation
<1>3. Utf8Bytes(c) = <<240 + (c \div 262144), Continuation(c, 4096), Continuation(c, 64),
                       Continuation(c, 1)>>
  BY <1>1 DEF Utf8Bytes
<1> QED BY <1>2, <1>3

LEMMA Utf8Type ==
  ASSUME NEW c \in Nat, IsPoint(c)
  PROVE  /\ Utf8Bytes(c) \in Seq(Nat) /\ Len(Utf8Bytes(c)) \in Nat \ {0}
         /\ c < 128 => Utf8Bytes(c)[1] = c
         /\ c >= 128 /\ c < 2048 => Utf8Bytes(c)[1] \in 194..223
         /\ c >= 2048 /\ c < 65536 => Utf8Bytes(c)[1] \in 224..239
         /\ c >= 65536 => Utf8Bytes(c)[1] \in 240..244
<1> DEFINE l == c % 64  m == (c \div 64) % 64  h == (c \div 4096) % 64
           two == c \div 64  three == c \div 4096  four == c \div 262144
<1>1. /\ l \in Nat /\ m \in Nat /\ h \in Nat
      /\ two \in Nat /\ three \in Nat /\ four \in Nat
  BY Shifted
<1>2. /\ c >= 128 /\ c < 2048 => two \in 2..31
      /\ c < 65536 => three \in 0..15
      /\ four \in 0..4
  BY LeadingBytes, SMT DEF IsPoint
<1>3. CASE c < 128
  <2>1. Utf8Bytes(c) = <<c>>
    BY <1>3, Utf8One, SMT
  <2> QED BY <1>3, <2>1, SMT
<1>4. CASE c >= 128 /\ c < 2048
  <2>1. Utf8Bytes(c) = <<192 + two, 128 + l>>
    BY <1>4, Utf8Two
  <2> HIDE DEF l, two
  <2> QED BY <1>1, <1>2, <1>4, <2>1
<1>5. CASE c >= 2048 /\ c < 65536
  <2>1. Utf8Bytes(c) = <<224 + three, 128 + m, 128 + l>>
    BY <1>5, Utf8Three
  <2> HIDE DEF l, m, three
  <2> QED BY <1>1, <1>2, <1>5, <2>1
<1>6. CASE c >= 65536
  <2>1. Utf8Bytes(c) = <<240 + four, 128 + h, 128 + m, 128 + l>>
    BY <1>6, Utf8Four
  <2> HIDE DEF l, m, h, four
  <2> QED BY <1>1, <1>2, <1>6, <2>1
<1> QED BY <1>3, <1>4, <1>5, <1>6

LEMMA FirstSettles ==
  ASSUME NEW x \in Seq(Nat), NEW y \in Seq(Nat), Len(x) # 0, Len(y) # 0, x[1] < y[1]
  PROVE  0 < Len(x) /\ Settles(x, y, 0)
BY DEF Settles

LEMMA Utf8Settles ==
  ASSUME NEW c \in Nat, NEW d \in Nat, IsPoint(c), IsPoint(d), c < d
  PROVE  \E k \in Nat : k < Len(Utf8Bytes(c)) /\ Settles(Utf8Bytes(c), Utf8Bytes(d), k)
<1> DEFINE x == Utf8Bytes(c)  y == Utf8Bytes(d)
<1>2. x \in Seq(Nat) /\ Len(x) # 0 /\ y \in Seq(Nat) /\ Len(y) # 0
  BY Utf8Type
<1>3. CASE x[1] < y[1]
  <2> HIDE DEF x, y
  <2>1. 0 < Len(x) /\ Settles(x, y, 0)
    BY <1>2, <1>3, FirstSettles
  <2> QED BY <2>1 DEF x, y
<1>4. CASE c >= 128 /\ d < 2048
  <2> DEFINE a == c \div 64  b == d \div 64  r == c % 64  s == d % 64
  <2>1. x = <<192 + a, 128 + r>> /\ y = <<192 + b, 128 + s>>
    <3>1. c \in Nat /\ c >= 128 /\ c < 2048
      BY <1>4, SMT
    <3>2. d \in Nat /\ d >= 128 /\ d < 2048
      BY <1>4, SMT
    <3>3. x = <<192 + a, 128 + r>>
      BY <3>1, Utf8Two, SMT
    <3>4. y = <<192 + b, 128 + s>>
      BY <3>2, Utf8Two, SMT
    <3> QED BY <3>3, <3>4
  <2>2. a \in Nat /\ b \in Nat /\ r \in Nat /\ s \in Nat
    BY Shifted
  <2>3. a < b \/ (a = b /\ r < s)
    BY Digits
  <2> HIDE DEF x, y, a, b, r, s
  <2>4. CASE a < b
    <3>1. 0 < Len(x) /\ Settles(x, y, 0)
      BY <2>1, <2>2, <2>4 DEF Settles
    <3> QED BY <3>1 DEF x, y
  <2>5. CASE a = b /\ r < s
    <3>1. 1 < Len(x) /\ Settles(x, y, 1)
      BY <2>1, <2>2, <2>5 DEF Settles
    <3> QED BY <3>1 DEF x, y
  <2> QED BY <2>3, <2>4, <2>5
<1>5. CASE c >= 2048 /\ d < 65536
  <2> DEFINE a == c \div 4096  b == d \div 4096  m == c \div 64  n == d \div 64
             e == m % 64  f == n % 64  r == c % 64  s == d % 64
  <2>1. x = <<224 + a, 128 + e, 128 + r>> /\ y = <<224 + b, 128 + f, 128 + s>>
    <3>1. c \in Nat /\ c >= 2048 /\ c < 65536
      BY <1>5, SMT
    <3>2. d \in Nat /\ d >= 2048 /\ d < 65536
      BY <1>5, SMT
    <3>3. x = <<224 + a, 128 + e, 128 + r>>
      BY <3>1, Utf8Three, SMT
    <3>4. y = <<224 + b, 128 + f, 128 + s>>
      BY <3>2, Utf8Three, SMT
    <3> QED BY <3>3, <3>4
  <2>2. a \in Nat /\ b \in Nat /\ r \in Nat /\ s \in Nat /\ e \in Nat /\ f \in Nat
    BY Shifted
  <2>3. m < n \/ (m = n /\ r < s)
    BY Digits
  <2>4. m < n => a < b \/ (a = b /\ e < f)
    <3>1. m \in Nat /\ n \in Nat /\ a = (m \div 64) /\ b = (n \div 64)
      BY Shifted
    <3> HIDE DEF m, n
    <3> QED BY <3>1, Digits
  <2>5. m = n => a = b /\ e = f
    <3>1. a = (m \div 64) /\ b = (n \div 64)
      BY Shifted
    <3> HIDE DEF m, n
    <3> QED BY <3>1
  <2> HIDE DEF x, y, a, b, m, n, e, f, r, s
  <2>6. a < b \/ (a = b /\ e < f) \/ (a = b /\ e = f /\ r < s)
    BY <2>3, <2>4, <2>5
  <2>7. CASE a < b
    <3>1. 0 < Len(x) /\ Settles(x, y, 0)
      BY <2>1, <2>2, <2>7 DEF Settles
    <3> QED BY <3>1 DEF x, y
  <2>8. CASE a = b /\ e < f
    <3>1. 1 < Len(x) /\ Settles(x, y, 1)
      BY <2>1, <2>2, <2>8 DEF Settles
    <3> QED BY <3>1 DEF x, y
  <2>9. CASE a = b /\ e = f /\ r < s
    <3>1. 2 < Len(x) /\ Settles(x, y, 2)
      BY <2>1, <2>2, <2>9 DEF Settles
    <3> QED BY <3>1 DEF x, y
  <2> QED BY <2>6, <2>7, <2>8, <2>9
<1>6. CASE c >= 65536
  <2> DEFINE p == c \div 262144  q == d \div 262144  a == c \div 4096  b == d \div 4096
             m == c \div 64  n == d \div 64  g == a % 64  h == b % 64
             e == m % 64  f == n % 64  r == c % 64  s == d % 64
  <2>1. x = <<240 + p, 128 + g, 128 + e, 128 + r>> /\ y = <<240 + q, 128 + h, 128 + f, 128 + s>>
    <3>1. c \in Nat /\ c >= 65536
      BY <1>6, SMT
    <3>2. d \in Nat /\ d >= 65536
      BY <1>6, SMT
    <3>3. x = <<240 + p, 128 + g, 128 + e, 128 + r>>
      BY <3>1, Utf8Four, SMT
    <3>4. y = <<240 + q, 128 + h, 128 + f, 128 + s>>
      BY <3>2, Utf8Four, SMT
    <3> QED BY <3>3, <3>4
  <2>2. /\ p \in Nat /\ q \in Nat /\ g \in Nat /\ h \in Nat
        /\ r \in Nat /\ s \in Nat /\ e \in Nat /\ f \in Nat
    BY Shifted
  <2>3. m < n \/ (m = n /\ r < s)
    BY Digits
  <2>4. m < n => a < b \/ (a = b /\ e < f)
    <3>1. m \in Nat /\ n \in Nat /\ a = (m \div 64) /\ b = (n \div 64)
      BY Shifted
    <3> HIDE DEF m, n
    <3> QED BY <3>1, Digits
  <2>5. m = n => a = b /\ e = f
    <3>1. a = (m \div 64) /\ b = (n \div 64)
      BY Shifted
    <3> HIDE DEF m, n
    <3> QED BY <3>1
  <2>6. a < b => p < q \/ (p = q /\ g < h)
    <3>1. a \in Nat /\ b \in Nat /\ p = (a \div 64) /\ q = (b \div 64)
      BY Shifted
    <3> HIDE DEF a, b
    <3> QED BY <3>1, Digits
  <2>7. a = b => p = q /\ g = h
    <3>1. p = (a \div 64) /\ q = (b \div 64)
      BY Shifted
    <3> HIDE DEF a, b
    <3> QED BY <3>1
  <2> HIDE DEF x, y, p, q, a, b, m, n, e, f, g, h, r, s
  <2>8. \/ p < q
        \/ p = q /\ g < h
        \/ p = q /\ g = h /\ e < f
        \/ p = q /\ g = h /\ e = f /\ r < s
    BY <2>3, <2>4, <2>5, <2>6, <2>7
  <2>9. CASE p < q
    <3>1. 0 < Len(x) /\ Settles(x, y, 0)
      BY <2>1, <2>2, <2>9 DEF Settles
    <3> QED BY <3>1 DEF x, y
  <2>10. CASE p = q /\ g < h
    <3>1. 1 < Len(x) /\ Settles(x, y, 1)
      BY <2>1, <2>2, <2>10 DEF Settles
    <3> QED BY <3>1 DEF x, y
  <2>11. CASE p = q /\ g = h /\ e < f
    <3>1. 2 < Len(x) /\ Settles(x, y, 2)
      BY <2>1, <2>2, <2>11 DEF Settles
    <3> QED BY <3>1 DEF x, y
  <2>12. CASE p = q /\ g = h /\ e = f /\ r < s
    <3>1. 3 < Len(x) /\ Settles(x, y, 3)
      BY <2>1, <2>2, <2>12 DEF Settles
    <3> QED BY <3>1 DEF x, y
  <2> QED BY <2>8, <2>9, <2>10, <2>11, <2>12
<1>7. \/ x[1] < y[1] \/ (c >= 128 /\ d < 2048) \/ (c >= 2048 /\ d < 65536) \/ c >= 65536
  <2>1. /\ c < 128 => x[1] = c
        /\ c >= 128 /\ c < 2048 => x[1] \in 194..223
        /\ c >= 2048 /\ c < 65536 => x[1] \in 224..239
    BY Utf8Type
  <2>2. /\ d < 128 => y[1] = d
        /\ d >= 128 /\ d < 2048 => y[1] \in 194..223
        /\ d >= 2048 /\ d < 65536 => y[1] \in 224..239
        /\ d >= 65536 => y[1] \in 240..244
    BY Utf8Type
  <2> HIDE DEF x, y
  <2> QED BY <2>1, <2>2
<1> QED BY <1>3, <1>4, <1>5, <1>6, <1>7

\* Byte order of UTF-8 is the order of the code points.
LEMMA TextMembers ==
  ASSUME NEW a, IsText(a)
  PROVE  /\ a \in Seq(Nat) /\ Len(a) \in Nat /\ DOMAIN a = 1..Len(a)
         /\ \A i \in 1..Len(a) : a[i] \in Nat /\ IsPoint(a[i])
<1>1. a \in Seq(Nat) /\ \A i \in DOMAIN a : IsPoint(a[i])
  BY DEF IsText
<1> QED BY <1>1

LEMMA Utf8Pieces ==
  ASSUME NEW a, IsText(a)
  PROVE  \E s \in Seq(Seq(Nat)) :
           /\ Utf8(a) = FlattenSeq(s) /\ Len(s) = Len(a)
           /\ \A i \in 1..Len(a) : s[i] = Utf8Bytes(a[i])
<1> DEFINE s == [i \in 1..Len(a) |-> Utf8Bytes(a[i])]
<1>1. Len(a) \in Nat /\ DOMAIN a = 1..Len(a)
  BY TextMembers
<1>2. \A i \in 1..Len(a) : Utf8Bytes(a[i]) \in Seq(Nat)
  BY TextMembers, Utf8Type
<1>3. s \in Seq(Seq(Nat)) /\ Len(s) = Len(a)
  BY <1>1, <1>2
<1>4. Utf8(a) = FlattenSeq(s)
  BY <1>1 DEF Utf8
<1> QED BY <1>3, <1>4

LEMMA Utf8IsSeq == ASSUME NEW a, IsText(a) PROVE Utf8(a) \in Seq(Nat)
BY Utf8Pieces, FlattenType

LEMMA BytesFollowPoints ==
  ASSUME NEW a, NEW b, IsText(a), IsText(b), LexBefore(a, b)
  PROVE  CompareUtf8(a, b)
<1>1. /\ a \in Seq(Nat) /\ Len(a) \in Nat /\ b \in Seq(Nat) /\ Len(b) \in Nat
  BY TextMembers
<1>2. PICK n \in Nat : Settles(a, b, n)
  BY <1>1, LexBeforeSettles
<1>3. PICK s \in Seq(Seq(Nat)) :
           /\ Utf8(a) = FlattenSeq(s) /\ Len(s) = Len(a)
           /\ \A i \in 1..Len(a) : s[i] = Utf8Bytes(a[i])
  BY Utf8Pieces
<1>4. PICK t \in Seq(Seq(Nat)) :
           /\ Utf8(b) = FlattenSeq(t) /\ Len(t) = Len(b)
           /\ \A i \in 1..Len(b) : t[i] = Utf8Bytes(b[i])
  BY Utf8Pieces
<1>5. n <= Len(a) /\ n < Len(b)
  BY <1>2 DEF Settles
<1>6. AgreeTo(s, t, n)
  <2>1. SUFFICES ASSUME NEW i \in 1..n PROVE s[i] = t[i]
    BY DEF AgreeTo
  <2>2. i \in 1..Len(a) /\ i \in 1..Len(b)
    BY <1>1, <1>5
  <2>3. a[i] = b[i]
    BY <1>2 DEF Settles
  <2> QED BY <1>3, <1>4, <2>2, <2>3
<1>7. CASE n < Len(a)
  <2> DEFINE d == n + 1
  <2>1. d \in 1..Len(s) /\ d \in 1..Len(t) /\ d - 1 = n /\ d \in 1..Len(a) /\ d \in 1..Len(b)
    BY <1>1, <1>3, <1>4, <1>5, <1>7
  <2>2. s[d] = Utf8Bytes(a[d]) /\ t[d] = Utf8Bytes(b[d])
    BY <1>3, <1>4, <2>1
  <2>3. a[d] < b[d]
    BY <1>2, <1>7 DEF Settles
  <2>4. a[d] \in Nat /\ b[d] \in Nat /\ IsPoint(a[d]) /\ IsPoint(b[d])
    BY <2>1, TextMembers
  <2> HIDE DEF d
  <2>5. PICK k \in Nat : k < Len(s[d]) /\ Settles(s[d], t[d], k)
    BY <2>2, <2>3, <2>4, Utf8Settles
  <2>6. AgreeTo(s, t, d - 1)
    BY <1>6, <2>1
  <2>7. LexBefore(FlattenSeq(s), FlattenSeq(t))
    BY <2>1, <2>5, <2>6, PiecesSettle
  <2> QED BY <1>3, <1>4, <2>7 DEF CompareUtf8
<1>8. CASE n = Len(a)
  <2>1. Len(s) < Len(t) /\ AgreeTo(s, t, Len(s)) /\ Len(s) + 1 \in 1..Len(b)
    BY <1>1, <1>3, <1>4, <1>5, <1>6, <1>8
  <2>2. t[Len(s) + 1] = Utf8Bytes(b[Len(s) + 1])
    BY <1>4, <2>1
  <2>3. Len(t[Len(s) + 1]) # 0
    <3>1. b[Len(s) + 1] \in Nat /\ IsPoint(b[Len(s) + 1])
      BY <2>1, TextMembers
    <3>2. Len(Utf8Bytes(b[Len(s) + 1])) \in Nat \ {0}
      BY <3>1, Utf8Type
    <3> QED BY <2>2, <3>2
  <2>4. LexBefore(FlattenSeq(s), FlattenSeq(t))
    BY <2>1, <2>3, PiecesPrefix
  <2> QED BY <1>3, <1>4, <2>4 DEF CompareUtf8
<1> QED BY <1>1, <1>5, <1>7, <1>8

\* compareUtf8's order of the bytes, stated without them.
THEOREM CompareUtf8IsPointOrder ==
  ASSUME NEW a, NEW b, IsText(a), IsText(b)
  PROVE  CompareUtf8(a, b) <=> LexBefore(a, b)
<1>1. a \in Seq(Nat) /\ b \in Seq(Nat)
  BY TextMembers
<1> DEFINE u == Utf8(a)  w == Utf8(b)
<1>2. u \in Seq(Nat) /\ w \in Seq(Nat)
  BY Utf8IsSeq
<1>3. ASSUME CompareUtf8(a, b) PROVE LexBefore(a, b)
  <2>1. LexBefore(u, w)
    BY <1>3 DEF CompareUtf8
  <2>2. a # b
    <3>1. u = w => FALSE
      <4> HIDE DEF u, w
      <4> QED BY <1>2, <2>1, LexIrreflexive
    <3> QED BY <3>1
  <2>3. ASSUME LexBefore(b, a) PROVE FALSE
    <3>1. LexBefore(w, u)
      BY <2>3, BytesFollowPoints DEF CompareUtf8
    <3> HIDE DEF u, w
    <3>2. LexBefore(u, u)
      BY <1>2, <2>1, <3>1, LexTransitive
    <3> QED BY <1>2, <3>2, LexIrreflexive
  <2> QED BY <1>1, <2>2, <2>3, LexTotal
<1> QED BY <1>3, BytesFollowPoints

-----------------------------------------------------------------------------
(* UTF-16, where what differs first is ASCII.                              *)

LEMMA Utf16Type == ASSUME NEW c \in Nat PROVE Utf16Units(c) \in Seq(Nat)
<1>1. CASE c < 65536
  BY <1>1, SMT DEF Utf16Units
<1>2. CASE ~(c < 65536)
  <2>1. ((c - 65536) \div 1024) \in Nat /\ ((c - 65536) % 1024) \in Nat
    BY <1>2, SMT
  <2>2. Utf16Units(c) = <<55296 + ((c - 65536) \div 1024), 56320 + ((c - 65536) % 1024)>>
    BY <1>2, SMT DEF Utf16Units
  <2> DEFINE a == (c - 65536) \div 1024  b == (c - 65536) % 1024
  <2>3. a \in Nat /\ b \in Nat /\ Utf16Units(c) = <<55296 + a, 56320 + b>>
    BY <2>1, <2>2, SMT
  <2> HIDE DEF a, b
  <2> QED BY <2>3, SMT
<1> QED BY <1>1, <1>2

LEMMA Utf16Ascii == ASSUME NEW c \in Nat, c < 128 PROVE Utf16Units(c) = <<c>>
BY SMT DEF Utf16Units

LEMMA Utf16Pieces ==
  ASSUME NEW a, IsText(a)
  PROVE  \E s \in Seq(Seq(Nat)) :
           /\ Utf16(a) = FlattenSeq(s) /\ Len(s) = Len(a)
           /\ \A i \in 1..Len(a) : s[i] = Utf16Units(a[i])
<1> DEFINE s == [i \in 1..Len(a) |-> Utf16Units(a[i])]
<1>1. Len(a) \in Nat /\ DOMAIN a = 1..Len(a)
  BY TextMembers
<1>2. \A i \in 1..Len(a) : Utf16Units(a[i]) \in Seq(Nat)
  BY TextMembers, Utf16Type
<1>3. s \in Seq(Seq(Nat)) /\ Len(s) = Len(a)
  BY <1>1, <1>2
<1>4. Utf16(a) = FlattenSeq(s)
  BY <1>1 DEF Utf16
<1> QED BY <1>3, <1>4

LEMMA Utf16IsSeq == ASSUME NEW a, IsText(a) PROVE Utf16(a) \in Seq(Nat)
BY Utf16Pieces, FlattenType

\* Texts that differ first by two ASCII characters.
DifferInAscii(a, b, n) ==
  /\ n < Len(a) /\ n < Len(b) /\ AgreeTo(a, b, n)
  /\ a[n + 1] < b[n + 1] /\ b[n + 1] < 128

LEMMA UnitsFollowPoints ==
  ASSUME NEW a, NEW b, IsText(a), IsText(b), NEW n \in Nat, DifferInAscii(a, b, n)
  PROVE  UnitsBefore(a, b) /\ LexBefore(a, b)
<1>1. /\ a \in Seq(Nat) /\ Len(a) \in Nat /\ b \in Seq(Nat) /\ Len(b) \in Nat
  BY TextMembers
<1>2. Settles(a, b, n)
  BY <1>1 DEF DifferInAscii, AgreeTo, Settles
<1>3. PICK s \in Seq(Seq(Nat)) :
           /\ Utf16(a) = FlattenSeq(s) /\ Len(s) = Len(a)
           /\ \A i \in 1..Len(a) : s[i] = Utf16Units(a[i])
  BY Utf16Pieces
<1>4. PICK t \in Seq(Seq(Nat)) :
           /\ Utf16(b) = FlattenSeq(t) /\ Len(t) = Len(b)
           /\ \A i \in 1..Len(b) : t[i] = Utf16Units(b[i])
  BY Utf16Pieces
<1>5. n < Len(a) /\ n < Len(b)
  BY DEF DifferInAscii
<1>6. AgreeTo(s, t, n)
  <2>1. SUFFICES ASSUME NEW i \in 1..n PROVE s[i] = t[i]
    BY DEF AgreeTo
  <2>2. i \in 1..Len(a) /\ i \in 1..Len(b)
    BY <1>1, <1>5
  <2>3. a[i] = b[i]
    BY <1>2 DEF Settles
  <2> QED BY <1>3, <1>4, <2>2, <2>3
<1> DEFINE d == n + 1
<1>7. d \in 1..Len(s) /\ d \in 1..Len(t) /\ d - 1 = n /\ d \in 1..Len(a) /\ d \in 1..Len(b)
  BY <1>1, <1>3, <1>4, <1>5
<1>8. a[d] < b[d] /\ b[d] < 128
  BY DEF DifferInAscii
<1> HIDE DEF d
<1>9. a[d] \in Nat /\ b[d] \in Nat
  BY <1>7, TextMembers
<1>10. s[d] = <<a[d]>> /\ t[d] = <<b[d]>>
  <2>1. a[d] < 128
    BY <1>8, <1>9
  <2>2. s[d] = Utf16Units(a[d]) /\ t[d] = Utf16Units(b[d])
    BY <1>3, <1>4, <1>7
  <2> QED BY <1>8, <1>9, <2>1, <2>2, Utf16Ascii
<1>11. 0 < Len(s[d]) /\ Settles(s[d], t[d], 0)
  BY <1>8, <1>9, <1>10 DEF Settles
<1>12. AgreeTo(s, t, d - 1)
  BY <1>6, <1>7
<1>13. LexBefore(FlattenSeq(s), FlattenSeq(t))
  BY <1>7, <1>11, <1>12, PiecesSettle
<1> QED BY <1>1, <1>2, <1>3, <1>4, <1>13, LexBeforeSettles DEF UnitsBefore

\* There, both orders are the order of code points.
LEMMA AsciiDecides ==
  ASSUME NEW a, NEW b, IsText(a), IsText(b), NEW n \in Nat, DifferInAscii(a, b, n)
  PROVE  /\ UnitsBefore(a, b) /\ CompareUtf8(a, b)
         /\ ~UnitsBefore(b, a) /\ ~CompareUtf8(b, a)
<1>1. UnitsBefore(a, b) /\ LexBefore(a, b) /\ a \in Seq(Nat) /\ b \in Seq(Nat)
  BY UnitsFollowPoints, TextMembers
<1> DEFINE u == Utf16(a)  w == Utf16(b)
<1>2. u \in Seq(Nat) /\ w \in Seq(Nat) /\ LexBefore(u, w)
  BY <1>1, Utf16IsSeq DEF UnitsBefore
<1>3. ~LexBefore(w, u)
  <2> HIDE DEF u, w
  <2> QED BY <1>2, LexTransitive, LexIrreflexive
<1>4. ~LexBefore(b, a)
  BY <1>1, LexTransitive, LexIrreflexive
<1> QED BY <1>1, <1>3, <1>4, CompareUtf8IsPointOrder DEF UnitsBefore

-----------------------------------------------------------------------------
(* Sorting.                                                                *)

StrictOrder(S, before) ==
  /\ \A x \in S : <<x, x>> \notin before
  /\ \A x \in S : \A y \in S : \A z \in S :
       <<x, y>> \in before /\ <<y, z>> \in before => <<x, z>> \in before
  /\ \A x \in S : \A y \in S : x # y => <<x, y>> \in before \/ <<y, x>> \in before

RankIn(S, before, x) == Cardinality({y \in S : <<y, x>> \in before})

LEMMA RankBelow ==
  ASSUME NEW S, IsFiniteSet(S), NEW before, StrictOrder(S, before), NEW x \in S
  PROVE  RankIn(S, before, x) \in 0..(Cardinality(S) - 1)
<1> DEFINE T == {y \in S : <<y, x>> \in before}  R == S \ {x}
<1>1. T \in SUBSET R
  BY DEF StrictOrder
<1>2. IsFiniteSet(R) /\ Cardinality(R) = Cardinality(S) - 1
  BY FS_RemoveElement
<1>3. IsFiniteSet(T) /\ Cardinality(T) <= Cardinality(R)
  <2> HIDE DEF T, R
  <2> QED BY <1>1, <1>2, FS_Subset
<1>4. Cardinality(T) \in Nat /\ Cardinality(S) \in Nat /\ Cardinality(R) \in Nat
  <2> HIDE DEF T, R
  <2> QED BY <1>2, <1>3, FS_CardinalityType
<1> QED BY <1>2, <1>3, <1>4 DEF RankIn

LEMMA RankRises ==
  ASSUME NEW S, IsFiniteSet(S), NEW before, StrictOrder(S, before),
         NEW x \in S, NEW z \in S, <<x, z>> \in before
  PROVE  RankIn(S, before, x) < RankIn(S, before, z)
<1> DEFINE T == {y \in S : <<y, x>> \in before}  U == {y \in S : <<y, z>> \in before}
<1>1. T \in SUBSET U /\ x \in U /\ x \notin T /\ U \in SUBSET S
  BY DEF StrictOrder
<1> HIDE DEF T, U
<1>2. IsFiniteSet(U)
  BY <1>1, FS_Subset
<1>3. IsFiniteSet(T) /\ Cardinality(T) <= Cardinality(U)
      /\ (Cardinality(U) = Cardinality(T) => U = T)
  BY <1>1, <1>2, FS_Subset
<1>4. Cardinality(T) \in Nat /\ Cardinality(U) \in Nat
  BY <1>2, <1>3, FS_CardinalityType
<1>5. Cardinality(T) < Cardinality(U)
  BY <1>1, <1>3, <1>4
<1> QED BY <1>5 DEF RankIn, T, U

\* Every rank is taken once.
LEMMA RankTaken ==
  ASSUME NEW S, IsFiniteSet(S), NEW before, StrictOrder(S, before),
         NEW i \in 1..Cardinality(S)
  PROVE  \E x \in S : RankIn(S, before, x) = i - 1
<1> DEFINE n == Cardinality(S)
           rank == [x \in S |-> RankIn(S, before, x)]
<1>1. n \in Nat /\ n # 0
  BY FS_CardinalityType
<1>2. rank \in [S -> 0..(n - 1)]
  BY RankBelow
<1>3. \A x \in S : \A y \in S : rank[x] = rank[y] => x = y
  <2>1. SUFFICES ASSUME NEW x \in S, NEW y \in S, x # y PROVE rank[x] # rank[y]
    OBVIOUS
  <2>2. <<x, y>> \in before \/ <<y, x>> \in before
    BY <2>1 DEF StrictOrder
  <2>3. rank[x] \in 0..(n - 1) /\ rank[y] \in 0..(n - 1)
    BY <1>2
  <2>4. rank[x] < rank[y] \/ rank[y] < rank[x]
    BY <2>2, RankRises
  <2> HIDE DEF rank
  <2> QED BY <1>1, <2>3, <2>4
<1>4. IsFiniteSet(0..(n - 1)) /\ Cardinality(0..(n - 1)) = n
  <2> HIDE DEF n
  <2>1. 0 \in Int /\ n - 1 \in Int
    BY <1>1
  <2> QED BY <1>1, <2>1, FS_Interval
<1> DEFINE T == 0..(n - 1)
<1>5. rank \in Surjection(S, T)
  <2>1. rank \in Injection(S, T)
    BY <1>2, <1>3 DEF Injection, IsInjective
  <2>2. IsFiniteSet(T) /\ Cardinality(S) = Cardinality(T)
    BY <1>4
  <2> HIDE DEF rank, T, n
  <2> QED BY <2>1, <2>2, FS_Injection
<1>6. i - 1 \in T
  BY <1>1
<1>7. \E x \in S : rank[x] = i - 1
  <2> HIDE DEF rank
  <2> QED BY <1>5, <1>6 DEF Surjection
<1> QED BY <1>7

\* InOrder makes a sequence of the set, each member once and in order.
THEOREM InOrderSorts ==
  ASSUME NEW S, IsFiniteSet(S), NEW before, StrictOrder(S, before)
  PROVE  /\ InOrder(S, before) \in Seq(S)
         /\ Len(InOrder(S, before)) = Cardinality(S)
         /\ \A x \in S : \E i \in 1..Cardinality(S) : InOrder(S, before)[i] = x
         /\ \A i \in 1..Cardinality(S) : RankIn(S, before, InOrder(S, before)[i]) = i - 1
<1> DEFINE n == Cardinality(S)  s == InOrder(S, before)
<1>1. n \in Nat
  BY FS_CardinalityType
<1>2. s = [i \in 1..n |-> CHOOSE x \in S : RankIn(S, before, x) = i - 1]
  BY DEF InOrder, RankIn
<1>3. \A i \in 1..n : s[i] \in S /\ RankIn(S, before, s[i]) = i - 1
  <2>1. SUFFICES ASSUME NEW i \in 1..n PROVE s[i] \in S /\ RankIn(S, before, s[i]) = i - 1
    OBVIOUS
  <2>2. s[i] = CHOOSE x \in S : RankIn(S, before, x) = i - 1
    BY <1>2
  <2>3. \E x \in S : RankIn(S, before, x) = i - 1
    BY RankTaken
  <2> HIDE DEF s
  <2> QED BY <2>2, <2>3, Zenon
<1>4. s \in Seq(S) /\ Len(s) = n
  <2>1. s \in [1..n -> S]
    <3> HIDE DEF s
    <3> QED BY <1>2, <1>3
  <2> HIDE DEF s, n
  <2> QED BY <1>1, <2>1
<1>5. ASSUME NEW x \in S PROVE \E i \in 1..n : s[i] = x
  <2> DEFINE r == RankIn(S, before, x)
  <2>1. r \in 0..(n - 1)
    BY RankBelow
  <2>2. r + 1 \in 1..n /\ (r + 1) - 1 = r
    <3> HIDE DEF r, n
    <3> QED BY <1>1, <2>1
  <2>3. s[r + 1] \in S /\ RankIn(S, before, s[r + 1]) = r
    BY <1>3, <2>2
  <2>4. s[r + 1] = x
    <3> DEFINE y == s[r + 1]
    <3>1. y \in S /\ RankIn(S, before, y) = r /\ r \in Int
      BY <2>1, <2>3
    <3> HIDE DEF y
    <3>2. ASSUME y # x PROVE FALSE
      <4>1. <<x, y>> \in before \/ <<y, x>> \in before
        BY <3>1, <3>2 DEF StrictOrder
      <4>2. r < RankIn(S, before, y) \/ RankIn(S, before, y) < r
        BY <3>1, <4>1, RankRises
      <4> HIDE DEF r
      <4> QED BY <3>1, <4>2
    <3> QED BY <3>2 DEF y
  <2> QED BY <2>2, <2>4
<1> QED BY <1>3, <1>4, <1>5

-----------------------------------------------------------------------------
(* Sequences that start with a mark they do not contain can be told apart  *)
(* when they are flattened.                                                *)

Marked(s, m) ==
  \A i \in 1..Len(s) :
    Len(s[i]) # 0 /\ s[i][1] = m /\ \A k \in 2..Len(s[i]) : s[i][k] # m

\* After a piece comes the end or a mark.
EndsAt(u, p, m) == p = Len(u) \/ (p < Len(u) /\ u[p + 1] = m)

LEMMA PieceEnds ==
  ASSUME NEW s \in Seq(Seq(Nat)), NEW m, Marked(s, m), NEW f, Gathers(f, s),
         FlattenSeq(s) = f[Len(s)], NEW d \in 1..Len(s)
  PROVE  EndsAt(FlattenSeq(s), Len(Ahead(f, d)) + Len(s[d]), m)
<1> DEFINE pre == Ahead(f, d)  x == s[d]  v == f[d]  u == FlattenSeq(s)
<1>1. Len(s) \in Nat /\ Len(s) # 0 /\ x \in Seq(Nat)
  OBVIOUS
<1>2. pre \in Seq(Nat) /\ v = pre \o x
  BY <1>1, GathersAhead
<1>3. Len(v) = Len(pre) + Len(x)
  <2> HIDE DEF pre, x, v
  <2> QED BY <1>1, <1>2, ConcatParts
<1>4. CASE d = Len(s)
  <2>1. u = v
    BY <1>4
  <2> HIDE DEF pre, x, v, u
  <2>2. EndsAt(u, Len(pre) + Len(x), m)
    BY <1>3, <2>1 DEF EndsAt
  <2> QED BY <2>2 DEF pre, x, u
<1>5. CASE d # Len(s)
  <2>1. PICK e \in 1..Len(s) : e = d + 1
    BY <1>1, <1>5
  <2> DEFINE y == s[e]
  <2>2. Ahead(f, e) = v
    <3>1. e # 1 /\ e - 1 = d
      BY <2>1
    <3> QED BY <3>1 DEF Ahead
  <2>3. Continues(u, Len(v), y)
    BY <2>2, FlattenAt
  <2>4. Len(y) # 0 /\ y[1] = m /\ y \in Seq(Nat)
    BY DEF Marked
  <2>5. Len(v) \in Nat /\ Len(u) \in Nat /\ Len(y) \in Nat
    <3>1. u \in Seq(Nat) /\ v \in Seq(Nat)
      BY <1>1, FlattenType, GathersSeq
    <3> QED BY <2>4, <3>1, SMTT(60)
  <2> HIDE DEF pre, x, v, u, y
  <2>6. Len(v) + Len(y) <= Len(u) /\ u[Len(v) + 1] = y[1]
    <3>1. 1 \in 1..Len(y)
      BY <2>4, <2>5
    <3> QED BY <2>3, <3>1 DEF Continues
  <2>7. EndsAt(u, Len(v), m)
    BY <2>4, <2>5, <2>6 DEF EndsAt
  <2> QED BY <1>3, <2>7 DEF pre, x, u
<1> QED BY <1>4, <1>5

LEMMA NotShorter ==
  ASSUME NEW u, NEW p \in Nat, NEW x \in Seq(Nat), NEW y \in Seq(Nat), NEW m,
         Len(u) \in Nat, Len(x) # 0, Continues(u, p, y), EndsAt(u, p + Len(x), m),
         \A k \in 2..Len(y) : y[k] # m
  PROVE  ~(Len(x) < Len(y))
<1>1. Len(x) \in Nat /\ Len(y) \in Nat
  OBVIOUS
<1>2. ASSUME Len(x) < Len(y) PROVE FALSE
  <2>1. p + Len(y) <= Len(u)
    BY DEF Continues
  <2> DEFINE a == Len(x)  b == Len(y)  c == Len(u)
  <2>2. a \in Nat /\ b \in Nat /\ c \in Nat /\ a < b /\ p + b <= c /\ a # 0
    BY <1>1, <1>2, <2>1
  <2>3. p + a # c
    <3> HIDE DEF a, b, c
    <3> QED BY <2>2
  <2>4. u[(p + a) + 1] = m
    BY <2>3 DEF EndsAt
  <2>5. a + 1 \in 2..Len(y) /\ a + 1 \in 1..Len(y) /\ (p + a) + 1 = p + (a + 1)
    BY <1>1, <1>2
  <2>6. u[p + (a + 1)] = y[a + 1]
    <3> HIDE DEF a
    <3> QED BY <2>5 DEF Continues
  <2> QED BY <2>4, <2>5, <2>6
<1> QED BY <1>2

LEMMA MarkedPrefix ==
  ASSUME NEW s \in Seq(Seq(Nat)), NEW t \in Seq(Seq(Nat)), NEW m, Marked(t, m),
         FlattenSeq(s) = FlattenSeq(t), AgreeTo(s, t, Len(s))
  PROVE  ~(Len(s) < Len(t))
<1>1. ASSUME Len(s) < Len(t) PROVE FALSE
  <2>1. Len(s) + 1 \in 1..Len(t)
    BY <1>1
  <2>2. Len(t[Len(s) + 1]) # 0
    BY <2>1 DEF Marked
  <2>3. LexBefore(FlattenSeq(s), FlattenSeq(t))
    BY <1>1, <2>2, PiecesPrefix
  <2>4. FlattenSeq(t) \in Seq(Nat)
    BY FlattenType
  <2> DEFINE u == FlattenSeq(t)
  <2>5. u \in Seq(Nat) /\ LexBefore(u, u)
    BY <2>3, <2>4
  <2> HIDE DEF u
  <2> QED BY <2>5, LexIrreflexive
<1> QED BY <1>1

LEMMA MarkedPiece ==
  ASSUME NEW s \in Seq(Seq(Nat)), NEW t \in Seq(Seq(Nat)), NEW m,
         Marked(s, m), Marked(t, m), FlattenSeq(s) = FlattenSeq(t),
         NEW d \in 1..Len(s), d \in 1..Len(t), AgreeTo(s, t, d - 1)
  PROVE  s[d] = t[d]
<1>1. /\ Len(s) \in Nat \ {0} /\ Len(t) \in Nat \ {0} /\ d \in Nat \ {0}
      /\ d <= Len(s) + 1 /\ d <= Len(t) + 1
  OBVIOUS
<1>2. PICK f : Gathers(f, s) /\ FlattenSeq(s) = f[Len(s)]
  BY <1>1, FlattenGathers
<1>3. PICK g : Gathers(g, t) /\ FlattenSeq(t) = g[Len(t)]
  BY <1>1, FlattenGathers
<1>4. Ahead(f, d) = Ahead(g, d)
  BY <1>1, <1>2, <1>3, GathersAlike
<1> DEFINE pre == Ahead(f, d)  u == FlattenSeq(s)  p == Len(pre)  x == s[d]  y == t[d]
<1>5. pre \in Seq(Nat) /\ Continues(u, p, x)
  BY <1>2, FlattenAt
<1>6. Continues(u, p, y)
  <2>1. Continues(FlattenSeq(t), Len(Ahead(g, d)), t[d])
    BY <1>3, FlattenAt
  <2> QED BY <1>4, <2>1
<1>7. EndsAt(u, p + Len(x), m)
  BY <1>2, PieceEnds
<1>8. EndsAt(u, p + Len(y), m)
  <2>1. EndsAt(FlattenSeq(t), Len(Ahead(g, d)) + Len(t[d]), m)
    BY <1>3, PieceEnds
  <2> QED BY <1>4, <2>1
<1>9. u \in Seq(Nat) /\ x \in Seq(Nat) /\ y \in Seq(Nat)
  BY FlattenType
<1>10. /\ Len(x) # 0 /\ \A k \in 2..Len(x) : x[k] # m
       /\ Len(y) # 0 /\ \A k \in 2..Len(y) : y[k] # m
  BY DEF Marked
<1>11. p \in Nat /\ Len(u) \in Nat /\ Len(x) \in Nat /\ Len(y) \in Nat
  BY <1>5, <1>9
<1> HIDE DEF u, p, x, y, pre
<1>12. ~(Len(x) < Len(y))
  BY <1>6, <1>7, <1>9, <1>10, <1>11, NotShorter
<1>13. ~(Len(y) < Len(x))
  BY <1>5, <1>8, <1>9, <1>10, <1>11, NotShorter
<1>14. Len(x) = Len(y)
  BY <1>11, <1>12, <1>13
<1>15. ASSUME NEW k \in 1..Len(x) PROVE x[k] = y[k]
  <2>1. u[p + k] = x[k]
    BY <1>5 DEF Continues
  <2>2. u[p + k] = y[k]
    BY <1>6, <1>14 DEF Continues
  <2> QED BY <2>1, <2>2
<1>16. x = y
  BY <1>9, <1>14, <1>15, SeqEqual
<1> QED BY <1>16 DEF x, y

LEMMA MarkedSplit ==
  ASSUME NEW s \in Seq(Seq(Nat)), NEW t \in Seq(Seq(Nat)), NEW m,
         Marked(s, m), Marked(t, m), FlattenSeq(s) = FlattenSeq(t)
  PROVE  s = t
<1>1. SUFFICES ASSUME s # t PROVE FALSE
  OBVIOUS
<1>2. Len(s) \in Nat /\ Len(t) \in Nat
  OBVIOUS
<1> DEFINE S == Seq(Nat)
<1>3. s \in Seq(S) /\ t \in Seq(S)
  OBVIOUS
<1> HIDE DEF S
<1>4. PICK n \in Nat : /\ n <= Len(s) /\ n <= Len(t)
                       /\ \A i \in 1..n : s[i] = t[i]
                       /\ \/ n = Len(s) /\ n < Len(t)
                          \/ n = Len(t) /\ n < Len(s)
                          \/ n < Len(s) /\ n < Len(t) /\ s[n + 1] # t[n + 1]
  BY <1>1, <1>3, FirstDifference
<1>5. AgreeTo(s, t, n) /\ AgreeTo(t, s, n)
  BY <1>4 DEF AgreeTo
<1>6. CASE n = Len(s) /\ n < Len(t)
  BY <1>5, <1>6, MarkedPrefix
<1>7. CASE n = Len(t) /\ n < Len(s)
  BY <1>5, <1>7, MarkedPrefix
<1>8. CASE n < Len(s) /\ n < Len(t) /\ s[n + 1] # t[n + 1]
  <2>1. PICK d \in 1..Len(s) : d = n + 1
    BY <1>2, <1>8
  <2>2. d \in 1..Len(t) /\ d - 1 = n
    BY <1>2, <1>8, <2>1
  <2>3. AgreeTo(s, t, d - 1)
    BY <1>5, <2>2
  <2>4. s[d] = t[d]
    BY <2>2, <2>3, MarkedPiece
  <2> QED BY <1>8, <2>1, <2>4
<1>9. \/ n = Len(s) /\ n < Len(t)
      \/ n = Len(t) /\ n < Len(s)
      \/ n < Len(s) /\ n < Len(t) /\ s[n + 1] # t[n + 1]
  BY <1>4
<1> QED BY <1>6, <1>7, <1>8, <1>9

Arranges(s, S) == s \in Seq(S) /\ \A x \in S : \E i \in 1..Len(s) : s[i] = x

Increasing(s, before) ==
  \A i \in 1..Len(s) : \A j \in 1..Len(s) : i < j => <<s[i], s[j]>> \in before

LEMMA InOrderIncreases ==
  ASSUME NEW S, IsFiniteSet(S), NEW before, StrictOrder(S, before)
  PROVE  /\ Arranges(InOrder(S, before), S)
         /\ Increasing(InOrder(S, before), before)
<1> DEFINE s == InOrder(S, before)  n == Cardinality(S)
<1>1. /\ s \in Seq(S) /\ Len(s) = n
      /\ \A x \in S : \E i \in 1..n : s[i] = x
      /\ \A i \in 1..n : RankIn(S, before, s[i]) = i - 1
  BY InOrderSorts
<1> HIDE DEF s, n
<1>2. Arranges(s, S)
  BY <1>1 DEF Arranges
<1>3. ASSUME NEW i \in 1..Len(s), NEW j \in 1..Len(s), i < j
      PROVE  <<s[i], s[j]>> \in before
  <2>1. /\ s[i] \in S /\ s[j] \in S
        /\ RankIn(S, before, s[i]) = i - 1 /\ RankIn(S, before, s[j]) = j - 1
    BY <1>1
  <2>2. s[i] # s[j]
    BY <1>3, <2>1
  <2>3. CASE <<s[j], s[i]>> \in before
    <3>1. RankIn(S, before, s[j]) < RankIn(S, before, s[i])
      BY <2>1, <2>3, RankRises
    <3> QED BY <1>3, <2>1, <3>1
  <2> QED BY <2>1, <2>2, <2>3 DEF StrictOrder
<1>4. Increasing(s, before)
  BY <1>3 DEF Increasing
<1> QED BY <1>2, <1>4 DEF s

LEMMA IncreasingRanks ==
  ASSUME NEW S, NEW before, StrictOrder(S, before),
         NEW s, Arranges(s, S), Increasing(s, before), NEW i \in 1..Len(s)
  PROVE  RankIn(S, before, s[i]) = i - 1
<1> DEFINE T == {y \in S : <<y, s[i]>> \in before}  J == 1..(i - 1)
           f == [j \in J |-> s[j]]
<1>1. s \in Seq(S) /\ Len(s) \in Nat /\ \A j \in 1..Len(s) : s[j] \in S
  BY DEF Arranges
<1>2. \A j \in J : j \in 1..Len(s) /\ j < i
  BY <1>1
<1>3. f \in [J -> T]
  <2>1. \A j \in J : s[j] \in T
    BY <1>1, <1>2 DEF Increasing
  <2> HIDE DEF T, J
  <2> QED BY <2>1
<1>4. \A j \in J : \A k \in J : f[j] = f[k] => j = k
  <2>1. SUFFICES ASSUME NEW j \in J, NEW k \in J, j # k PROVE s[j] # s[k]
    OBVIOUS
  <2>2. j < k \/ k < j
    BY <2>1
  <2>3. <<s[j], s[k]>> \in before \/ <<s[k], s[j]>> \in before
    BY <1>2, <2>2 DEF Increasing
  <2> QED BY <1>1, <1>2, <2>3 DEF StrictOrder
<1>5. \A y \in T : \E j \in J : f[j] = y
  <2>1. SUFFICES ASSUME NEW y \in T PROVE \E j \in J : s[j] = y
    OBVIOUS
  <2>2. PICK k \in 1..Len(s) : s[k] = y
    BY DEF Arranges
  <2>3. <<s[k], s[i]>> \in before
    BY <2>2
  <2>4. k # i
    BY <1>1, <2>3 DEF StrictOrder
  <2>5. ~(i < k)
    <3>1. ASSUME i < k PROVE FALSE
      <4>1. <<s[i], s[k]>> \in before
        BY <3>1 DEF Increasing
      <4>2. <<s[i], s[i]>> \in before
        BY <1>1, <2>3, <4>1 DEF StrictOrder
      <4> QED BY <1>1, <4>2 DEF StrictOrder
    <3> QED BY <3>1
  <2>6. k \in J
    BY <2>4, <2>5
  <2> QED BY <2>2, <2>6
<1>6. IsFiniteSet(J) /\ Cardinality(J) = i - 1
  <2>1. 1 \in Int /\ i - 1 \in Int
    OBVIOUS
  <2> QED BY <2>1, FS_Interval
<1> HIDE DEF T, J, f
<1>7. ExistsBijection(J, T)
  <2>1. f \in Bijection(J, T)
    BY <1>3, <1>4, <1>5 DEF Bijection, Injection, IsInjective, Surjection
  <2> QED BY <2>1 DEF ExistsBijection
<1>8. Cardinality(T) = i - 1
  BY <1>6, <1>7, FS_Bijection
<1> QED BY <1>8 DEF RankIn, T

\* There is one increasing arrangement.
LEMMA IncreasingOnce ==
  ASSUME NEW S, IsFiniteSet(S), NEW before, StrictOrder(S, before),
         NEW s, Arranges(s, S), Increasing(s, before),
         NEW t, Arranges(t, S), Increasing(t, before)
  PROVE  s = t
<1>1. /\ s \in Seq(S) /\ Len(s) \in Nat /\ \A j \in 1..Len(s) : s[j] \in S
      /\ t \in Seq(S) /\ Len(t) \in Nat /\ \A j \in 1..Len(t) : t[j] \in S
  BY DEF Arranges
<1>2. \A i \in 1..Len(s) : \A j \in 1..Len(t) : s[i] = t[j] => i = j
  <2>1. SUFFICES ASSUME NEW i \in 1..Len(s), NEW j \in 1..Len(t), s[i] = t[j] PROVE i = j
    OBVIOUS
  <2>2. RankIn(S, before, s[i]) = i - 1 /\ RankIn(S, before, t[j]) = j - 1
    BY IncreasingRanks
  <2>3. i - 1 = j - 1
    BY <2>1, <2>2
  <2> QED BY <2>3
<1>3. ASSUME NEW i \in 1..Len(s) PROVE i \in 1..Len(t) /\ s[i] = t[i]
  <2>1. PICK j \in 1..Len(t) : t[j] = s[i]
    BY <1>1 DEF Arranges
  <2> QED BY <1>2, <2>1
<1>4. ASSUME NEW i \in 1..Len(t) PROVE i \in 1..Len(s)
  <2>1. PICK j \in 1..Len(s) : s[j] = t[i]
    BY <1>1 DEF Arranges
  <2> QED BY <1>2, <2>1
<1>5. Len(s) = Len(t)
  <2> DEFINE a == Len(s)  b == Len(t)
  <2>1. a \in Nat /\ b \in Nat
    BY <1>1
  <2>2. a # 0 => a \in 1..b
    <3>1. a # 0 => a \in 1..a
      BY <2>1
    <3> QED BY <1>3, <3>1
  <2>3. b # 0 => b \in 1..a
    <3>1. b # 0 => b \in 1..b
      BY <2>1
    <3> QED BY <1>4, <3>1
  <2> HIDE DEF a, b
  <2>4. a = b
    BY <2>1, <2>2, <2>3
  <2> QED BY <2>4 DEF a, b
<1> QED BY <1>1, <1>3, <1>5, SeqEqual
=============================================================================
