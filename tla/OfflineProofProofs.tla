-------------------------- MODULE OfflineProofProofs --------------------------
(***************************************************************************)
(* Proofs about OfflineProof: a fingerprint names one identity and takes   *)
(* one seat; canonical JSON tells two values apart exactly if the server   *)
(* does; a usable key is imported in either encoding; so a proof that      *)
(* verifies binds what it is about, and a genuine one verifies.            *)
(***************************************************************************)
EXTENDS OfflineProof, TextsProofs

-----------------------------------------------------------------------------
(* What the SDK accepts.                                                   *)

LEMMA MinMember ==
  ASSUME NEW S \in SUBSET Nat, S # {}
  PROVE  Min(S) \in S /\ \A y \in S : Min(S) <= y
<1>1. \E x \in S : \A y \in S : x <= y
  BY LeastOf
<1> QED BY <1>1, Zenon DEF Min

LEMMA MaxMember ==
  ASSUME NEW n \in Nat, NEW S \in SUBSET (1..n), S # {}
  PROVE  Max(S) \in S /\ \A y \in S : y <= Max(S)
<1> DEFINE far == {n - x : x \in S}
<1>1. far \in SUBSET Nat /\ far # {}
  <2>1. \A x \in S : n - x \in Nat
    OBVIOUS
  <2>2. PICK x \in S : TRUE
    OBVIOUS
  <2>3. n - x \in far
    OBVIOUS
  <2> QED BY <2>1, <2>3
<1>2. PICK d \in far : \A e \in far : d <= e
  <2> HIDE DEF far
  <2> QED BY <1>1, LeastOf
<1>3. PICK x \in S : d = n - x
  BY <1>2
<1>4. ASSUME NEW y \in S PROVE y <= x
  <2>1. n - y \in far
    OBVIOUS
  <2>2. d <= n - y
    BY <1>2, <2>1
  <2> QED BY <1>3, <2>2
<1>5. \E z \in S : \A y \in S : z >= y
  <2>1. \A y \in S : x >= y
    BY <1>4
  <2> QED BY <2>1
<1>6. Max(S) \in S /\ \A y \in S : Max(S) >= y
  BY <1>5, Zenon DEF Max
<1> QED BY <1>6

LEMMA TrimType ==
  ASSUME NEW text \in Seq(Nat), NEW blanks
  PROVE  /\ Trim(text, blanks) \in Seq(Nat)
         /\ \A i \in 1..Len(Trim(text, blanks)) :
              \E j \in 1..Len(text) : Trim(text, blanks)[i] = text[j]
<1> DEFINE kept == {i \in DOMAIN text : text[i] \notin blanks}
           trimmed == Trim(text, blanks)
<1>1. Len(text) \in Nat /\ DOMAIN text = 1..Len(text)
  OBVIOUS
<1>2. CASE kept = {}
  <2>1. trimmed = <<>>
    BY <1>2 DEF Trim
  <2> HIDE DEF trimmed
  <2> QED BY <2>1 DEF trimmed
<1>3. CASE kept # {}
  <2> DEFINE m == Min(kept)  k == Max(kept)
  <2>1. kept \in SUBSET (1..Len(text)) /\ kept \in SUBSET Nat
    BY <1>1
  <2>2. m \in kept /\ k \in kept
    <3> HIDE DEF kept
    <3> QED BY <1>1, <1>3, <2>1, MinMember, MaxMember
  <2>3. trimmed = SubSeq(text, m, k)
    BY <1>3 DEF Trim
  <2>4. m \in 1..Len(text) /\ k \in 1..Len(text)
    BY <2>1, <2>2
  <2> HIDE DEF kept, m, k, trimmed
  <2>5. trimmed \in Seq(Nat) /\ Len(trimmed) = IF m <= k THEN k - m + 1 ELSE 0
    BY <1>1, <2>3, <2>4, SubSeqProperties
  <2>6. ASSUME NEW i \in 1..Len(trimmed) PROVE \E j \in 1..Len(text) : trimmed[i] = text[j]
    <3>1. m <= k /\ i \in 1..(k - m + 1)
      BY <1>1, <2>4, <2>5
    <3>2. m + i - 1 \in 1..Len(text)
      BY <1>1, <2>4, <3>1
    <3>3. trimmed[i] = text[m + i - 1]
      <4>1. \A j \in 1..(k - m + 1) : SubSeq(text, m, k)[j] = text[m + j - 1]
        BY <1>1, <2>4, <3>1, SubSeqProperties
      <4> QED BY <2>3, <3>1, <4>1
    <3> QED BY <3>2, <3>3
  <2> QED BY <2>5, <2>6 DEF trimmed
<1> QED BY <1>2, <1>3

GoodLabel(l) ==
  l \in Seq(Nat) /\ \A k \in 1..Len(l) : l[k] \in 33..126 /\ l[k] # EQUALS_CODE

Clean(v) == v \in Seq(Nat) /\ \A k \in 1..Len(v) : v[k] # SEPARATOR

Accepted(r) ==
  /\ r \in Seq([label: Seq(Nat), value: Seq(Nat)])
  /\ \A i \in 1..Len(r) :
       /\ GoodLabel(r[i].label)
       /\ IsText(r[i].value)
       /\ Clean(AsciiTrim(r[i].value))
  /\ \A i \in 1..Len(r) : \A j \in 1..Len(r) : r[i].label = r[j].label => i = j

\* A reading the SDK accepts passes every turn of the loop.
LEMMA NoTurnFails ==
  ASSUME NEW r, DOMAIN r \in SUBSET Nat, FingerprintError(r) = "none"
  PROVE  \A i \in DOMAIN r : ComponentError(r, i) = "none"
<1> DEFINE faulty == {i \in DOMAIN r : ComponentError(r, i) # "none"}
<1>1. CASE faulty = {}
  BY <1>1
<1>2. CASE faulty # {}
  <2>1. Min(faulty) \in faulty
    <3>1. faulty \in SUBSET Nat
      OBVIOUS
    <3> HIDE DEF faulty
    <3> QED BY <1>2, <3>1, MinMember
  <2>2. ComponentError(r, Min(faulty)) # "none"
    BY <2>1
  <2>3. FingerprintError(r) = "no-components" \/ FingerprintError(r) = ComponentError(r, Min(faulty))
    BY <1>2 DEF FingerprintError
  <2> QED BY <2>2, <2>3
<1> QED BY <1>1, <1>2

LEMMA LabelPasses ==
  ASSUME NEW l \in Seq(Nat), ValidateLabel(l) = "none"
  PROVE  GoodLabel(l)
<1>1. Range(l) \subseteq 33..126 \ {EQUALS_CODE}
  BY DEF ValidateLabel
<1>2. ASSUME NEW k \in 1..Len(l) PROVE l[k] \in Range(l)
  <2>1. DOMAIN l = 1..Len(l)
    OBVIOUS
  <2> QED BY <2>1 DEF Range
<1> QED BY <1>1, <1>2 DEF GoodLabel

LEMMA ValuePasses ==
  ASSUME NEW v \in Seq(Nat), ValidateTrimmedValue(v) = "none"
  PROVE  Clean(v)
<1>1. Range(v) \cap ASCII_CONTROLS = {}
  BY DEF ValidateTrimmedValue
<1>2. SEPARATOR \in ASCII_CONTROLS
  BY DEF SEPARATOR, ASCII_CONTROLS
<1>3. ASSUME NEW k \in 1..Len(v) PROVE v[k] \in Range(v)
  <2>1. DOMAIN v = 1..Len(v)
    OBVIOUS
  <2> QED BY <2>1 DEF Range
<1> QED BY <1>1, <1>2, <1>3 DEF Clean

LEMMA UsableAccepted ==
  ASSUME NEW r \in Usable
  PROVE  Accepted(r)
<1>1. /\ r \in Seq([label: Seq(Nat), value: Seq(Nat)])
      /\ \A i \in DOMAIN r : IsText(r[i].label) /\ IsText(r[i].value)
      /\ FingerprintError(r) = "none"
  BY ConstantsAssumption DEF Usable
<1>2. Len(r) \in Nat /\ DOMAIN r = 1..Len(r) /\ DOMAIN r \in SUBSET Nat
  BY <1>1
<1>3. \A i \in DOMAIN r : ComponentError(r, i) = "none"
  BY <1>1, <1>2, NoTurnFails
<1>4. \A i \in 1..Len(r) : r[i].label \in Seq(Nat) /\ r[i].value \in Seq(Nat)
  <2>1. \A i \in 1..Len(r) : r[i] \in [label: Seq(Nat), value: Seq(Nat)]
    <3> DEFINE R == [label: Seq(Nat), value: Seq(Nat)]
    <3>1. r \in Seq(R)
      BY <1>1
    <3> HIDE DEF R
    <3>2. \A i \in 1..Len(r) : r[i] \in R
      BY <3>1
    <3> QED BY <3>2 DEF R
  <2> QED BY <2>1
<1>5. ASSUME NEW i \in 1..Len(r)
      PROVE  /\ ValidateLabel(r[i].label) = "none"
             /\ ~(\E j \in 1..(i - 1) : r[j].label = r[i].label)
             /\ ValidateTrimmedValue(AsciiTrim(r[i].value)) = "none"
  <2>1. ComponentError(r, i) = "none"
    BY <1>2, <1>3
  <2> QED BY <2>1 DEF ComponentError
<1>6. ASSUME NEW i \in 1..Len(r)
      PROVE  GoodLabel(r[i].label) /\ IsText(r[i].value) /\ Clean(AsciiTrim(r[i].value))
  <2>1. AsciiTrim(r[i].value) \in Seq(Nat)
    BY <1>4, TrimType DEF AsciiTrim
  <2>2. GoodLabel(r[i].label)
    BY <1>4, <1>5, LabelPasses
  <2>3. Clean(AsciiTrim(r[i].value))
    BY <1>5, <2>1, ValuePasses
  <2> QED BY <1>1, <1>2, <2>2, <2>3
<1>7. ASSUME NEW i \in 1..Len(r), NEW j \in 1..Len(r), r[i].label = r[j].label, i # j
      PROVE  FALSE
  <2>1. j \in 1..(i - 1) \/ i \in 1..(j - 1)
    BY <1>2, <1>7
  <2> QED BY <1>5, <1>7, <2>1
<1> QED BY <1>1, <1>6, <1>7 DEF Accepted

-----------------------------------------------------------------------------
(* The parts.                                                              *)

\* A text that is a label, an equals sign and a value.
PartOf(p, l, v) ==
  /\ p \in Seq(Nat) /\ Len(p) = Len(l) + 1 + Len(v)
  /\ \A k \in 1..Len(l) : p[k] = l[k]
  /\ p[Len(l) + 1] = EQUALS_CODE
  /\ \A k \in 1..Len(v) : p[Len(l) + 1 + k] = v[k]

LEMMA PartShape ==
  ASSUME NEW l \in Seq(Nat), NEW v \in Seq(Nat), NEW p, p = l \o <<EQUALS_CODE>> \o v
  PROVE  PartOf(p, l, v)
<1> DEFINE u == l \o <<EQUALS_CODE>>
<1>2. Len(l) \in Nat /\ Len(v) \in Nat /\ EQUALS_CODE \in Nat
  BY DEF EQUALS_CODE
<1>3. /\ u \in Seq(Nat) /\ Len(u) = Len(l) + 1
      /\ \A k \in 1..Len(l) : u[k] = l[k]
      /\ u[Len(l) + 1] = EQUALS_CODE
  BY <1>2, ConcatOne
<1>4. p = u \o v
  OBVIOUS
<1> HIDE DEF u
<1>5. /\ p \in Seq(Nat) /\ Len(p) = Len(u) + Len(v)
      /\ \A k \in 1..Len(u) : p[k] = u[k]
      /\ \A k \in 1..Len(v) : p[Len(u) + k] = v[k]
  BY <1>3, <1>4, ConcatParts
<1>6. \A k \in 1..Len(l) : p[k] = l[k]
  <2>1. \A k \in 1..Len(l) : k \in 1..Len(u)
    BY <1>2, <1>3
  <2> QED BY <1>3, <1>5, <2>1
<1>7. p[Len(l) + 1] = EQUALS_CODE
  <2>1. Len(l) + 1 \in 1..Len(u)
    BY <1>2, <1>3
  <2> QED BY <1>3, <1>5, <2>1
<1> QED BY <1>3, <1>5, <1>6, <1>7 DEF PartOf

\* The label ends at the first equals sign.
LEMMA LabelEnds ==
  ASSUME NEW l, NEW v, NEW p, NEW m, NEW w, NEW q,
         GoodLabel(l), Clean(v), PartOf(p, l, v),
         GoodLabel(m), Clean(w), PartOf(q, m, w),
         NEW n \in Nat, n > Len(l), n <= Len(q), AgreeTo(p, q, n)
  PROVE  l = m
<1>1. l \in Seq(Nat) /\ m \in Seq(Nat) /\ Len(l) \in Nat /\ Len(m) \in Nat
  BY DEF GoodLabel
<1>2. \A k \in 1..n : p[k] = q[k]
  BY DEF AgreeTo
<1>3. q[Len(l) + 1] = EQUALS_CODE
  <2>1. Len(l) + 1 \in 1..n
    BY <1>1
  <2> QED BY <1>2, <2>1 DEF PartOf
<1>4. Len(m) <= Len(l)
  <2>1. ASSUME Len(l) < Len(m) PROVE FALSE
    <3>1. Len(l) + 1 \in 1..Len(m)
      BY <1>1, <2>1
    <3>2. q[Len(l) + 1] = m[Len(l) + 1]
      BY <3>1 DEF PartOf
    <3> QED BY <1>3, <3>1, <3>2 DEF GoodLabel
  <2> QED BY <1>1, <2>1
<1>5. Len(l) <= Len(m)
  <2>1. ASSUME Len(m) < Len(l) PROVE FALSE
    <3>1. Len(m) + 1 \in 1..Len(l) /\ Len(m) + 1 \in 1..n
      BY <1>1, <2>1
    <3>2. p[Len(m) + 1] = l[Len(m) + 1]
      BY <3>1 DEF PartOf
    <3>3. p[Len(m) + 1] = q[Len(m) + 1]
      BY <1>2, <3>1
    <3>4. q[Len(m) + 1] = EQUALS_CODE
      BY DEF PartOf
    <3> QED BY <3>1, <3>2, <3>3, <3>4 DEF GoodLabel
  <2> QED BY <1>1, <2>1
<1>6. Len(l) = Len(m)
  BY <1>1, <1>4, <1>5
<1>7. ASSUME NEW k \in 1..Len(l) PROVE l[k] = m[k]
  <2>1. k \in 1..n /\ k \in 1..Len(m)
    BY <1>1, <1>6
  <2>2. p[k] = l[k]
    BY DEF PartOf
  <2>3. q[k] = m[k]
    BY <2>1 DEF PartOf
  <2> QED BY <1>2, <2>1, <2>2, <2>3
<1> QED BY <1>1, <1>6, <1>7, SeqEqual

LEMMA PartSplits ==
  ASSUME NEW l, NEW v, NEW p, NEW m, NEW w,
         GoodLabel(l), Clean(v), PartOf(p, l, v),
         GoodLabel(m), Clean(w), PartOf(p, m, w)
  PROVE  l = m /\ v = w
<1>1. /\ l \in Seq(Nat) /\ m \in Seq(Nat) /\ Len(l) \in Nat /\ Len(m) \in Nat
      /\ v \in Seq(Nat) /\ w \in Seq(Nat) /\ Len(v) \in Nat /\ Len(w) \in Nat
  BY DEF GoodLabel, Clean
<1>2. Len(p) \in Nat /\ Len(p) > Len(l) /\ AgreeTo(p, p, Len(p))
  BY <1>1 DEF PartOf, AgreeTo
<1>3. l = m
  BY <1>2, LabelEnds
<1>4. Len(v) = Len(w)
  BY <1>1, <1>3 DEF PartOf
<1>5. ASSUME NEW k \in 1..Len(v) PROVE v[k] = w[k]
  BY <1>3, <1>4 DEF PartOf
<1>6. v = w
  BY <1>1, <1>4, <1>5, SeqEqual
<1> QED BY <1>3, <1>6

LEMMA PartMeans ==
  ASSUME NEW r, Accepted(r), NEW i \in 1..Len(r)
  PROVE  /\ PartOf(Part(r[i]), r[i].label, AsciiTrim(r[i].value))
         /\ IsText(Part(r[i]))
         /\ Clean(Part(r[i]))
<1> DEFINE l == r[i].label  x == r[i].value  v == AsciiTrim(x)  p == Part(r[i])
<1>1. GoodLabel(l) /\ IsText(x) /\ Clean(v)
  BY DEF Accepted
<1>2. l \in Seq(Nat) /\ v \in Seq(Nat) /\ x \in Seq(Nat)
  BY <1>1 DEF GoodLabel, Clean, IsText
<1>3. p = l \o <<EQUALS_CODE>> \o v
  BY DEF Part
<1>4. \A k \in 1..Len(v) : v[k] \in Nat /\ IsPoint(v[k])
  <2>1. \A k \in 1..Len(v) : \E j \in 1..Len(x) : v[k] = x[j]
    <3> HIDE DEF x, l
    <3> QED BY <1>2, TrimType DEF AsciiTrim
  <2>2. \A j \in 1..Len(x) : x[j] \in Nat /\ IsPoint(x[j])
    BY <1>1, TextMembers
  <2> QED BY <2>1, <2>2
<1> HIDE DEF l, x, v, p
<1>5. PartOf(p, l, v)
  BY <1>2, <1>3, PartShape
<1>6. \A k \in 1..Len(l) : IsPoint(l[k]) /\ l[k] # SEPARATOR
  <2>1. \A k \in 1..Len(l) : l[k] \in 33..126
    BY <1>1 DEF GoodLabel
  <2>2. \A c \in 33..126 : c \in Nat /\ c < 127 /\ c # 31
    OBVIOUS
  <2>3. \A c \in Nat : c < 127 => IsPoint(c)
    BY SMT DEF IsPoint
  <2> QED BY <2>1, <2>2, <2>3 DEF SEPARATOR
<1>7. IsPoint(EQUALS_CODE) /\ EQUALS_CODE # SEPARATOR
  BY SMT DEF IsPoint, EQUALS_CODE, SEPARATOR
<1>8. ASSUME NEW k \in 1..Len(p) PROVE IsPoint(p[k]) /\ p[k] # SEPARATOR
  <2>1. Len(l) \in Nat /\ Len(v) \in Nat /\ Len(p) = Len(l) + 1 + Len(v)
    BY <1>2, <1>5 DEF PartOf
  <2>2. CASE k \in 1..Len(l)
    BY <1>5, <1>6, <2>2 DEF PartOf
  <2>3. CASE k = Len(l) + 1
    BY <1>5, <1>7, <2>3 DEF PartOf
  <2>4. CASE k \notin 1..Len(l) /\ k # Len(l) + 1
    <3>1. PICK j \in 1..Len(v) : k = Len(l) + 1 + j
      <4>1. k - (Len(l) + 1) \in 1..Len(v) /\ k = Len(l) + 1 + (k - (Len(l) + 1))
        BY <2>1, <2>4
      <4> QED BY <4>1
    <3>2. p[k] = v[j]
      BY <1>5, <3>1 DEF PartOf
    <3> QED BY <1>1, <1>4, <3>2 DEF Clean
  <2> QED BY <2>2, <2>3, <2>4
<1>9. p \in Seq(Nat) /\ DOMAIN p = 1..Len(p)
  <2>1. p \in Seq(Nat)
    BY <1>5 DEF PartOf
  <2> QED BY <2>1
<1>10. IsText(p) /\ Clean(p)
  BY <1>8, <1>9 DEF IsText, Clean
<1> QED BY <1>5, <1>10 DEF p, l, v, x

LEMMA PartsType ==
  ASSUME NEW r, Accepted(r)
  PROVE  IsFiniteSet(Parts(r)) /\ \A p \in Parts(r) : IsText(p) /\ Clean(p)
<1> DEFINE I == 1..Len(r)  f == [i \in I |-> Part(r[i])]
<1>1. Len(r) \in Nat /\ DOMAIN r = I
  BY DEF Accepted
<1>2. Parts(r) = {Part(r[i]) : i \in I}
  BY <1>1 DEF Parts
<1>3. f \in Surjection(I, Parts(r))
  <2>1. f \in [I -> Parts(r)]
    BY <1>2
  <2>2. \A p \in Parts(r) : \E i \in I : f[i] = p
    BY <1>2
  <2> HIDE DEF f, I
  <2> QED BY <2>1, <2>2 DEF Surjection
<1>4. IsFiniteSet(I)
  <2>1. 1 \in Int /\ Len(r) \in Int
    BY <1>1
  <2> QED BY <2>1, FS_Interval
<1>5. IsFiniteSet(Parts(r))
  <2> HIDE DEF f, I
  <2> QED BY <1>3, <1>4, FS_Surjection
<1>6. ASSUME NEW p \in Parts(r) PROVE IsText(p) /\ Clean(p)
  <2>1. PICK i \in I : p = Part(r[i])
    BY <1>2
  <2> QED BY <2>1, PartMeans
<1> QED BY <1>5, <1>6

\* compareUtf8 is a strict order of texts.
LEMMA ByteOrderStrict ==
  ASSUME NEW S, \A p \in S : IsText(p)
  PROVE  StrictOrder(S, ByteOrder(S))
<1>1. \A p \in S : p \in Seq(Nat)
  BY TextMembers
<1>2. \A p \in S : \A q \in S : <<p, q>> \in ByteOrder(S) <=> LexBefore(p, q)
  BY CompareUtf8IsPointOrder DEF ByteOrder
<1>3. \A p \in S : ~LexBefore(p, p)
  BY <1>1, LexIrreflexive
<1>4. \A p \in S : \A q \in S : \A t \in S :
        LexBefore(p, q) /\ LexBefore(q, t) => LexBefore(p, t)
  BY <1>1, LexTransitive
<1>5. \A p \in S : \A q \in S : p # q => LexBefore(p, q) \/ LexBefore(q, p)
  BY <1>1, LexTotal
<1> QED BY <1>2, <1>3, <1>4, <1>5 DEF StrictOrder

\* The pieces canonicalFingerprintString joins.
LEMMA JoinedPieces ==
  ASSUME NEW r, Accepted(r)
  PROVE  \E s \in Seq(Seq(Nat)) :
           /\ Joined(r) = FlattenSeq(s) /\ Marked(s, SEPARATOR)
           /\ \A p : p \in Parts(r) <=> \E i \in 1..Len(s) : s[i] = <<SEPARATOR>> \o p /\ p \in Seq(Nat)
<1> DEFINE P == Parts(r)  sorted == InOrder(P, ByteOrder(P))
           s == [i \in DOMAIN sorted |-> <<SEPARATOR>> \o sorted[i]]
<1>1. IsFiniteSet(P) /\ StrictOrder(P, ByteOrder(P)) /\ \A p \in P : Clean(p)
  BY PartsType, ByteOrderStrict
<1>2. /\ sorted \in Seq(P) /\ Len(sorted) = Cardinality(P)
      /\ \A p \in P : \E i \in 1..Len(sorted) : sorted[i] = p
  <2> HIDE DEF P
  <2> QED BY <1>1, InOrderSorts
<1>3. Joined(r) = FlattenSeq(s)
  BY DEF Joined
<1> HIDE DEF P, sorted
<1>4. Len(sorted) \in Nat /\ DOMAIN sorted = 1..Len(sorted)
  BY <1>2
<1>5. \A i \in 1..Len(sorted) : sorted[i] \in P /\ Clean(sorted[i]) /\ sorted[i] \in Seq(Nat)
  BY <1>1, <1>2 DEF Clean
<1>6. ASSUME NEW i \in 1..Len(sorted), NEW w, w = <<SEPARATOR>> \o sorted[i]
      PROVE  /\ w \in Seq(Nat) /\ Len(w) # 0 /\ w[1] = SEPARATOR
             /\ \A k \in 2..Len(w) : w[k] # SEPARATOR
  <2> DEFINE e == <<SEPARATOR>>  p == sorted[i]
  <2>1. e \in Seq(Nat) /\ Len(e) = 1 /\ e[1] = SEPARATOR
    BY DEF SEPARATOR
  <2>2. p \in Seq(Nat) /\ Len(p) \in Nat /\ w = e \o p /\ Clean(p)
    BY <1>5, <1>6
  <2>6. e \in Seq(Nat) /\ p \in Seq(Nat) /\ w = e \o p
    BY <2>1, <2>2
  <2> HIDE DEF e, p, s
  <2>3. /\ w \in Seq(Nat) /\ Len(w) = Len(e) + Len(p)
        /\ \A k \in 1..Len(e) : w[k] = e[k]
        /\ \A k \in 1..Len(p) : w[Len(e) + k] = p[k]
    BY ONLY <2>6, ConcatNumbers
  <2>4. 1 \in 1..Len(e)
    BY <2>1
  <2>5. ASSUME NEW k \in 2..Len(w) PROVE w[k] # SEPARATOR
    <3>1. k - 1 \in 1..Len(p) /\ k = Len(e) + (k - 1)
      BY <2>1, <2>2, <2>3
    <3>2. w[k] = p[k - 1]
      BY <2>3, <3>1
    <3> QED BY <2>2, <3>1, <3>2 DEF Clean
  <2> QED BY <2>1, <2>2, <2>3, <2>4, <2>5
<1>7. s \in Seq(Seq(Nat)) /\ Len(s) = Len(sorted)
  <2>1. \A i \in 1..Len(sorted) : <<SEPARATOR>> \o sorted[i] \in Seq(Nat)
    BY <1>6
  <2> QED BY <1>4, <2>1
<1>8. \A i \in 1..Len(s) : s[i] = <<SEPARATOR>> \o sorted[i]
  BY <1>4, <1>7
<1>9. Marked(s, SEPARATOR)
  <2> HIDE DEF s
  <2> QED BY <1>6, <1>7, <1>8, ZenonT(60) DEF Marked
<1>10. ASSUME NEW p PROVE p \in P <=> \E i \in 1..Len(s) : s[i] = <<SEPARATOR>> \o p /\ p \in Seq(Nat)
  <2> HIDE DEF s
  <2>1. ASSUME p \in P PROVE \E i \in 1..Len(s) : s[i] = <<SEPARATOR>> \o p /\ p \in Seq(Nat)
    BY <1>2, <1>5, <1>7, <1>8, <2>1
  <2>2. ASSUME NEW i \in 1..Len(s), s[i] = <<SEPARATOR>> \o p, p \in Seq(Nat) PROVE p \in P
    <3>1. sorted[i] \in P /\ sorted[i] \in Seq(Nat)
      BY <1>5, <1>7
    <3>2. <<SEPARATOR>> \o sorted[i] = <<SEPARATOR>> \o p
      BY <1>8, <2>2
    <3>3. sorted[i] = p
      <4> DEFINE e == <<SEPARATOR>>  q == sorted[i]
      <4>1. e \in Seq(Nat) /\ q \in Seq(Nat) /\ p \in Seq(Nat) /\ e \o q = e \o p
        BY <2>2, <3>1, <3>2 DEF SEPARATOR
      <4> HIDE DEF e, q
      <4>2. q = p
        BY <4>1, ConcatSimplifications
      <4> QED BY <4>2 DEF q
    <3> QED BY <3>1, <3>3
  <2> QED BY <2>1, <2>2
<1> QED BY <1>3, <1>7, <1>9, <1>10 DEF P

\* The parts can be read off what is joined.
LEMMA JoinedTellsParts ==
  ASSUME NEW r, NEW t, Accepted(r), Accepted(t), Joined(r) = Joined(t)
  PROVE  Parts(r) = Parts(t)
<1>1. PICK s \in Seq(Seq(Nat)) :
        /\ Joined(r) = FlattenSeq(s) /\ Marked(s, SEPARATOR)
        /\ \A p : p \in Parts(r) <=> \E i \in 1..Len(s) : s[i] = <<SEPARATOR>> \o p /\ p \in Seq(Nat)
  BY JoinedPieces
<1>2. PICK q \in Seq(Seq(Nat)) :
        /\ Joined(t) = FlattenSeq(q) /\ Marked(q, SEPARATOR)
        /\ \A p : p \in Parts(t) <=> \E i \in 1..Len(q) : q[i] = <<SEPARATOR>> \o p /\ p \in Seq(Nat)
  BY JoinedPieces
<1>3. s = q
  BY <1>1, <1>2, MarkedSplit
<1>4. ASSUME NEW p PROVE p \in Parts(r) <=> p \in Parts(t)
  BY <1>1, <1>2, <1>3
<1> QED BY <1>4

\* The identity can be read off the parts.
LEMMA PartsTellIdentity ==
  ASSUME NEW r, NEW t, Accepted(r), Accepted(t), Parts(r) \subseteq Parts(t)
  PROVE  Identity(r) \subseteq Identity(t)
<1>1. DOMAIN r = 1..Len(r) /\ DOMAIN t = 1..Len(t)
  BY DEF Accepted
<1>2. SUFFICES ASSUME NEW i \in 1..Len(r)
               PROVE  <<r[i].label, AsciiTrim(r[i].value)>> \in Identity(t)
  BY <1>1 DEF Identity, AsciiTrim
<1>3. Part(r[i]) \in Parts(t)
  BY <1>1 DEF Parts
<1>4. PICK j \in 1..Len(t) : Part(r[i]) = Part(t[j])
  BY <1>1, <1>3 DEF Parts
<1>5. r[i].label = t[j].label /\ AsciiTrim(r[i].value) = AsciiTrim(t[j].value)
  <2>1. /\ PartOf(Part(r[i]), r[i].label, AsciiTrim(r[i].value))
        /\ GoodLabel(r[i].label) /\ Clean(AsciiTrim(r[i].value))
    BY PartMeans DEF Accepted
  <2>2. /\ PartOf(Part(t[j]), t[j].label, AsciiTrim(t[j].value))
        /\ GoodLabel(t[j].label) /\ Clean(AsciiTrim(t[j].value))
    BY PartMeans DEF Accepted
  <2> QED BY <1>4, <2>1, <2>2, PartSplits
<1> QED BY <1>1, <1>5 DEF Identity, AsciiTrim

LEMMA IdentityTellsParts ==
  ASSUME NEW r, NEW t, Identity(r) \subseteq Identity(t)
  PROVE  Parts(r) \subseteq Parts(t)
<1>1. SUFFICES ASSUME NEW i \in DOMAIN r PROVE Part(r[i]) \in Parts(t)
  BY DEF Parts
<1> DEFINE x == r[i].label  y == AsciiTrim(r[i].value)
<1>2. <<x, y>> \in Identity(t)
  BY DEF Identity, AsciiTrim
<1>3. PICK j \in DOMAIN t : <<x, y>> = <<t[j].label, AsciiTrim(t[j].value)>>
  BY <1>2 DEF Identity, AsciiTrim
<1>4. x = t[j].label /\ y = AsciiTrim(t[j].value)
  <2> HIDE DEF x, y
  <2> QED BY <1>3
<1>5. Part(r[i]) = x \o <<EQUALS_CODE>> \o y
  BY DEF Part
<1>6. Part(t[j]) = x \o <<EQUALS_CODE>> \o y
  <2> HIDE DEF x, y
  <2> QED BY <1>4 DEF Part
<1> QED BY <1>5, <1>6 DEF Parts

\* canonicalFingerprintString: two readings the SDK accepts have the same
\* canonical string exactly when they name the same values, whatever their
\* order and the ASCII blanks around them.
THEOREM FingerprintIsIdentity ==
  ASSUME NEW r \in Usable, NEW t \in Usable
  PROVE  CanonicalFingerprintString(r) = CanonicalFingerprintString(t)
           <=> Identity(r) = Identity(t)
<1>1. Accepted(r) /\ Accepted(t)
  BY UsableAccepted
<1>2. ASSUME CanonicalFingerprintString(r) = CanonicalFingerprintString(t)
      PROVE  Identity(r) = Identity(t)
  <2>1. Joined(r) = Joined(t)
    BY <1>2 DEF CanonicalFingerprintString
  <2>2. Parts(r) = Parts(t)
    BY <1>1, <2>1, JoinedTellsParts
  <2> QED BY <1>1, <2>2, PartsTellIdentity
<1>3. ASSUME Identity(r) = Identity(t)
      PROVE  CanonicalFingerprintString(r) = CanonicalFingerprintString(t)
  <2>1. Parts(r) = Parts(t)
    BY <1>3, IdentityTellsParts
  <2>2. Joined(r) = Joined(t)
    BY <2>1 DEF Joined
  <2> QED BY <2>2 DEF CanonicalFingerprintString
<1> QED BY <1>2, <1>3

-----------------------------------------------------------------------------
(* What the SDK's orders agree on.                                         *)

\* What differs first between two parts lies in their labels.
LEMMA PartsDiffer ==
  ASSUME NEW l, NEW v, NEW p, NEW m, NEW w, NEW q,
         GoodLabel(l), Clean(v), PartOf(p, l, v),
         GoodLabel(m), Clean(w), PartOf(q, m, w), l # m
  PROVE  \E n \in Nat : DifferInAscii(p, q, n) \/ DifferInAscii(q, p, n)
<1>1. /\ l \in Seq(Nat) /\ m \in Seq(Nat) /\ Len(l) \in Nat /\ Len(m) \in Nat
      /\ v \in Seq(Nat) /\ w \in Seq(Nat) /\ Len(v) \in Nat /\ Len(w) \in Nat
      /\ p \in Seq(Nat) /\ q \in Seq(Nat)
  BY SMTT(60) DEF GoodLabel, Clean, PartOf
<1>2. Len(p) \in Nat /\ Len(p) > Len(l) /\ Len(q) \in Nat /\ Len(q) > Len(m)
  BY <1>1, SMTT(60) DEF PartOf
<1>3. p # q
  BY PartSplits
<1>4. PICK n \in Nat : /\ n <= Len(p) /\ n <= Len(q)
                       /\ \A i \in 1..n : p[i] = q[i]
                       /\ \/ n = Len(p) /\ n < Len(q)
                          \/ n = Len(q) /\ n < Len(p)
                          \/ n < Len(p) /\ n < Len(q) /\ p[n + 1] # q[n + 1]
  BY <1>1, <1>3, FirstDifference
<1>5. AgreeTo(p, q, n) /\ AgreeTo(q, p, n)
  BY <1>4 DEF AgreeTo
<1>6. n <= Len(l)
  <2>1. ASSUME n > Len(l) PROVE FALSE
    <3>1. n <= Len(q)
      BY <1>4
    <3> QED BY <1>5, <2>1, <3>1, LabelEnds
  <2> QED BY <1>1, <2>1
<1>7. n <= Len(m)
  <2>1. ASSUME n > Len(m) PROVE FALSE
    <3>1. n <= Len(p)
      BY <1>4
    <3>2. m = l
      BY <1>5, <2>1, <3>1, LabelEnds
    <3> QED BY <3>2
  <2> QED BY <1>1, <2>1
<1>8. n < Len(p) /\ n < Len(q) /\ p[n + 1] # q[n + 1]
  BY <1>1, <1>2, <1>4, <1>6, <1>7
<1>9. p[n + 1] \in Nat /\ p[n + 1] < 128
  <2>1. CASE n < Len(l)
    <3>1. n + 1 \in 1..Len(l)
      BY <1>1, <2>1
    <3>2. p[n + 1] = l[n + 1] /\ l[n + 1] \in 33..126
      BY <3>1 DEF PartOf, GoodLabel
    <3> QED BY <3>2
  <2>2. CASE n = Len(l)
    BY <2>2, SMTT(60) DEF PartOf, EQUALS_CODE
  <2> QED BY <1>1, <1>6, <2>1, <2>2
<1>10. q[n + 1] \in Nat /\ q[n + 1] < 128
  <2>1. CASE n < Len(m)
    <3>1. n + 1 \in 1..Len(m)
      BY <1>1, <2>1
    <3>2. q[n + 1] = m[n + 1] /\ m[n + 1] \in 33..126
      BY <3>1 DEF PartOf, GoodLabel
    <3> QED BY <3>2
  <2>2. CASE n = Len(m)
    BY <2>2, SMTT(60) DEF PartOf, EQUALS_CODE
  <2> QED BY <1>1, <1>7, <2>1, <2>2
<1>11. p[n + 1] < q[n + 1] \/ q[n + 1] < p[n + 1]
  BY <1>8, <1>9, <1>10
<1>12. DifferInAscii(p, q, n) \/ DifferInAscii(q, p, n)
  BY <1>5, <1>8, <1>9, <1>10, <1>11 DEF DifferInAscii
<1> QED BY <1>12

LEMMA NeverBeforeItself ==
  ASSUME NEW p, IsText(p)
  PROVE  ~UnitsBefore(p, p) /\ ~CompareUtf8(p, p)
<1> DEFINE u == Utf16(p)
<1>1. p \in Seq(Nat) /\ u \in Seq(Nat)
  BY TextMembers, Utf16IsSeq
<1>2. ~LexBefore(p, p) /\ ~LexBefore(u, u)
  <2> HIDE DEF u
  <2> QED BY <1>1, LexIrreflexive
<1> QED BY <1>2, CompareUtf8IsPointOrder DEF UnitsBefore

\* On the parts of any reading the SDK accepts, sorting by UTF-16 code units
\* is sorting by bytes (compareUtf8).
THEOREM OrdersOfParts ==
  ASSUME NEW r \in Usable, NEW p \in Parts(r), NEW q \in Parts(r)
  PROVE  UnitsBefore(p, q) = CompareUtf8(p, q)
<1>1. Accepted(r)
  BY UsableAccepted
<1>2. IsText(p) /\ IsText(q)
  BY <1>1, PartsType
<1>3. CASE p = q
  <2>1. ~UnitsBefore(p, q) /\ ~CompareUtf8(p, q)
    BY <1>2, <1>3, NeverBeforeItself
  <2>2. UnitsBefore(p, q) \in BOOLEAN /\ CompareUtf8(p, q) \in BOOLEAN
    BY DEF UnitsBefore, CompareUtf8, LexBefore
  <2> QED BY <2>1, <2>2
<1>4. CASE p # q
  <2>1. PICK i \in 1..Len(r), j \in 1..Len(r) : p = Part(r[i]) /\ q = Part(r[j])
    <3>1. DOMAIN r = 1..Len(r)
      BY <1>1 DEF Accepted
    <3> QED BY <3>1 DEF Parts
  <2>2. r[i].label # r[j].label
    BY <1>1, <1>4, <2>1 DEF Accepted
  <2>3. /\ PartOf(p, r[i].label, AsciiTrim(r[i].value))
        /\ GoodLabel(r[i].label) /\ Clean(AsciiTrim(r[i].value))
    BY <1>1, <2>1, PartMeans DEF Accepted
  <2>4. /\ PartOf(q, r[j].label, AsciiTrim(r[j].value))
        /\ GoodLabel(r[j].label) /\ Clean(AsciiTrim(r[j].value))
    BY <1>1, <2>1, PartMeans DEF Accepted
  <2>5. PICK n \in Nat : DifferInAscii(p, q, n) \/ DifferInAscii(q, p, n)
    BY <2>2, <2>3, <2>4, PartsDiffer
  <2>6. CASE DifferInAscii(p, q, n)
    <3>1. UnitsBefore(p, q) /\ CompareUtf8(p, q)
      BY <1>2, <2>6, AsciiDecides
    <3> QED BY <3>1
  <2>7. CASE DifferInAscii(q, p, n)
    <3>1. ~UnitsBefore(p, q) /\ ~CompareUtf8(p, q)
      BY <1>2, <2>7, AsciiDecides
    <3>2. UnitsBefore(p, q) \in BOOLEAN /\ CompareUtf8(p, q) \in BOOLEAN
      BY DEF UnitsBefore, CompareUtf8, LexBefore
    <3> QED BY <3>1, <3>2
  <2> QED BY <2>5, <2>6, <2>7
<1> QED BY <1>3, <1>4

-----------------------------------------------------------------------------
(* The invariants.                                                         *)

RowOf(id, r) ==
  [id |-> id, fingerprint |-> ComputeFingerprint[r], holders |-> {Identity(r)}]

\* Every row was created for a reading and is held by its identity alone, and
\* no fingerprint has two rows.
SeatsInv ==
  /\ \A row \in rows : \E id \in MachineIds : \E r \in Usable : row = RowOf(id, r)
  /\ \A row, other \in rows : row.fingerprint = other.fingerprint => row = other

\* What a row says of its reading.
LEMMA RowMeans ==
  ASSUME NEW id \in MachineIds, NEW r \in Usable, NEW row, row = RowOf(id, r)
  PROVE  /\ row.id = id /\ row.fingerprint = CanonicalFingerprintString(r)
         /\ row.fingerprint = ComputeFingerprint[r]
         /\ row.holders = {Identity(r)}
         /\ row = [id |-> row.id, fingerprint |-> row.fingerprint, holders |-> row.holders]
BY DEF RowOf, ComputeFingerprint

LEMMA SeatsInit == Init => SeatsInv
BY DEF Init, SeatsInv

LEMMA SeatsActivate ==
  ASSUME SeatsInv, NEW reading \in Readings, Activate(reading)
  PROVE  SeatsInv'
<1>1. CASE reading \notin Usable
  <2>1. rows' = rows
    BY <1>1 DEF Activate
  <2> QED BY <2>1 DEF SeatsInv
<1>2. CASE reading \in Usable
  <2> DEFINE fp == ComputeFingerprint[reading]
             held == {row \in rows : row.fingerprint = fp}
             added(id) == [id |-> id, fingerprint |-> fp, holders |-> {Identity(reading)}]
             joined(row) == [row EXCEPT !.holders = @ \cup {Identity(reading)}]
  <2>1. fp = CanonicalFingerprintString(reading)
    BY <1>2 DEF ComputeFingerprint
  <2>2. CASE /\ held = {}
             /\ \E id \in MachineIds \ {row.id : row \in rows} : rows' = rows \cup {added(id)}
    <3>1. PICK id \in MachineIds : rows' = rows \cup {added(id)}
      BY <2>2
    <3>2. added(id) = RowOf(id, reading) /\ added(id).fingerprint = fp
      BY DEF RowOf
    <3>3. \A row \in rows : row.fingerprint # fp
      BY <2>2
    <3> HIDE DEF added, fp, held
    <3> QED BY <1>2, <3>1, <3>2, <3>3 DEF SeatsInv
  <2>3. CASE \E row \in held : rows' = (rows \ {row}) \cup {joined(row)}
    <3>1. PICK row \in held : rows' = (rows \ {row}) \cup {joined(row)}
      BY <2>3
    <3>2. row \in rows /\ row.fingerprint = fp
      BY <3>1
    <3>3. PICK id \in MachineIds, r \in Usable : row = RowOf(id, r)
      BY <3>2 DEF SeatsInv
    <3>4. /\ row.fingerprint = CanonicalFingerprintString(r) /\ row.holders = {Identity(r)}
          /\ row = [id |-> row.id, fingerprint |-> row.fingerprint, holders |-> row.holders]
      BY <3>3, RowMeans
    <3>5. Identity(r) = Identity(reading)
      <4>1. CanonicalFingerprintString(r) = CanonicalFingerprintString(reading)
        BY <2>1, <3>2, <3>4
      <4> QED BY <1>2, <4>1, FingerprintIsIdentity
    <3>6. joined(row) = row
      <4>1. joined(row) = [id |-> row.id, fingerprint |-> row.fingerprint,
                           holders |-> row.holders \cup {Identity(reading)}]
        BY <3>4
      <4>2. row.holders \cup {Identity(reading)} = row.holders
        BY <3>4, <3>5
      <4> QED BY <3>4, <4>1, <4>2
    <3>7. rows' = rows
      <4> HIDE DEF joined, held, fp
      <4> QED BY <3>1, <3>2, <3>6
    <3> QED BY <3>7 DEF SeatsInv
  <2>4. \/ /\ held = {}
           /\ \E id \in MachineIds \ {row.id : row \in rows} : rows' = rows \cup {added(id)}
        \/ \E row \in held : rows' = (rows \ {row}) \cup {joined(row)}
    BY <1>2 DEF Activate
  <2> QED BY <2>2, <2>3, <2>4
<1> QED BY <1>1, <1>2

LEMMA SeatsNext == SeatsInv /\ [Next]_vars => SeatsInv'
<1> SUFFICES ASSUME SeatsInv, [Next]_vars PROVE SeatsInv'
  OBVIOUS
<1>1. ASSUME NEW reading \in Readings, Activate(reading) PROVE SeatsInv'
  BY <1>1, SeatsActivate
<1>2. ASSUME NEW row \in rows, NEW dataset \in Datasets, GenerateOfflineProof(row, dataset)
      PROVE  SeatsInv'
  BY <1>2 DEF GenerateOfflineProof, SeatsInv
<1>3. ASSUME NEW p \in Presentations, NEW t \in Tuple, VerifyOfflineProof(p[1], p[2], t)
      PROVE  SeatsInv'
  BY <1>3 DEF VerifyOfflineProof, SeatsInv
<1>4. CASE UNCHANGED vars
  BY <1>4 DEF vars, SeatsInv
<1> QED BY <1>1, <1>2, <1>3, <1>4 DEF Next

THEOREM SeatsAreTaken == Spec => []SeatsInv
<1> QED BY SeatsInit, SeatsNext, PTL DEF Spec

\* One machine, one seat: every machine finds its own row again and no two
\* machines share one, for every set of readings.
LEMMA SeatsOne == SeatsInv => OneSeatPerMachine
<1> SUFFICES ASSUME SeatsInv PROVE OneSeatPerMachine
  OBVIOUS
<1>1. ASSUME NEW row \in rows
      PROVE  \E r \in Usable : /\ row.fingerprint = CanonicalFingerprintString(r)
                               /\ row.holders = {Identity(r)}
  <2>1. PICK id \in MachineIds, r \in Usable : row = RowOf(id, r)
    BY DEF SeatsInv
  <2> QED BY <2>1, RowMeans
<1>2. ASSUME NEW row \in rows PROVE Cardinality(row.holders) = 1
  <2>1. PICK r \in Usable : row.holders = {Identity(r)}
    BY <1>1
  <2> QED BY <2>1, FS_Singleton
<1>3. ASSUME NEW row \in rows, NEW other \in rows, row.holders \cap other.holders # {}
      PROVE  row = other
  <2>1. PICK r \in Usable : /\ row.fingerprint = CanonicalFingerprintString(r)
                            /\ row.holders = {Identity(r)}
    BY <1>1
  <2>2. PICK t \in Usable : /\ other.fingerprint = CanonicalFingerprintString(t)
                            /\ other.holders = {Identity(t)}
    BY <1>1
  <2>3. Identity(r) = Identity(t)
    BY <1>3, <2>1, <2>2
  <2>4. row.fingerprint = other.fingerprint
    BY <2>1, <2>2, <2>3, FingerprintIsIdentity
  <2> QED BY <2>4 DEF SeatsInv
<1> QED BY <1>2, <1>3 DEF OneSeatPerMachine

THEOREM SpecOneSeatPerMachine == Spec => []OneSeatPerMachine
<1> QED BY SeatsAreTaken, SeatsOne, PTL

\* Whatever is activated, the SDK's two orders of its parts agree.
THEOREM SpecOrdersAgree == Spec => []OrdersAgree
<1>1. OrdersAgree
  BY OrdersOfParts DEF OrdersAgree
<1> QED BY <1>1, PTL

\* Verification throws for what is no token and for nothing else.
LEMMA TypeInit == Init => TypeOK
BY DEF Init, TypeOK, NoAnswer

RowOK(row) ==
  /\ row.id \in MachineIds
  /\ row.fingerprint \in {ComputeFingerprint[r] : r \in Usable}
  /\ row.holders # {}

LEMMA RowTyped ==
  ASSUME NEW row, \E id \in MachineIds : \E r \in Usable : row = RowOf(id, r)
  PROVE  RowOK(row)
<1>1. PICK id \in MachineIds, r \in Usable : row = RowOf(id, r)
  OBVIOUS
<1>2. row.id = id /\ row.fingerprint = ComputeFingerprint[r] /\ row.holders = {Identity(r)}
  BY <1>1, RowMeans
<1> QED BY <1>2 DEF RowOK

Verdicts == {"none", "true", "false", "malformed-proof", "invalid-base64"}

LEMMA TypeNext == SeatsInv /\ TypeOK /\ [Next]_vars /\ SeatsInv' => TypeOK'
<1> SUFFICES ASSUME SeatsInv, TypeOK, [Next]_vars, SeatsInv' PROVE TypeOK'
  OBVIOUS
<1>1. \A row \in rows' : RowOK(row)
  BY RowTyped DEF SeatsInv
<1>2. (proof # NoProof => proof.tuple \in Tuple) /\ keySize \in KeySizes
      /\ answer.verdict \in Verdicts
  BY DEF TypeOK, Verdicts
<1> DEFINE Rest == /\ proof' # NoProof => proof'.tuple \in Tuple
                   /\ keySize' \in KeySizes
                   /\ answer'.verdict \in Verdicts
<1>3. NoAnswer.verdict \in Verdicts
  BY DEF NoAnswer, Verdicts
<1>4. ASSUME NEW reading \in Readings, Activate(reading) PROVE Rest
  BY <1>2, <1>3, <1>4 DEF Activate
<1>5. ASSUME NEW row \in rows, NEW dataset \in Datasets, GenerateOfflineProof(row, dataset)
      PROVE  Rest
  <2> DEFINE t == [account |-> Account, id |-> row.id,
                   fingerprint |-> row.fingerprint, dataset |-> dataset]
  <2>1. RowOK(row)
    BY RowTyped DEF SeatsInv
  <2>2. t \in Tuple
    BY <2>1, ConstantsAssumption DEF RowOK, Tuple
  <2>3. proof'.tuple = t
    <3>1. proof' = [tuple |-> t, payload |-> ServerPayload[t]]
      BY <1>5 DEF GenerateOfflineProof
    <3> HIDE DEF t
    <3> QED BY <3>1
  <2> HIDE DEF t
  <2> QED BY <1>2, <1>3, <1>5, <2>2, <2>3 DEF GenerateOfflineProof
<1>6. ASSUME NEW p \in Presentations, NEW t \in Tuple, VerifyOfflineProof(p[1], p[2], t)
      PROVE  Rest
  <2> DEFINE parsed == ParseProofToken(p[1])
             verified == VerifyRsaPkcs1(BuildProofPayloadJson[t], p[1], p[2])
             said == IF parsed # "none" THEN parsed ELSE Verdict(verified)
  <2>1. parsed \in {"none", "malformed-proof", "invalid-base64"}
    BY DEF ParseProofToken
  <2>2. Verdict(verified) \in {"true", "false"}
    BY DEF Verdict
  <2>3. said \in Verdicts
    <3> HIDE DEF parsed, verified
    <3> QED BY <2>1, <2>2 DEF Verdicts
  <2>4. answer'.verdict = said
    <3>1. \E m, i, x : answer' = [verdict |-> said, matches |-> m, intact |-> i, apart |-> x]
      BY <1>6 DEF VerifyOfflineProof
    <3> HIDE DEF said
    <3> QED BY <3>1
  <2> HIDE DEF said
  <2> QED BY <1>2, <1>6, <2>3, <2>4 DEF VerifyOfflineProof
<1>7. ASSUME UNCHANGED vars PROVE Rest
  BY <1>2, <1>7 DEF vars
<1>8. Rest
  <2> HIDE DEF Rest
  <2> QED BY <1>4, <1>5, <1>6, <1>7 DEF Next
<1> QED BY <1>1, <1>8 DEF TypeOK, RowOK, Verdicts

THEOREM SpecTypeOK == Spec => []TypeOK
<1> QED BY SeatsInit, SeatsNext, TypeInit, TypeNext, PTL DEF Spec

-----------------------------------------------------------------------------
(* Canonical JSON: values by depth.                                        *)

LEMMA ValuesGrow ==
  ASSUME NEW n \in 0..MaxDepth
  PROVE  ValuesBelow(n + 1) = ValuesBelow(n) \cup Nested[n]
<1>1. n \in Nat /\ (n + 1) - 1 = n
  BY NestedAssumption
<1>2. 0..((n + 1) - 1) = 0..(n - 1) \cup {n}
  BY <1>1
<1> QED BY <1>2 DEF ValuesBelow

LEMMA ValuesBelowNested ==
  ASSUME NEW n \in 0..MaxDepth, NEW k \in 0..n
  PROVE  Nested[k] \subseteq ValuesBelow(n + 1) /\ ValuesBelow(k) \subseteq ValuesBelow(n)
<1>1. n \in Nat /\ (n + 1) - 1 = n
  BY NestedAssumption
<1>2. k \in 0..((n + 1) - 1) /\ 0..(k - 1) \subseteq 0..(n - 1)
  BY <1>1
<1>3. Nested[k] \subseteq ValuesBelow(n + 1)
  BY <1>2 DEF ValuesBelow
<1>4. ValuesBelow(k) \subseteq ValuesBelow(n)
  BY <1>2 DEF ValuesBelow
<1> QED BY <1>3, <1>4

LEMMA NoValuesBelow == ValuesBelow(0) = {}
<1>1. 0..(0 - 1) = {}
  OBVIOUS
<1> QED BY <1>1 DEF ValuesBelow

\* A value, and what is inside it.
IsLeaf(v) == v.kind = "leaf" /\ v = Leaf(v.leaf)
IsArray(v, inner) ==
  v.kind = "array" /\ v = ArrayOf(v.items) /\ v.items \in Seq(inner)
IsObject(v, inner) ==
  /\ v.kind = "object" /\ v = ObjectOf(v.entries)
  /\ v.entries \in Seq([key: Seq(Nat), value: inner])
  /\ \A i \in DOMAIN v.entries : IsText(v.entries[i].key)
  /\ \A i, j \in DOMAIN v.entries : v.entries[i].key = v.entries[j].key => i = j

LEMMA ValueShape ==
  ASSUME NEW n \in 0..MaxDepth, NEW v \in Nested[n]
  PROVE  IsLeaf(v) \/ IsArray(v, ValuesBelow(n)) \/ IsObject(v, ValuesBelow(n))
BY NestedAssumption DEF IsLeaf, IsArray, IsObject

\* A property of all values that what is inside them passes on.
LEMMA ValueInduction ==
  ASSUME NEW G,
         \A n \in 0..MaxDepth : ValuesBelow(n) \subseteq G => Nested[n] \subseteq G
  PROVE  Values \subseteq G
<1> DEFINE H == {n \in Nat : ValuesBelow(n) \subseteq G}  N == MaxDepth + 1
<1>1. N \in Nat /\ MaxDepth \in Nat
  BY NestedAssumption
<1>2. 0 \in H
  BY NoValuesBelow
<1>3. ASSUME NEW n \in 1..N, n - 1 \in H PROVE n \in H
  <2>1. PICK k \in 0..MaxDepth : k = n - 1 /\ n = k + 1
    BY <1>1
  <2>2. ValuesBelow(k) \subseteq G
    BY <1>3, <2>1
  <2>3. ValuesBelow(k + 1) \subseteq G
    BY <2>2, ValuesGrow
  <2>4. n \in Nat
    BY <1>1
  <2> QED BY <2>1, <2>3, <2>4
<1>4. \A n \in 0..N : n \in H
  <2> HIDE DEF H, N
  <2> QED BY <1>1, <1>2, <1>3, Induction
<1>5. N \in 0..N
  BY <1>1
<1> QED BY <1>4, <1>5 DEF Values

-----------------------------------------------------------------------------
(* The two serializers exist.                                              *)

Reorders(order) ==
  \A v \in Values : v.kind = "object" => Arranges(order[v], Range(v.entries))

LEMMA ObjectInside ==
  ASSUME NEW inner, NEW v, IsObject(v, inner), NEW e \in Range(v.entries)
  PROVE  e.value \in inner /\ e.key \in Seq(Nat) /\ IsText(e.key)
         /\ e = Entry(e.key, e.value)
<1> DEFINE R == [key: Seq(Nat), value: inner]
<1>1. v.entries \in Seq(R)
  BY DEF IsObject
<1>2. PICK i \in DOMAIN v.entries : e = v.entries[i]
  BY DEF Range
<1>3. e \in R
  <2> HIDE DEF R
  <2> QED BY <1>1, <1>2
<1> QED BY <1>2, <1>3 DEF IsObject, Entry

\* What is written depends only on what was done with what is inside.
LEMMA WrittenInside ==
  ASSUME NEW n \in 0..MaxDepth, NEW v \in Nested[n], NEW order, Reorders(order), NEW sp,
         NEW f, NEW g, \A w \in ValuesBelow(n) : f[w] = g[w]
  PROVE  Written(f, v, order[v], sp) = Written(g, v, order[v], sp)
<1>1. CASE IsLeaf(v)
  <2>1. v.kind = "leaf"
    BY <1>1 DEF IsLeaf
  <2> QED BY <2>1 DEF Written
<1>2. CASE IsArray(v, ValuesBelow(n))
  <2>1. v.kind = "array" /\ v.items \in Seq(ValuesBelow(n))
    BY <1>2 DEF IsArray
  <2>2. \A i \in DOMAIN v.items : f[v.items[i]] = g[v.items[i]]
    BY <2>1
  <2> DEFINE a == [i \in DOMAIN v.items |-> f[v.items[i]]]
             b == [i \in DOMAIN v.items |-> g[v.items[i]]]
  <2>3. a = b
    BY <2>2
  <2>4. Written(f, v, order[v], sp) = ArrayOf(a) /\ Written(g, v, order[v], sp) = ArrayOf(b)
    BY <2>1 DEF Written
  <2> HIDE DEF a, b
  <2> QED BY <2>3, <2>4
<1>3. CASE IsObject(v, ValuesBelow(n))
  <2> DEFINE s == order[v]
             a == [i \in DOMAIN s |-> Entry(s[i].key, f[s[i].value])]
             b == [i \in DOMAIN s |-> Entry(s[i].key, g[s[i].value])]
  <2>1. v.kind = "object" /\ v \in Values
    <3>1. n \in 0..((MaxDepth + 1) - 1)
      BY NestedAssumption
    <3>2. v \in Values
      BY <3>1 DEF Values, ValuesBelow
    <3> QED BY <1>3, <3>2 DEF IsObject
  <2>2. s \in Seq(Range(v.entries))
    BY <2>1 DEF Reorders, Arranges
  <2>3. \A i \in DOMAIN s : s[i] \in Range(v.entries)
    <3> HIDE DEF s
    <3> QED BY <2>2
  <2>4. \A i \in DOMAIN s : s[i].value \in ValuesBelow(n)
    <3> HIDE DEF s
    <3> QED BY <1>3, <2>3, ObjectInside
  <2>5. a = b
    <3> HIDE DEF s
    <3> QED BY <2>4
  <2>6. Written(f, v, order[v], sp) = ObjectOf(a) /\ Written(g, v, order[v], sp) = ObjectOf(b)
    BY <2>1 DEF Written
  <2> HIDE DEF a, b
  <2> QED BY <2>5, <2>6
<1> QED BY <1>1, <1>2, <1>3, ValueShape

LEMMA WritesExist ==
  ASSUME NEW order, Reorders(order), NEW sp
  PROVE  \E f : f = [v \in Values |-> Written(f, v, order[v], sp)]
<1> DEFINE Good(n) == \E f : f = [v \in ValuesBelow(n) |-> Written(f, v, order[v], sp)]
           H == {n \in Nat : Good(n)}  N == MaxDepth + 1
<1>1. N \in Nat /\ MaxDepth \in Nat
  BY NestedAssumption
<1>2. Good(0)
  <2> DEFINE e == [v \in {} |-> v]
  <2>1. e = [v \in {} |-> Written(e, v, order[v], sp)]
    OBVIOUS
  <2> HIDE DEF e
  <2> QED BY <2>1, NoValuesBelow
<1>3. ASSUME NEW k \in 0..MaxDepth, Good(k) PROVE Good(k + 1)
  <2> DEFINE V == ValuesBelow(k)  W == ValuesBelow(k + 1)
  <2>1. PICK f : f = [v \in V |-> Written(f, v, order[v], sp)]
    BY <1>3
  <2> DEFINE g == [v \in W |-> IF v \in V THEN f[v] ELSE Written(f, v, order[v], sp)]
             h == [v \in W |-> Written(g, v, order[v], sp)]
  <2>2. W = V \cup Nested[k]
    BY ValuesGrow
  <2>3. \A v \in V : g[v] = f[v]
    <3> HIDE DEF V, W
    <3> QED BY <2>2
  <2>4. ASSUME NEW v \in W PROVE Written(f, v, order[v], sp) = Written(g, v, order[v], sp)
    <3>1. PICK j \in 0..k : v \in Nested[j]
      <4>1. k \in Nat /\ (k + 1) - 1 = k
        BY <1>1
      <4> QED BY <4>1 DEF ValuesBelow
    <3>2. j \in 0..MaxDepth /\ ValuesBelow(j) \subseteq V
      BY <1>1, ValuesBelowNested
    <3>3. \A w \in ValuesBelow(j) : f[w] = g[w]
      <4> HIDE DEF g, V
      <4> QED BY <2>3, <3>2
    <3> HIDE DEF g
    <3> QED BY <3>1, <3>2, <3>3, WrittenInside
  <2>5. ASSUME NEW v \in W PROVE g[v] = Written(g, v, order[v], sp)
    <3>1. CASE v \in V
      <4>1. f[v] = Written(f, v, order[v], sp)
        <5> HIDE DEF V
        <5> QED BY <2>1, <3>1
      <4>2. g[v] = f[v]
        BY <2>3, <3>1
      <4> HIDE DEF g
      <4> QED BY <2>4, <4>1, <4>2
    <3>2. CASE v \notin V
      <4>1. g[v] = Written(f, v, order[v], sp)
        <5> HIDE DEF V, W
        <5> QED BY <3>2
      <4> HIDE DEF g
      <4> QED BY <2>4, <4>1
    <3> QED BY <3>1, <3>2
  <2>6. g = [v \in W |-> Written(g, v, order[v], sp)]
    <3>1. g = [v \in W |-> g[v]]
      <4> HIDE DEF V, W
      <4> QED OBVIOUS
    <3> HIDE DEF g, W
    <3> QED BY <2>5, <3>1
  <2> HIDE DEF g, W
  <2> QED BY <2>6 DEF W
<1>4. ASSUME NEW n \in 1..N, n - 1 \in H PROVE n \in H
  <2>1. PICK k \in 0..MaxDepth : k = n - 1 /\ n = k + 1
    BY <1>1
  <2>2. Good(k)
    BY <1>4, <2>1
  <2>3. Good(k + 1)
    <3> HIDE DEF Good
    <3> QED BY <1>3, <2>2
  <2>4. n \in Nat
    BY <1>1
  <2> HIDE DEF Good
  <2> QED BY <2>1, <2>3, <2>4
<1>5. 0 \in H
  <2> HIDE DEF Good
  <2> QED BY <1>2
<1>6. \A n \in 0..N : n \in H
  <2> HIDE DEF H, N
  <2> QED BY <1>1, <1>4, <1>5, Induction
<1>7. N \in H
  <2>1. N \in 0..N
    BY <1>1
  <2> HIDE DEF H, N
  <2> QED BY <1>6, <2>1
<1> QED BY <1>7 DEF Values

CanonicalOrder == [v \in Values |-> Rebuilt(v.entries)]
ServerOrder == [v \in Values |-> ByteSorted(v.entries)]

LEMMA CanonicalWrites ==
  ASSUME Reorders(CanonicalOrder)
  PROVE  \A v \in Values :
           CanonicalJsonStringify[v] = Written(CanonicalJsonStringify, v, CanonicalOrder[v], JsSpelling)
<1> DEFINE C == CanonicalJsonStringify
<1>1. PICK f : f = [v \in Values |-> Written(f, v, CanonicalOrder[v], JsSpelling)]
  BY WritesExist
<1>2. f = [v \in Values |-> Written(f, v, Rebuilt(v.entries), JsSpelling)]
  BY <1>1 DEF CanonicalOrder
<1>3. \E g : g = [v \in Values |-> Written(g, v, Rebuilt(v.entries), JsSpelling)]
  BY <1>2
<1>4. C = CHOOSE g : g = [v \in Values |-> Written(g, v, Rebuilt(v.entries), JsSpelling)]
  BY DEF CanonicalJsonStringify
<1> HIDE DEF C
<1>5. C = [v \in Values |-> Written(C, v, Rebuilt(v.entries), JsSpelling)]
  BY <1>3, <1>4, Zenon
<1>6. \A v \in Values : C[v] = Written(C, v, CanonicalOrder[v], JsSpelling)
  BY <1>5 DEF CanonicalOrder
<1> QED BY <1>6 DEF C

LEMMA ServerWrites ==
  ASSUME Reorders(ServerOrder)
  PROVE  \A v \in Values : ServerJson[v] = Written(ServerJson, v, ServerOrder[v], ServerSpelling)
<1> DEFINE S == ServerJson
<1>1. PICK f : f = [v \in Values |-> Written(f, v, ServerOrder[v], ServerSpelling)]
  BY WritesExist
<1>2. f = [v \in Values |-> Written(f, v, ByteSorted(v.entries), ServerSpelling)]
  BY <1>1 DEF ServerOrder
<1>3. \E g : g = [v \in Values |-> Written(g, v, ByteSorted(v.entries), ServerSpelling)]
  BY <1>2
<1>4. S = CHOOSE g : g = [v \in Values |-> Written(g, v, ByteSorted(v.entries), ServerSpelling)]
  BY DEF ServerJson
<1> HIDE DEF S
<1>5. S = [v \in Values |-> Written(S, v, ByteSorted(v.entries), ServerSpelling)]
  BY <1>3, <1>4, Zenon
<1>6. \A v \in Values : S[v] = Written(S, v, ServerOrder[v], ServerSpelling)
  BY <1>5 DEF ServerOrder
<1> QED BY <1>6 DEF S

-----------------------------------------------------------------------------
(* What the serializers do with the entries of an object.                  *)

EntriesOK(E) ==
  /\ IsFiniteSet(E)
  /\ \A x \in E : IsText(x.key)
  /\ \A x \in E : \A y \in E : x.key = y.key => x = y

KeyOrder(E) == {p \in E \X E : CompareUtf8(p[1].key, p[2].key)}

LEMMA KeyOrderStrict ==
  ASSUME NEW E, EntriesOK(E)
  PROVE  StrictOrder(E, KeyOrder(E))
<1>1. \A x \in E : IsText(x.key) /\ x.key \in Seq(Nat)
  BY TextMembers DEF EntriesOK
<1>2. \A x \in E : \A y \in E : <<x, y>> \in KeyOrder(E) <=> LexBefore(x.key, y.key)
  BY <1>1, CompareUtf8IsPointOrder DEF KeyOrder
<1>3. \A x \in E : ~LexBefore(x.key, x.key)
  BY <1>1, LexIrreflexive
<1>4. \A x \in E : \A y \in E : \A z \in E :
        LexBefore(x.key, y.key) /\ LexBefore(y.key, z.key) => LexBefore(x.key, z.key)
  BY <1>1, LexTransitive
<1>5. \A x \in E : \A y \in E :
        x # y => LexBefore(x.key, y.key) \/ LexBefore(y.key, x.key)
  BY <1>1, LexTotal DEF EntriesOK
<1> QED BY <1>2, <1>3, <1>4, <1>5 DEF StrictOrder

LEMMA ByteSortedArranges ==
  ASSUME NEW e, EntriesOK(Range(e))
  PROVE  /\ Arranges(ByteSorted(e), Range(e))
         /\ Increasing(ByteSorted(e), KeyOrder(Range(e)))
<1> DEFINE E == Range(e)
<1>1. ByteSorted(e) = InOrder(E, KeyOrder(E))
  BY DEF ByteSorted, KeyOrder
<1>2. StrictOrder(E, KeyOrder(E)) /\ IsFiniteSet(E)
  BY KeyOrderStrict DEF EntriesOK
<1> HIDE DEF E
<1> QED BY <1>1, <1>2, InOrderIncreases DEF E

LEMMA IndexOrderStrict ==
  ASSUME NEW E, EntriesOK(E)
  PROVE  StrictOrder(E, {p \in E \X E : IndexBefore(p[1].key, p[2].key)})
<1> DEFINE before == {p \in E \X E : IndexBefore(p[1].key, p[2].key)}
           n(x) == Len(x.key)
<1>1. \A x \in E : x.key \in Seq(Nat) /\ n(x) \in Nat
  BY TextMembers DEF EntriesOK
<1>2. \A x \in E : \A y \in E :
        <<x, y>> \in before <=> n(x) < n(y) \/ (n(x) = n(y) /\ LexBefore(x.key, y.key))
  BY DEF IndexBefore
<1>3. \A x \in E : ~LexBefore(x.key, x.key)
  BY <1>1, LexIrreflexive
<1>4. \A x \in E : \A y \in E : \A z \in E :
        LexBefore(x.key, y.key) /\ LexBefore(y.key, z.key) => LexBefore(x.key, z.key)
  BY <1>1, LexTransitive
<1>5. \A x \in E : \A y \in E :
        x # y => LexBefore(x.key, y.key) \/ LexBefore(y.key, x.key)
  BY <1>1, LexTotal DEF EntriesOK
<1>6. \A x \in E : n(x) \in Nat
  BY <1>1
<1> HIDE DEF before, n
<1>7. \A x \in E : <<x, x>> \notin before
  BY <1>2, <1>3, <1>6
<1>8. \A x \in E : \A y \in E : \A z \in E :
        <<x, y>> \in before /\ <<y, z>> \in before => <<x, z>> \in before
  <2> SUFFICES ASSUME NEW x \in E, NEW y \in E, NEW z \in E,
                      <<x, y>> \in before, <<y, z>> \in before
               PROVE  <<x, z>> \in before
    OBVIOUS
  <2>1. /\ n(x) < n(y) \/ (n(x) = n(y) /\ LexBefore(x.key, y.key))
        /\ n(y) < n(z) \/ (n(y) = n(z) /\ LexBefore(y.key, z.key))
    BY <1>2
  <2>2. n(x) \in Nat /\ n(y) \in Nat /\ n(z) \in Nat
    BY <1>6
  <2>3. n(x) < n(z) \/ (n(x) = n(z) /\ LexBefore(x.key, z.key))
    BY <1>4, <2>1, <2>2
  <2> QED BY <1>2, <2>3
<1>9. \A x \in E : \A y \in E : x # y => <<x, y>> \in before \/ <<y, x>> \in before
  BY <1>2, <1>5, <1>6
<1>10. StrictOrder(E, before)
  BY <1>7, <1>8, <1>9 DEF StrictOrder
<1> QED BY <1>10 DEF before

LEMMA PositionsStrict ==
  ASSUME NEW P \in SUBSET Nat
  PROVE  StrictOrder(P, {p \in P \X P : p[1] < p[2]})
<1> DEFINE before == {p \in P \X P : p[1] < p[2]}
<1>1. \A x \in P : \A y \in P : <<x, y>> \in before <=> x < y
  OBVIOUS
<1>2. \A x \in P : x \in Nat
  OBVIOUS
<1> HIDE DEF before
<1>3. StrictOrder(P, before)
  BY <1>1, <1>2 DEF StrictOrder
<1> QED BY <1>3 DEF before

\* Object.keys loses nothing and adds nothing.
LEMMA EnumeratedArranges ==
  ASSUME NEW R, NEW e \in Seq(R), EntriesOK(Range(e))
  PROVE  Arranges(Enumerated(e), Range(e))
<1> DEFINE E == Range(e)
           I == {x \in E : IsIndexKey(x.key)}
           P == {i \in DOMAIN e : ~IsIndexKey(e[i].key)}
           a == InOrder(I, {p \in I \X I : IndexBefore(p[1].key, p[2].key)})
           q == InOrder(P, {p \in P \X P : p[1] < p[2]})
           b == [i \in DOMAIN q |-> e[q[i]]]
<1>1. Len(e) \in Nat /\ DOMAIN e = 1..Len(e)
  OBVIOUS
<1>2. Enumerated(e) = a \o b
  BY DEF Enumerated
<1>3. Arranges(a, I)
  <2>1. I \in SUBSET E
    OBVIOUS
  <2>2. EntriesOK(I)
    <3>1. IsFiniteSet(I)
      <4> HIDE DEF I, E
      <4> QED BY <2>1, FS_Subset DEF EntriesOK, E
    <3> HIDE DEF I
    <3> QED BY <2>1, <3>1 DEF EntriesOK
  <2> HIDE DEF I
  <2> QED BY <2>2, IndexOrderStrict, InOrderIncreases DEF EntriesOK
<1>4. Arranges(q, P)
  <2>1. P \in SUBSET Nat /\ P \in SUBSET (1..Len(e))
    BY <1>1
  <2>2. IsFiniteSet(1..Len(e))
    <3>1. 1 \in Int /\ Len(e) \in Int
      BY <1>1
    <3> QED BY <3>1, FS_Interval
  <2> HIDE DEF P
  <2>3. IsFiniteSet(P)
    BY <2>1, <2>2, FS_Subset
  <2> QED BY <2>1, <2>3, PositionsStrict, InOrderIncreases
<1>5. P \in SUBSET (1..Len(e)) /\ \A i \in P : e[i] \in E
  BY <1>1 DEF Range
<1>6. \A x \in E : x \in I \/ \E i \in P : e[i] = x
  BY DEF Range
<1>7. I \in SUBSET E
  OBVIOUS
<1> HIDE DEF E, I, P, a, q
<1>8. q \in Seq(P) /\ Len(q) \in Nat /\ \A x \in P : \E i \in 1..Len(q) : q[i] = x
  BY <1>4 DEF Arranges
<1>9. /\ b \in Seq(E) /\ Len(b) = Len(q) /\ \A i \in 1..Len(q) : b[i] = e[q[i]]
  <2>1. DOMAIN q = 1..Len(q) /\ \A i \in 1..Len(q) : q[i] \in P
    BY <1>8
  <2>2. \A i \in 1..Len(q) : e[q[i]] \in E
    BY <1>5, <2>1
  <2> QED BY <1>8, <2>1, <2>2
<1>10. a \in Seq(E) /\ Len(a) \in Nat /\ \A x \in I : \E i \in 1..Len(a) : a[i] = x
  <2>1. a \in Seq(I) /\ \A x \in I : \E i \in 1..Len(a) : a[i] = x
    BY <1>3 DEF Arranges
  <2> QED BY <1>7, <2>1
<1> DEFINE s == a \o b
<1> HIDE DEF b
<1>11. /\ s \in Seq(E) /\ Len(s) = Len(a) + Len(b)
       /\ \A k \in 1..Len(a) : s[k] = a[k]
       /\ \A k \in 1..Len(b) : s[Len(a) + k] = b[k]
  <2>1. a \in Seq(E) /\ b \in Seq(E) /\ s = a \o b
    BY <1>9, <1>10
  <2> HIDE DEF s
  <2> QED BY ONLY <2>1, ConcatParts
<1> HIDE DEF s
<1>12. ASSUME NEW x \in E PROVE \E k \in 1..Len(s) : s[k] = x
  <2>1. CASE x \in I
    <3>1. PICK i \in 1..Len(a) : a[i] = x
      BY <1>10, <2>1
    <3>2. i \in 1..Len(s)
      BY <1>8, <1>9, <1>10, <1>11
    <3> QED BY <1>11, <3>1, <3>2
  <2>2. CASE \E i \in P : e[i] = x
    <3>1. PICK i \in P : e[i] = x
      BY <2>2
    <3>2. PICK k \in 1..Len(q) : q[k] = i
      BY <1>8
    <3>3. k \in 1..Len(b) /\ b[k] = x
      BY <1>9, <3>1, <3>2
    <3>4. Len(a) + k \in 1..Len(s)
      BY <1>8, <1>9, <1>10, <1>11, <3>3
    <3> QED BY <1>11, <3>3, <3>4
  <2> QED BY <1>6, <2>1, <2>2
<1>13. Arranges(s, E)
  BY <1>11, <1>12 DEF Arranges
<1> QED BY <1>2, <1>13 DEF s, E

LEMMA ArrangedRange ==
  ASSUME NEW E, NEW s, Arranges(s, E)
  PROVE  Range(s) = E /\ s \in Seq(E)
<1>1. s \in Seq(E) /\ \A x \in E : \E i \in 1..Len(s) : s[i] = x
  BY DEF Arranges
<1>2. DOMAIN s = 1..Len(s) /\ \A i \in 1..Len(s) : s[i] \in E
  BY <1>1
<1> QED BY <1>1, <1>2 DEF Range

\* canonicalize keeps every entry and makes none.
LEMMA RebuiltArranges ==
  ASSUME NEW R, NEW e \in Seq(R), EntriesOK(Range(e))
  PROVE  Arranges(Rebuilt(e), Range(e))
<1> DEFINE E == Range(e)  a == Enumerated(e)  b == ByteSorted(a)  c == Enumerated(b)
<1>1. Arranges(a, E)
  BY EnumeratedArranges
<1>2. Range(a) = E /\ EntriesOK(Range(a))
  <2> HIDE DEF a, E
  <2>1. Range(a) = E
    BY <1>1, ArrangedRange
  <2> QED BY <2>1 DEF E
<1>3. Arranges(b, E)
  <2> HIDE DEF a
  <2> QED BY <1>2, ByteSortedArranges
<1>4. Range(b) = E /\ b \in Seq(E)
  <2> HIDE DEF b, E
  <2> QED BY <1>3, ArrangedRange
<1>5. EntriesOK(Range(b))
  BY <1>4
<1>6. Arranges(c, E)
  <2> HIDE DEF b, E
  <2> QED BY <1>4, <1>5, EnumeratedArranges
<1> QED BY <1>6 DEF Rebuilt

LEMMA ObjectEntriesOK ==
  ASSUME NEW inner, NEW v, IsObject(v, inner)
  PROVE  EntriesOK(Range(v.entries)) /\ v.entries \in Seq([key: Seq(Nat), value: inner])
<1> DEFINE e == v.entries  R == [key: Seq(Nat), value: inner]
           E == Range(e)  I == 1..Len(e)
<1>1. e \in Seq(R)
  BY DEF IsObject
<1>2. Len(e) \in Nat /\ DOMAIN e = I
  <2> HIDE DEF R, e
  <2> QED BY <1>1
<1>3. IsFiniteSet(E)
  <2>1. e \in Surjection(I, E)
    <3>1. e \in [I -> E]
      <4>1. e = [i \in I |-> e[i]]
        <5> HIDE DEF R, e
        <5> QED BY <1>1
      <4>2. \A i \in I : e[i] \in E
        BY <1>2 DEF Range
      <4> HIDE DEF e, E, I
      <4> QED BY <4>1, <4>2
    <3>2. \A x \in E : \E i \in I : e[i] = x
      BY <1>2 DEF Range
    <3> HIDE DEF e, E, I
    <3> QED BY <3>1, <3>2 DEF Surjection
  <2>2. IsFiniteSet(I)
    <3>1. 1 \in Int /\ Len(e) \in Int
      BY <1>2
    <3> QED BY <3>1, FS_Interval
  <2> HIDE DEF e, E, I
  <2> QED BY <2>1, <2>2, FS_Surjection
<1>4. \A x \in E : IsText(x.key)
  BY DEF IsObject, Range
<1>5. \A x \in E : \A y \in E : x.key = y.key => x = y
  BY DEF IsObject, Range
<1> QED BY <1>1, <1>3, <1>4, <1>5 DEF EntriesOK

LEMMA ValueCases ==
  ASSUME NEW v \in Values
  PROVE  \/ IsLeaf(v) \/ IsArray(v, Values) \/ IsObject(v, Values)
<1>1. PICK n \in 0..MaxDepth : v \in Nested[n]
  <2>1. MaxDepth \in Nat /\ (MaxDepth + 1) - 1 = MaxDepth
    BY NestedAssumption
  <2> QED BY <2>1 DEF Values, ValuesBelow
<1>2. ValuesBelow(n) \subseteq Values
  <2>1. MaxDepth \in Nat /\ 0..(n - 1) \subseteq 0..((MaxDepth + 1) - 1)
    BY NestedAssumption
  <2> QED BY <2>1 DEF Values, ValuesBelow
<1>3. CASE IsArray(v, ValuesBelow(n))
  <2>1. v.items \in Seq(Values)
    BY <1>2, <1>3 DEF IsArray
  <2> QED BY <1>3, <2>1 DEF IsArray
<1>4. CASE IsObject(v, ValuesBelow(n))
  <2>1. [key: Seq(Nat), value: ValuesBelow(n)] \subseteq [key: Seq(Nat), value: Values]
    BY <1>2
  <2>2. v.entries \in Seq([key: Seq(Nat), value: Values])
    <3> DEFINE A == [key: Seq(Nat), value: ValuesBelow(n)]
               B == [key: Seq(Nat), value: Values]
    <3>1. v.entries \in Seq(A) /\ A \subseteq B
      BY <1>4, <2>1 DEF IsObject
    <3> HIDE DEF A, B
    <3>2. v.entries \in Seq(B)
      BY <3>1
    <3> QED BY <3>2 DEF B
  <2> QED BY <1>4, <2>2 DEF IsObject
<1> QED BY <1>1, <1>3, <1>4, ValueShape

LEMMA KindsDiffer ==
  ASSUME NEW v, NEW inner
  PROVE  /\ IsLeaf(v) => v.kind = "leaf" /\ ~IsArray(v, inner) /\ ~IsObject(v, inner)
         /\ IsArray(v, inner) => v.kind = "array" /\ ~IsLeaf(v) /\ ~IsObject(v, inner)
         /\ IsObject(v, inner) => v.kind = "object" /\ ~IsLeaf(v) /\ ~IsArray(v, inner)
BY DEF IsLeaf, IsArray, IsObject

LEMMA ObjectValue ==
  ASSUME NEW v \in Values, v.kind = "object"
  PROVE  IsObject(v, Values) /\ EntriesOK(Range(v.entries))
         /\ v.entries \in Seq([key: Seq(Nat), value: Values])
<1>1. IsObject(v, Values)
  BY ValueCases DEF IsLeaf, IsArray
<1> QED BY <1>1, ObjectEntriesOK

LEMMA BothReorder == Reorders(CanonicalOrder) /\ Reorders(ServerOrder)
<1>1. ASSUME NEW v \in Values, v.kind = "object"
      PROVE  /\ Arranges(CanonicalOrder[v], Range(v.entries))
             /\ Arranges(ServerOrder[v], Range(v.entries))
  <2>1. EntriesOK(Range(v.entries)) /\ v.entries \in Seq([key: Seq(Nat), value: Values])
    BY <1>1, ObjectValue
  <2> DEFINE e == v.entries  R == [key: Seq(Nat), value: Values]
  <2>2. CanonicalOrder[v] = Rebuilt(e) /\ ServerOrder[v] = ByteSorted(e)
    BY DEF CanonicalOrder, ServerOrder
  <2>3. EntriesOK(Range(e)) /\ e \in Seq(R)
    BY <2>1
  <2> HIDE DEF e, R
  <2>4. Arranges(Rebuilt(e), Range(e)) /\ Arranges(ByteSorted(e), Range(e))
    BY <2>3, RebuiltArranges, ByteSortedArranges
  <2> QED BY <2>2, <2>4 DEF e
<1> QED BY <1>1 DEF Reorders

-----------------------------------------------------------------------------
(* Canonical JSON: one turn of each serializer.                            *)

\* The entries of an object, written in the order of s.
WrittenEntries(f, s) == [i \in DOMAIN s |-> Entry(s[i].key, f[s[i].value])]
WrittenItems(f, v) == [i \in DOMAIN v.items |-> f[v.items[i]]]

LEMMA CanonicalTurn ==
  ASSUME NEW v \in Values
  PROVE  /\ v.kind = "leaf" => CanonicalJsonStringify[v] = LeafText(v.leaf, JsSpelling)
         /\ v.kind = "array" =>
              CanonicalJsonStringify[v] = ArrayOf(WrittenItems(CanonicalJsonStringify, v))
         /\ v.kind = "object" =>
              CanonicalJsonStringify[v] =
                ObjectOf(WrittenEntries(CanonicalJsonStringify, Rebuilt(v.entries)))
<1> DEFINE C == CanonicalJsonStringify
<1>1. C[v] = Written(C, v, CanonicalOrder[v], JsSpelling)
  BY BothReorder, CanonicalWrites
<1>2. CanonicalOrder[v] = Rebuilt(v.entries)
  BY DEF CanonicalOrder
<1> HIDE DEF C
<1>3. C[v] = Written(C, v, Rebuilt(v.entries), JsSpelling)
  BY <1>1, <1>2
<1>4. CASE v.kind = "leaf"
  BY <1>3, <1>4 DEF Written, C
<1>5. CASE v.kind = "array"
  BY <1>3, <1>5 DEF Written, WrittenItems, C
<1>6. CASE v.kind = "object"
  BY <1>3, <1>6 DEF Written, WrittenEntries, C
<1> QED BY <1>4, <1>5, <1>6 DEF C

LEMMA ServerTurn ==
  ASSUME NEW v \in Values
  PROVE  /\ v.kind = "leaf" => ServerJson[v] = LeafText(v.leaf, ServerSpelling)
         /\ v.kind = "array" => ServerJson[v] = ArrayOf(WrittenItems(ServerJson, v))
         /\ v.kind = "object" =>
              ServerJson[v] = ObjectOf(WrittenEntries(ServerJson, ByteSorted(v.entries)))
<1> DEFINE S == ServerJson
<1>1. S[v] = Written(S, v, ServerOrder[v], ServerSpelling)
  BY BothReorder, ServerWrites
<1>2. ServerOrder[v] = ByteSorted(v.entries)
  BY DEF ServerOrder
<1> HIDE DEF S
<1>3. S[v] = Written(S, v, ByteSorted(v.entries), ServerSpelling)
  BY <1>1, <1>2
<1>4. CASE v.kind = "leaf"
  BY <1>3, <1>4 DEF Written, S
<1>5. CASE v.kind = "array"
  BY <1>3, <1>5 DEF Written, WrittenItems, S
<1>6. CASE v.kind = "object"
  BY <1>3, <1>6 DEF Written, WrittenEntries, S
<1> QED BY <1>4, <1>5, <1>6 DEF S

LEMMA KindsKept ==
  ASSUME NEW v \in Values
  PROVE  /\ v.kind \in {"leaf", "array", "object"}
         /\ CanonicalJsonStringify[v].kind = v.kind
         /\ ServerJson[v].kind = v.kind
<1>1. v.kind \in {"leaf", "array", "object"}
  BY ValueCases DEF IsLeaf, IsArray, IsObject
<1> DEFINE a == WrittenItems(CanonicalJsonStringify, v)
           b == WrittenEntries(CanonicalJsonStringify, Rebuilt(v.entries))
           c == WrittenItems(ServerJson, v)
           d == WrittenEntries(ServerJson, ByteSorted(v.entries))
<1>2. /\ v.kind = "leaf" => CanonicalJsonStringify[v] = LeafText(v.leaf, JsSpelling)
      /\ v.kind = "array" => CanonicalJsonStringify[v] = ArrayOf(a)
      /\ v.kind = "object" => CanonicalJsonStringify[v] = ObjectOf(b)
  BY CanonicalTurn
<1>3. /\ v.kind = "leaf" => ServerJson[v] = LeafText(v.leaf, ServerSpelling)
      /\ v.kind = "array" => ServerJson[v] = ArrayOf(c)
      /\ v.kind = "object" => ServerJson[v] = ObjectOf(d)
  BY ServerTurn
<1> HIDE DEF a, b, c, d
<1>4. ArrayOf(a).kind = "array" /\ ArrayOf(c).kind = "array"
      /\ ObjectOf(b).kind = "object" /\ ObjectOf(d).kind = "object"
  BY DEF ArrayOf, ObjectOf
<1>5. \A x, sp : LeafText(x, sp).kind = "leaf"
  BY DEF LeafText
<1> QED BY <1>1, <1>2, <1>3, <1>4, <1>5

\* What is written tells what was written of each entry, in its place.
LEMMA EntriesTold ==
  ASSUME NEW f, NEW g, NEW s, NEW t,
         ObjectOf(WrittenEntries(f, s)) = ObjectOf(WrittenEntries(g, t))
  PROVE  /\ DOMAIN s = DOMAIN t
         /\ \A i \in DOMAIN s : s[i].key = t[i].key /\ f[s[i].value] = g[t[i].value]
<1> DEFINE a == WrittenEntries(f, s)  b == WrittenEntries(g, t)
<1>1. ObjectOf(a) = ObjectOf(b)
  OBVIOUS
<1>2. a = b
  <2> HIDE DEF a, b
  <2> QED BY <1>1 DEF ObjectOf
<1>3. DOMAIN a = DOMAIN s /\ DOMAIN b = DOMAIN t
  BY DEF WrittenEntries
<1>4. /\ \A i \in DOMAIN s : a[i] = Entry(s[i].key, f[s[i].value])
      /\ \A i \in DOMAIN t : b[i] = Entry(t[i].key, g[t[i].value])
  BY DEF WrittenEntries
<1> HIDE DEF a, b
<1>5. DOMAIN s = DOMAIN t
  BY <1>2, <1>3
<1>6. ASSUME NEW i \in DOMAIN s
      PROVE  s[i].key = t[i].key /\ f[s[i].value] = g[t[i].value]
  <2>1. Entry(s[i].key, f[s[i].value]) = Entry(t[i].key, g[t[i].value])
    BY <1>2, <1>4, <1>5
  <2> QED BY <2>1 DEF Entry
<1> QED BY <1>5, <1>6

\* The text of a leaf tells the leaf.
LEMMA LeafTold ==
  ASSUME NEW x, NEW y, NEW f, NEW g, LeafText(x, f) = LeafText(y, g)
  PROVE  x = y
<1>1. LeafText(x, f).leaf = x /\ LeafText(y, g).leaf = y
  BY DEF LeafText
<1> QED BY <1>1

LEMMA ItemsTold ==
  ASSUME NEW f, NEW g, NEW v, NEW w,
         ArrayOf(WrittenItems(f, v)) = ArrayOf(WrittenItems(g, w))
  PROVE  /\ DOMAIN v.items = DOMAIN w.items
         /\ \A i \in DOMAIN v.items : f[v.items[i]] = g[w.items[i]]
<1> DEFINE a == WrittenItems(f, v)  b == WrittenItems(g, w)
<1>1. ArrayOf(a) = ArrayOf(b)
  OBVIOUS
<1>2. a = b
  <2> HIDE DEF a, b
  <2> QED BY <1>1 DEF ArrayOf
<1>3. DOMAIN a = DOMAIN v.items /\ DOMAIN b = DOMAIN w.items
  BY DEF WrittenItems
<1>4. /\ \A i \in DOMAIN v.items : a[i] = f[v.items[i]]
      /\ \A i \in DOMAIN w.items : b[i] = g[w.items[i]]
  BY DEF WrittenItems
<1> HIDE DEF a, b
<1> QED BY <1>2, <1>3, <1>4

-----------------------------------------------------------------------------
(* What the application rebuilds is what the server signed only if the two *)
(* mean the same.                                                          *)

SameText(v) ==
  \A w \in Values : CanonicalJsonStringify[v] = ServerJson[w]
                      => ServerJson[v] = ServerJson[w]

\* An arrangement whose keys stand where those of an increasing one stand is
\* increasing itself.
LEMMA KeysOrdered ==
  ASSUME NEW E, NEW s, Arranges(s, E), NEW D, NEW t, Arranges(t, D),
         Increasing(t, KeyOrder(D)), DOMAIN s = DOMAIN t,
         \A i \in DOMAIN s : s[i].key = t[i].key
  PROVE  Increasing(s, KeyOrder(E))
<1>1. s \in Seq(E) /\ t \in Seq(D)
  BY DEF Arranges
<1>2. /\ DOMAIN s = 1..Len(s) /\ DOMAIN t = 1..Len(t) /\ Len(s) = Len(t)
      /\ \A i \in 1..Len(s) : s[i] \in E
  BY <1>1
<1> SUFFICES ASSUME NEW i \in 1..Len(s), NEW j \in 1..Len(s), i < j
             PROVE  <<s[i], s[j]>> \in KeyOrder(E)
  BY DEF Increasing
<1>3. <<t[i], t[j]>> \in KeyOrder(D)
  BY <1>2 DEF Increasing
<1>4. CompareUtf8(t[i].key, t[j].key)
  BY <1>3 DEF KeyOrder
<1>5. CompareUtf8(s[i].key, s[j].key)
  BY <1>2, <1>4
<1> QED BY <1>2, <1>5 DEF KeyOrder

LEMMA SameTextObject ==
  ASSUME NEW n \in 0..MaxDepth, NEW v \in Nested[n], v \in Values,
         \A x \in ValuesBelow(n) : SameText(x),
         IsObject(v, ValuesBelow(n))
  PROVE  SameText(v)
<1> SUFFICES ASSUME NEW w \in Values, CanonicalJsonStringify[v] = ServerJson[w]
             PROVE  ServerJson[v] = ServerJson[w]
  BY DEF SameText
<1>1. v.kind = "object"
  BY KindsDiffer
<1>2. w.kind = "object"
  BY <1>1, KindsKept
<1>3. EntriesOK(Range(v.entries)) /\ EntriesOK(Range(w.entries))
      /\ v.entries \in Seq([key: Seq(Nat), value: Values])
  BY <1>1, <1>2, ObjectValue
<1> DEFINE E == Range(v.entries)  D == Range(w.entries)
           r == Rebuilt(v.entries)  s == ByteSorted(v.entries)  t == ByteSorted(w.entries)
<1>4. Arranges(s, E) /\ Increasing(s, KeyOrder(E))
      /\ Arranges(t, D) /\ Increasing(t, KeyOrder(D))
  BY <1>3, ByteSortedArranges
<1>5. Arranges(r, E)
  <2> DEFINE R == [key: Seq(Nat), value: Values]  e == v.entries
  <2>1. e \in Seq(R) /\ EntriesOK(Range(e))
    BY <1>3
  <2> HIDE DEF R, e
  <2>2. Arranges(Rebuilt(e), Range(e))
    BY <2>1, RebuiltArranges
  <2> QED BY <2>2 DEF e
<1>6. CanonicalJsonStringify[v] = ObjectOf(WrittenEntries(CanonicalJsonStringify, r))
  BY <1>1, CanonicalTurn
<1>7. /\ ServerJson[v] = ObjectOf(WrittenEntries(ServerJson, s))
      /\ ServerJson[w] = ObjectOf(WrittenEntries(ServerJson, t))
  BY <1>1, <1>2, ServerTurn
<1>8. StrictOrder(E, KeyOrder(E)) /\ IsFiniteSet(E)
  BY <1>3, KeyOrderStrict DEF EntriesOK
<1>9. \A x \in E : x.value \in ValuesBelow(n)
  BY ObjectInside
<1> HIDE DEF E, D, r, s, t
<1>10. ObjectOf(WrittenEntries(CanonicalJsonStringify, r))
         = ObjectOf(WrittenEntries(ServerJson, t))
  BY <1>6, <1>7
<1>11. DOMAIN r = DOMAIN t
       /\ \A i \in DOMAIN r : /\ r[i].key = t[i].key
                              /\ CanonicalJsonStringify[r[i].value] = ServerJson[t[i].value]
  BY <1>10, EntriesTold
<1>12. Increasing(r, KeyOrder(E))
  BY <1>4, <1>5, <1>11, KeysOrdered
<1>13. r = s
  BY <1>4, <1>5, <1>8, <1>12, IncreasingOnce
<1>14. ASSUME NEW i \in DOMAIN s PROVE ServerJson[s[i].value] = ServerJson[t[i].value]
  <2>1. s \in Seq(E) /\ t \in Seq(D)
    BY <1>4 DEF Arranges
  <2>2. s[i] \in E /\ t[i] \in D
    BY <1>11, <1>13, <2>1
  <2>3. t[i].value \in Values
    BY <1>2, <2>2, ObjectInside, ObjectValue DEF D
  <2>4. SameText(s[i].value)
    BY <1>9, <2>2
  <2> QED BY <1>11, <1>13, <2>3, <2>4 DEF SameText
<1>15. WrittenEntries(ServerJson, s) = WrittenEntries(ServerJson, t)
  <2>1. DOMAIN s = DOMAIN t /\ \A i \in DOMAIN s : s[i].key = t[i].key
    BY <1>11, <1>13
  <2>2. \A i \in DOMAIN s : Entry(s[i].key, ServerJson[s[i].value])
                              = Entry(t[i].key, ServerJson[t[i].value])
    BY <1>14, <2>1
  <2> QED BY <2>1, <2>2 DEF WrittenEntries
<1> QED BY <1>7, <1>15

LEMMA SameTextArray ==
  ASSUME NEW n \in 0..MaxDepth, NEW v \in Nested[n], v \in Values,
         \A x \in ValuesBelow(n) : SameText(x),
         IsArray(v, ValuesBelow(n))
  PROVE  SameText(v)
<1> SUFFICES ASSUME NEW w \in Values, CanonicalJsonStringify[v] = ServerJson[w]
             PROVE  ServerJson[v] = ServerJson[w]
  BY DEF SameText
<1>1. v.kind = "array" /\ v.items \in Seq(ValuesBelow(n))
  BY DEF IsArray
<1>2. w.kind = "array"
  BY <1>1, KindsKept
<1>3. w.items \in Seq(Values)
  BY <1>2, ValueCases DEF IsLeaf, IsArray, IsObject
<1>4. /\ CanonicalJsonStringify[v] = ArrayOf(WrittenItems(CanonicalJsonStringify, v))
      /\ ServerJson[v] = ArrayOf(WrittenItems(ServerJson, v))
      /\ ServerJson[w] = ArrayOf(WrittenItems(ServerJson, w))
  BY <1>1, <1>2, CanonicalTurn, ServerTurn
<1>5. ArrayOf(WrittenItems(CanonicalJsonStringify, v)) = ArrayOf(WrittenItems(ServerJson, w))
  BY <1>4
<1>6. DOMAIN v.items = DOMAIN w.items
      /\ \A i \in DOMAIN v.items :
           CanonicalJsonStringify[v.items[i]] = ServerJson[w.items[i]]
  BY <1>5, ItemsTold
<1>7. \A i \in DOMAIN v.items : ServerJson[v.items[i]] = ServerJson[w.items[i]]
  <2>1. \A i \in DOMAIN v.items : v.items[i] \in ValuesBelow(n) /\ w.items[i] \in Values
    BY <1>1, <1>3, <1>6
  <2> QED BY <1>6, <2>1 DEF SameText
<1>8. WrittenItems(ServerJson, v) = WrittenItems(ServerJson, w)
  BY <1>6, <1>7 DEF WrittenItems
<1> QED BY <1>4, <1>8

\* If the application's text of one value is the server's text of another,
\* the server writes the two alike: they differ at most in the order in
\* which members were inserted.
THEOREM TextsTellValues ==
  ASSUME NEW v \in Values, NEW w \in Values, CanonicalJsonStringify[v] = ServerJson[w]
  PROVE  ServerJson[v] = ServerJson[w]
<1> DEFINE G == {x \in Values : SameText(x)}
<1>1. ASSUME NEW n \in 0..MaxDepth, ValuesBelow(n) \subseteq G PROVE Nested[n] \subseteq G
  <2> SUFFICES ASSUME NEW x \in Nested[n] PROVE x \in G
    OBVIOUS
  <2>1. x \in Values
    <3>1. n \in 0..((MaxDepth + 1) - 1)
      BY NestedAssumption
    <3> QED BY <3>1 DEF Values, ValuesBelow
  <2>2. \A y \in ValuesBelow(n) : SameText(y)
    BY <1>1
  <2>3. ASSUME IsLeaf(x) PROVE SameText(x)
    <3> SUFFICES ASSUME NEW y \in Values, CanonicalJsonStringify[x] = ServerJson[y]
                 PROVE  ServerJson[x] = ServerJson[y]
      BY DEF SameText
    <3>1. x.kind = "leaf"
      BY <2>3 DEF IsLeaf
    <3>2. y.kind = "leaf"
      BY <2>1, <3>1, KindsKept
    <3>3. /\ CanonicalJsonStringify[x] = LeafText(x.leaf, JsSpelling)
          /\ ServerJson[x] = LeafText(x.leaf, ServerSpelling)
          /\ ServerJson[y] = LeafText(y.leaf, ServerSpelling)
      BY <2>1, <3>1, <3>2, CanonicalTurn, ServerTurn
    <3>4. LeafText(x.leaf, JsSpelling) = LeafText(y.leaf, ServerSpelling)
      BY <3>3
    <3>5. x.leaf = y.leaf
      BY <3>4, LeafTold
    <3> QED BY <3>3, <3>5
  <2>4. SameText(x)
    BY <2>1, <2>2, <2>3, ValueShape, SameTextArray, SameTextObject
  <2> QED BY <2>1, <2>4
<1>2. Values \subseteq G
  <2> HIDE DEF G
  <2> QED BY <1>1, ValueInduction
<1> QED BY <1>2 DEF SameText

-----------------------------------------------------------------------------
(* What the server's text keeps of an object: its members, not their order. *)

Members(v) == {Entry(x.key, ServerJson[x.value]) : x \in Range(v.entries)}

LEMMA SortedMembers ==
  ASSUME NEW v \in Values, v.kind = "object"
  PROVE  /\ Members(v) = {Entry(ByteSorted(v.entries)[i].key,
                                ServerJson[ByteSorted(v.entries)[i].value])
                            : i \in DOMAIN ByteSorted(v.entries)}
         /\ Arranges(ByteSorted(v.entries), Range(v.entries))
         /\ Increasing(ByteSorted(v.entries), KeyOrder(Range(v.entries)))
         /\ EntriesOK(Range(v.entries))
<1> DEFINE s == ByteSorted(v.entries)  E == Range(v.entries)
<1>1. EntriesOK(E)
  BY ObjectValue
<1>2. Arranges(s, E) /\ Increasing(s, KeyOrder(E))
  BY <1>1, ByteSortedArranges
<1>3. Range(s) = E
  <2> HIDE DEF s, E
  <2> QED BY <1>2, ArrangedRange
<1>4. Members(v) = {Entry(s[i].key, ServerJson[s[i].value]) : i \in DOMAIN s}
  <2>1. Members(v) = {Entry(x.key, ServerJson[x.value]) : x \in Range(s)}
    BY <1>3 DEF Members
  <2> HIDE DEF s
  <2> QED BY <2>1 DEF Range
<1> QED BY <1>1, <1>2, <1>4

\* The server writes two objects alike if and only if they have the same
\* members, whatever the order in which these were inserted.
THEOREM ServerTellsMembers ==
  ASSUME NEW v \in Values, v.kind = "object", NEW w \in Values, w.kind = "object"
  PROVE  ServerJson[v] = ServerJson[w] <=> Members(v) = Members(w)
<1> DEFINE s == ByteSorted(v.entries)  t == ByteSorted(w.entries)
           E == Range(v.entries)  D == Range(w.entries)
           member(x) == Entry(x.key, ServerJson[x.value])
<1>1. /\ Members(v) = {member(s[i]) : i \in DOMAIN s}
      /\ Arranges(s, E) /\ Increasing(s, KeyOrder(E)) /\ EntriesOK(E)
  BY SortedMembers
<1>2. /\ Members(w) = {member(t[i]) : i \in DOMAIN t}
      /\ Arranges(t, D) /\ Increasing(t, KeyOrder(D)) /\ EntriesOK(D)
  BY SortedMembers
<1>3. /\ ServerJson[v] = ObjectOf(WrittenEntries(ServerJson, s))
      /\ ServerJson[w] = ObjectOf(WrittenEntries(ServerJson, t))
  BY ServerTurn
<1>4. \A x, y : member(x) = member(y)
                  <=> x.key = y.key /\ ServerJson[x.value] = ServerJson[y.value]
  BY DEF Entry
<1>5. Members(v) = {member(x) : x \in E} /\ Members(w) = {member(x) : x \in D}
  BY DEF Members
<1>6. StrictOrder(D, KeyOrder(D)) /\ IsFiniteSet(D)
  BY <1>2, KeyOrderStrict DEF EntriesOK
<1>7. WrittenEntries(ServerJson, s) = [i \in DOMAIN s |-> member(s[i])]
      /\ WrittenEntries(ServerJson, t) = [i \in DOMAIN t |-> member(t[i])]
  BY DEF WrittenEntries
<1> HIDE DEF s, t, E, D, member
<1>8. /\ s \in Seq(E) /\ Len(s) \in Nat /\ DOMAIN s = 1..Len(s)
      /\ \A i \in DOMAIN s : s[i] \in E
      /\ \A x \in E : \E i \in DOMAIN s : s[i] = x
  BY <1>1 DEF Arranges
<1>9. ASSUME ServerJson[v] = ServerJson[w] PROVE Members(v) = Members(w)
  <2>1. ObjectOf(WrittenEntries(ServerJson, s)) = ObjectOf(WrittenEntries(ServerJson, t))
    BY <1>3, <1>9
  <2>2. DOMAIN s = DOMAIN t
        /\ \A i \in DOMAIN s : s[i].key = t[i].key
                               /\ ServerJson[s[i].value] = ServerJson[t[i].value]
    BY <2>1, EntriesTold
  <2>3. \A i \in DOMAIN s : member(s[i]) = member(t[i])
    BY <1>4, <2>2
  <2> QED BY <1>1, <1>2, <2>2, <2>3
<1>10. ASSUME Members(v) = Members(w) PROVE ServerJson[v] = ServerJson[w]
  <2>0. /\ \A x \in E : \E y \in D : member(y) = member(x)
        /\ \A y \in D : \E x \in E : member(x) = member(y)
    <3>1. {member(x) : x \in E} = {member(y) : y \in D}
      BY <1>5, <1>10
    <3>2. \A x \in E : member(x) \in {member(y) : y \in D}
      BY <3>1
    <3>3. \A y \in D : member(y) \in {member(x) : x \in E}
      BY <3>1
    <3> QED BY ONLY <3>2, <3>3
  <2> DEFINE u == [i \in DOMAIN s |-> CHOOSE y \in D : member(y) = member(s[i])]
  <2>1. ASSUME NEW i \in DOMAIN s PROVE u[i] \in D /\ member(u[i]) = member(s[i])
    <3>1. \E y \in D : member(y) = member(s[i])
      BY <1>8, <2>0
    <3> QED BY <3>1
  <2>2. u \in Seq(D) /\ Len(u) = Len(s) /\ DOMAIN u = DOMAIN s
    <3>1. u = [i \in 1..Len(s) |-> u[i]] /\ DOMAIN u = DOMAIN s
      BY <1>8
    <3> HIDE DEF u
    <3> QED BY <1>8, <2>1, <3>1
  <2> HIDE DEF u
  <2>3. \A i \in DOMAIN s : u[i].key = s[i].key
                             /\ ServerJson[u[i].value] = ServerJson[s[i].value]
    BY <1>4, <2>1
  <2>4. ASSUME NEW y \in D PROVE \E i \in 1..Len(u) : u[i] = y
    <3>1. PICK x \in E : member(x) = member(y)
      BY <2>0
    <3>2. PICK i \in DOMAIN s : s[i] = x
      BY <1>8
    <3>3. u[i].key = y.key
      BY <1>4, <2>3, <3>1, <3>2
    <3>4. u[i] = y
      BY <1>2, <2>1, <3>3 DEF EntriesOK
    <3> QED BY <1>8, <2>2, <3>4
  <2>5. Arranges(u, D)
    BY <2>2, <2>4 DEF Arranges
  <2>6. Increasing(u, KeyOrder(D))
    BY <1>1, <2>2, <2>3, <2>5, KeysOrdered
  <2>7. u = t
    BY <1>2, <1>6, <2>5, <2>6, IncreasingOnce
  <2>8. DOMAIN s = DOMAIN t /\ \A i \in DOMAIN s : member(s[i]) = member(t[i])
    BY <2>1, <2>2, <2>7
  <2>9. [i \in DOMAIN s |-> member(s[i])] = [i \in DOMAIN t |-> member(t[i])]
    BY <2>8
  <2> QED BY <1>3, <1>7, <2>9
<1> QED BY <1>9, <1>10

-----------------------------------------------------------------------------
(* The payload binds what it is about.                                     *)

AccountObject(t) == ObjectOf(<<Entry(IdKey, Leaf(t.account))>>)
MachineObject(t) == ObjectOf(<<Entry(IdKey, Leaf(t.id)),
                               Entry(FingerprintKey, Leaf(t.fingerprint))>>)

LEMMA PayloadKeysDiffer ==
  /\ AccountKey # MachineKey /\ AccountKey # DatasetKey /\ MachineKey # DatasetKey
  /\ IdKey # FingerprintKey
<1>1. \A a \in Nat : \A b \in Nat : a # b => <<a>> # <<b>>
  OBVIOUS
<1> QED BY <1>1 DEF AccountKey, MachineKey, DatasetKey, IdKey, FingerprintKey

LEMMA PayloadParts ==
  ASSUME NEW t \in Tuple
  PROVE  /\ {PayloadObject(t), AccountObject(t), MachineObject(t), t.dataset,
              Leaf(t.account), Leaf(t.id), Leaf(t.fingerprint)} \subseteq Values
         /\ PayloadObject(t).kind = "object" /\ AccountObject(t).kind = "object"
         /\ MachineObject(t).kind = "object"
         /\ Range(PayloadObject(t).entries) =
              {Entry(AccountKey, AccountObject(t)), Entry(MachineKey, MachineObject(t)),
               Entry(DatasetKey, t.dataset)}
         /\ Range(AccountObject(t).entries) = {Entry(IdKey, Leaf(t.account))}
         /\ Range(MachineObject(t).entries) =
              {Entry(IdKey, Leaf(t.id)), Entry(FingerprintKey, Leaf(t.fingerprint))}
<1>1. \A a, b, c : Range(<<a, b, c>>) = {a, b, c}
  <2> SUFFICES ASSUME NEW a, NEW b, NEW c PROVE Range(<<a, b, c>>) = {a, b, c}
    OBVIOUS
  <2>1. DOMAIN <<a, b, c>> = {1, 2, 3}
    OBVIOUS
  <2> QED BY <2>1 DEF Range
<1>2. \A a, b : Range(<<a, b>>) = {a, b}
  <2> SUFFICES ASSUME NEW a, NEW b PROVE Range(<<a, b>>) = {a, b}
    OBVIOUS
  <2>1. DOMAIN <<a, b>> = {1, 2}
    OBVIOUS
  <2> QED BY <2>1 DEF Range
<1>3. \A a : Range(<<a>>) = {a}
  <2> SUFFICES ASSUME NEW a PROVE Range(<<a>>) = {a}
    OBVIOUS
  <2>1. DOMAIN <<a>> = {1}
    OBVIOUS
  <2> QED BY <2>1 DEF Range
<1>4. \A s : ObjectOf(s).kind = "object" /\ ObjectOf(s).entries = s
  BY DEF ObjectOf
<1>5. \A k, x : Entry(k, x).value = x
  BY DEF Entry
<1>6. PayloadObject(t) =
        ObjectOf(<<Entry(AccountKey, AccountObject(t)), Entry(MachineKey, MachineObject(t)),
                   Entry(DatasetKey, t.dataset)>>)
  BY DEF PayloadObject, AccountObject, MachineObject
<1>7. /\ PayloadObject(t).kind = "object"
      /\ Range(PayloadObject(t).entries) =
           {Entry(AccountKey, AccountObject(t)), Entry(MachineKey, MachineObject(t)),
            Entry(DatasetKey, t.dataset)}
  BY <1>1, <1>4, <1>6
<1>8. /\ AccountObject(t).kind = "object"
      /\ Range(AccountObject(t).entries) = {Entry(IdKey, Leaf(t.account))}
  BY <1>3, <1>4 DEF AccountObject
<1>9. /\ MachineObject(t).kind = "object"
      /\ Range(MachineObject(t).entries) =
           {Entry(IdKey, Leaf(t.id)), Entry(FingerprintKey, Leaf(t.fingerprint))}
  BY <1>2, <1>4 DEF MachineObject
<1>10. ASSUME NEW v \in Values, v.kind = "object", NEW e \in Range(v.entries)
       PROVE  e.value \in Values
  BY <1>10, ObjectValue, ObjectInside
<1>11. PayloadObject(t) \in Values
  BY PayloadsAssumption
<1>12. {AccountObject(t), MachineObject(t), t.dataset} \subseteq Values
  BY <1>5, <1>7, <1>10, <1>11
<1>13. {Leaf(t.account), Leaf(t.id), Leaf(t.fingerprint)} \subseteq Values
  BY <1>5, <1>8, <1>9, <1>10, <1>12
<1> QED BY <1>7, <1>8, <1>9, <1>11, <1>12, <1>13

\* What the server writes of a leaf.
ServerText(x) == LeafText(x, ServerSpelling)

LEMMA LeafWritten ==
  ASSUME NEW x, Leaf(x) \in Values
  PROVE  ServerJson[Leaf(x)] = ServerText(x)
<1>1. Leaf(x).kind = "leaf" /\ Leaf(x).leaf = x
  BY DEF Leaf
<1> QED BY <1>1, ServerTurn DEF ServerText

\* The entries of an object with two or three members.
Pair(k, a, l, b) == {Entry(k, a), Entry(l, b)}
Triple(k, a, l, b, m, c) == {Entry(k, a), Entry(l, b), Entry(m, c)}

LEMMA TriplesAlike ==
  ASSUME NEW k, NEW l, NEW m, k # l, k # m, l # m,
         NEW a, NEW b, NEW c, NEW d, NEW e, NEW f,
         Triple(k, a, l, b, m, c) = Triple(k, d, l, e, m, f)
  PROVE  a = d /\ b = e /\ c = f
<1>1. \A x, y, u, v : Entry(x, u) = Entry(y, v) => x = y /\ u = v
  BY DEF Entry
<1>2. /\ Entry(k, a) \in {Entry(k, d), Entry(l, e), Entry(m, f)}
      /\ Entry(l, b) \in {Entry(k, d), Entry(l, e), Entry(m, f)}
      /\ Entry(m, c) \in {Entry(k, d), Entry(l, e), Entry(m, f)}
  BY DEF Triple
<1> QED BY <1>1, <1>2

LEMMA PairsAlike ==
  ASSUME NEW k, NEW l, k # l, NEW a, NEW b, NEW c, NEW d,
         Pair(k, a, l, b) = Pair(k, c, l, d)
  PROVE  a = c /\ b = d
<1>1. \A x, y, u, v : Entry(x, u) = Entry(y, v) => x = y /\ u = v
  BY DEF Entry
<1>2. /\ Entry(k, a) \in {Entry(k, c), Entry(l, d)}
      /\ Entry(l, b) \in {Entry(k, c), Entry(l, d)}
  BY DEF Pair
<1> QED BY <1>1, <1>2

LEMMA MembersOfThree ==
  ASSUME NEW v, NEW k, NEW l, NEW m, NEW a, NEW b, NEW c,
         Range(v.entries) = Triple(k, a, l, b, m, c)
  PROVE  Members(v) = Triple(k, ServerJson[a], l, ServerJson[b], m, ServerJson[c])
<1> DEFINE x == Entry(k, a)  y == Entry(l, b)  z == Entry(m, c)
           member(e) == Entry(e.key, ServerJson[e.value])
<1>1. Members(v) = {member(e) : e \in {x, y, z}}
  BY DEF Members, Triple
<1>2. /\ x.key = k /\ x.value = a /\ y.key = l /\ y.value = b /\ z.key = m /\ z.value = c
  BY DEF Entry
<1> HIDE DEF x, y, z
<1>3. /\ member(x) = Entry(k, ServerJson[a]) /\ member(y) = Entry(l, ServerJson[b])
      /\ member(z) = Entry(m, ServerJson[c])
  BY <1>2
<1> HIDE DEF member
<1>4. {member(e) : e \in {x, y, z}} = {member(x), member(y), member(z)}
  OBVIOUS
<1> QED BY <1>1, <1>3, <1>4 DEF Triple

LEMMA MembersOfTwo ==
  ASSUME NEW v, NEW k, NEW l, NEW a, NEW b, Range(v.entries) = Pair(k, a, l, b)
  PROVE  Members(v) = Pair(k, ServerJson[a], l, ServerJson[b])
<1>1. Range(v.entries) = Triple(k, a, l, b, l, b)
  BY DEF Pair, Triple
<1>2. Members(v) = Triple(k, ServerJson[a], l, ServerJson[b], l, ServerJson[b])
  BY <1>1, MembersOfThree
<1> QED BY <1>2 DEF Pair, Triple

LEMMA PayloadMembers ==
  ASSUME NEW t \in Tuple
  PROVE  /\ Members(PayloadObject(t)) =
              Triple(AccountKey, ServerJson[AccountObject(t)],
                     MachineKey, ServerJson[MachineObject(t)],
                     DatasetKey, ServerJson[t.dataset])
         /\ Members(AccountObject(t)) = Pair(IdKey, ServerText(t.account), IdKey, ServerText(t.account))
         /\ Members(MachineObject(t)) = Pair(IdKey, ServerText(t.id),
                                             FingerprintKey, ServerText(t.fingerprint))
<1>1. /\ ServerJson[Leaf(t.account)] = ServerText(t.account)
      /\ ServerJson[Leaf(t.id)] = ServerText(t.id)
      /\ ServerJson[Leaf(t.fingerprint)] = ServerText(t.fingerprint)
  BY PayloadParts, LeafWritten
<1>2. /\ Range(PayloadObject(t).entries) =
           Triple(AccountKey, AccountObject(t), MachineKey, MachineObject(t),
                  DatasetKey, t.dataset)
      /\ Range(AccountObject(t).entries) = Pair(IdKey, Leaf(t.account), IdKey, Leaf(t.account))
      /\ Range(MachineObject(t).entries) =
           Pair(IdKey, Leaf(t.id), FingerprintKey, Leaf(t.fingerprint))
  BY PayloadParts DEF Triple, Pair
<1>3. /\ Members(PayloadObject(t)) =
           Triple(AccountKey, ServerJson[AccountObject(t)],
                  MachineKey, ServerJson[MachineObject(t)],
                  DatasetKey, ServerJson[t.dataset])
      /\ Members(AccountObject(t)) =
           Pair(IdKey, ServerJson[Leaf(t.account)], IdKey, ServerJson[Leaf(t.account)])
      /\ Members(MachineObject(t)) =
           Pair(IdKey, ServerJson[Leaf(t.id)], FingerprintKey, ServerJson[Leaf(t.fingerprint)])
  BY <1>2, MembersOfThree, MembersOfTwo
<1> QED BY <1>1, <1>3

\* Two payloads the server writes alike are about the same account, machine,
\* fingerprint and data.
LEMMA PayloadsAlike ==
  ASSUME NEW t \in Tuple, NEW u \in Tuple
  PROVE  ServerPayload[t] = ServerPayload[u]
           <=> /\ t.account = u.account /\ t.id = u.id /\ t.fingerprint = u.fingerprint
               /\ SameData(t.dataset, u.dataset)
<1>1. ServerPayload[t] = ServerJson[PayloadObject(t)]
      /\ ServerPayload[u] = ServerJson[PayloadObject(u)]
  BY DEF ServerPayload
<1>2. ServerPayload[t] = ServerPayload[u]
        <=> Members(PayloadObject(t)) = Members(PayloadObject(u))
  BY <1>1, PayloadParts, ServerTellsMembers
<1>3. ServerJson[AccountObject(t)] = ServerJson[AccountObject(u)]
        <=> Members(AccountObject(t)) = Members(AccountObject(u))
  BY PayloadParts, ServerTellsMembers
<1>4. ServerJson[MachineObject(t)] = ServerJson[MachineObject(u)]
        <=> Members(MachineObject(t)) = Members(MachineObject(u))
  BY PayloadParts, ServerTellsMembers
<1>5. \A x, y : ServerText(x) = ServerText(y) => x = y
  BY LeafTold DEF ServerText
<1>6. ASSUME ServerPayload[t] = ServerPayload[u]
      PROVE  /\ t.account = u.account /\ t.id = u.id /\ t.fingerprint = u.fingerprint
             /\ SameData(t.dataset, u.dataset)
  <2>1. Triple(AccountKey, ServerJson[AccountObject(t)], MachineKey,
               ServerJson[MachineObject(t)], DatasetKey, ServerJson[t.dataset]) =
        Triple(AccountKey, ServerJson[AccountObject(u)], MachineKey,
               ServerJson[MachineObject(u)], DatasetKey, ServerJson[u.dataset])
    BY <1>2, <1>6, PayloadMembers
  <2>2. /\ ServerJson[AccountObject(t)] = ServerJson[AccountObject(u)]
        /\ ServerJson[MachineObject(t)] = ServerJson[MachineObject(u)]
        /\ ServerJson[t.dataset] = ServerJson[u.dataset]
    BY <2>1, PayloadKeysDiffer, TriplesAlike
  <2>3. Pair(IdKey, ServerText(t.account), IdKey, ServerText(t.account))
          = Pair(IdKey, ServerText(u.account), IdKey, ServerText(u.account))
    BY <1>3, <2>2, PayloadMembers
  <2>4. t.account = u.account
    <3>1. Entry(IdKey, ServerText(t.account)) = Entry(IdKey, ServerText(u.account))
      BY <2>3 DEF Pair
    <3>2. ServerText(t.account) = ServerText(u.account)
      BY <3>1 DEF Entry
    <3> QED BY <1>5, <3>2
  <2>5. Pair(IdKey, ServerText(t.id), FingerprintKey, ServerText(t.fingerprint))
          = Pair(IdKey, ServerText(u.id), FingerprintKey, ServerText(u.fingerprint))
    BY <1>4, <2>2, PayloadMembers
  <2>6. ServerText(t.id) = ServerText(u.id) /\ ServerText(t.fingerprint) = ServerText(u.fingerprint)
    BY <2>5, PayloadKeysDiffer, PairsAlike
  <2> QED BY <1>5, <2>2, <2>4, <2>6 DEF SameData
<1>7. ASSUME t.account = u.account, t.id = u.id, t.fingerprint = u.fingerprint,
             SameData(t.dataset, u.dataset)
      PROVE  ServerPayload[t] = ServerPayload[u]
  <2>1. AccountObject(t) = AccountObject(u) /\ MachineObject(t) = MachineObject(u)
    BY <1>7 DEF AccountObject, MachineObject
  <2>2. ServerJson[t.dataset] = ServerJson[u.dataset]
    BY <1>7 DEF SameData
  <2>3. Members(PayloadObject(t)) = Members(PayloadObject(u))
    BY <2>1, <2>2, PayloadMembers
  <2> QED BY <1>2, <2>3
<1> QED BY <1>6, <1>7

-----------------------------------------------------------------------------
(* A proof that verifies.                                                  *)

\* A proof is the server's text of the tuple it was minted for.
Proof(t) == [tuple |-> t, payload |-> ServerPayload[t]]
ProofInv == proof = NoProof \/ \E t \in Tuple : proof = Proof(t)

LEMMA ProofInvNext == SeatsInv /\ ProofInv /\ [Next]_vars => ProofInv'
<1> SUFFICES ASSUME SeatsInv, ProofInv, [Next]_vars PROVE ProofInv'
  OBVIOUS
<1>1. ASSUME NEW reading \in Readings, Activate(reading) PROVE ProofInv'
  BY <1>1 DEF Activate, ProofInv
<1>2. ASSUME NEW row \in rows, NEW dataset \in Datasets, GenerateOfflineProof(row, dataset)
      PROVE  ProofInv'
  <2> DEFINE t == [account |-> Account, id |-> row.id,
                   fingerprint |-> row.fingerprint, dataset |-> dataset]
  <2>1. RowOK(row)
    BY RowTyped DEF SeatsInv
  <2>2. t \in Tuple
    BY <2>1, ConstantsAssumption DEF RowOK, Tuple
  <2>3. proof' = [tuple |-> t, payload |-> ServerPayload[t]]
    BY <1>2 DEF GenerateOfflineProof
  <2> HIDE DEF t
  <2> QED BY <2>2, <2>3 DEF ProofInv, Proof
<1>3. ASSUME NEW p \in Presentations, NEW t \in Tuple, VerifyOfflineProof(p[1], p[2], t)
      PROVE  ProofInv'
  BY <1>3 DEF VerifyOfflineProof, ProofInv
<1>4. CASE UNCHANGED vars
  BY <1>4 DEF vars, ProofInv
<1> QED BY <1>1, <1>2, <1>3, <1>4 DEF Next

LEMMA BindsNext ==
  SeatsInv /\ ProofInv /\ AcceptedProofBinds /\ [Next]_vars => AcceptedProofBinds'
<1> SUFFICES ASSUME SeatsInv, ProofInv, AcceptedProofBinds, [Next]_vars
             PROVE  AcceptedProofBinds'
  OBVIOUS
<1>1. NoAnswer.verdict # "true"
  BY DEF NoAnswer
<1>2. ASSUME NEW reading \in Readings, Activate(reading) PROVE AcceptedProofBinds'
  BY <1>1, <1>2 DEF Activate, AcceptedProofBinds
<1>3. ASSUME NEW row \in rows, NEW dataset \in Datasets, GenerateOfflineProof(row, dataset)
      PROVE  AcceptedProofBinds'
  BY <1>1, <1>3 DEF GenerateOfflineProof, AcceptedProofBinds
<1>4. ASSUME NEW p \in Presentations, NEW t \in Tuple, VerifyOfflineProof(p[1], p[2], t)
      PROVE  AcceptedProofBinds'
  <2> SUFFICES ASSUME answer'.verdict = "true" PROVE answer'.matches
    BY DEF AcceptedProofBinds
  <2>1. PICK u \in Tuple : proof = Proof(u)
    BY <1>4 DEF VerifyOfflineProof, ProofInv
  <2> DEFINE parsed == ParseProofToken(p[1])
             verified == VerifyRsaPkcs1(BuildProofPayloadJson[t], p[1], p[2])
             said == IF parsed # "none" THEN parsed ELSE Verdict(verified)
             same == /\ [t EXCEPT !.dataset = proof.tuple.dataset] = proof.tuple
                     /\ SameData(t.dataset, proof.tuple.dataset)
  <2>2. \E i, x : answer' = [verdict |-> said, matches |-> same, intact |-> i, apart |-> x]
    BY <1>4 DEF VerifyOfflineProof
  <2>3. said = "true" /\ answer'.matches = same
    <3> HIDE DEF said, same
    <3> QED BY <2>2
  <2>4. parsed \in {"none", "malformed-proof", "invalid-base64"}
    BY DEF ParseProofToken
  <2>5. verified
    <3> HIDE DEF parsed, verified
    <3> QED BY <2>3, <2>4 DEF Verdict
  <2>6. BuildProofPayloadJson[t] = proof.payload
    BY <2>5 DEF VerifyRsaPkcs1
  <2>7. proof.payload = ServerPayload[u] /\ proof.tuple = u
    BY <2>1 DEF Proof
  <2>8. CanonicalJsonStringify[PayloadObject(t)] = ServerJson[PayloadObject(u)]
    BY <2>6, <2>7 DEF BuildProofPayloadJson, ServerPayload
  <2>9. ServerPayload[t] = ServerPayload[u]
    <3>1. ServerJson[PayloadObject(t)] = ServerJson[PayloadObject(u)]
      BY <2>8, PayloadParts, TextsTellValues
    <3> QED BY <3>1 DEF ServerPayload
  <2>10. /\ t.account = u.account /\ t.id = u.id /\ t.fingerprint = u.fingerprint
         /\ SameData(t.dataset, u.dataset)
    BY <2>9, PayloadsAlike
  <2>11. [t EXCEPT !.dataset = u.dataset] = u
    <3>1. /\ t = [account |-> t.account, id |-> t.id,
                  fingerprint |-> t.fingerprint, dataset |-> t.dataset]
          /\ u = [account |-> u.account, id |-> u.id,
                  fingerprint |-> u.fingerprint, dataset |-> u.dataset]
      BY DEF Tuple
    <3>2. [t EXCEPT !.dataset = u.dataset] =
            [account |-> t.account, id |-> t.id,
             fingerprint |-> t.fingerprint, dataset |-> u.dataset]
      BY <3>1
    <3> QED BY <2>10, <3>1, <3>2
  <2>12. same
    BY <2>7, <2>10, <2>11
  <2> QED BY <2>3, <2>12
<1>5. CASE UNCHANGED vars
  BY <1>5 DEF vars, AcceptedProofBinds
<1> QED BY <1>2, <1>3, <1>4, <1>5 DEF Next

\* A proof that verifies was minted for this account, machine and fingerprint
\* and for a dataset with the same members, down to the last one, whatever
\* objects applications build.
THEOREM SpecAcceptedProofBinds == Spec => []AcceptedProofBinds
<1>1. Init => ProofInv /\ AcceptedProofBinds
  BY DEF Init, ProofInv, AcceptedProofBinds, NoAnswer
<1> QED BY <1>1, SeatsInit, SeatsNext, ProofInvNext, BindsNext, PTL DEF Spec

-----------------------------------------------------------------------------
(* The key: what is written as a TLV is read back.                         *)

LEMMA SequencesSame ==
  ASSUME NEW u \in Seq(Nat), NEW w \in Seq(Nat), Len(u) = Len(w),
         \A i \in 1..Len(w) : u[i] = w[i]
  PROVE  u = w
OBVIOUS

LEMMA SliceIs ==
  ASSUME NEW s \in Seq(Nat), NEW c \in Seq(Nat), NEW m \in Nat, m >= 1,
         Len(s) = (m - 1) + Len(c),
         \A k \in 1..Len(c) : s[(m - 1) + k] = c[k]
  PROVE  SubSeq(s, m, Len(s)) = c
<1> DEFINE n == Len(s)  r == SubSeq(s, m, n)
<1>1. n \in Nat /\ Len(c) \in Nat /\ n = (m - 1) + Len(c)
  OBVIOUS
<1>2. \A i \in m..n : s[i] \in Nat
  <2> SUFFICES ASSUME NEW i \in m..n PROVE s[i] \in Nat
    OBVIOUS
  <2>1. i \in 1..Len(s)
    BY <1>1
  <2> QED BY <2>1
<1> HIDE DEF n
<1>a. m \in Int /\ n \in Int
  BY <1>1
<1>b. r \in Seq(Nat) /\ Len(r) = IF m <= n THEN n - m + 1 ELSE 0
  BY <1>2, <1>a, SubSeqProperties
<1>c. \A i \in 1..(n - m + 1) : SubSeq(s, m, n)[i] = s[m + i - 1]
  BY <1>2, <1>a, SubSeqProperties, SMTT(60)
<1>3. /\ r \in Seq(Nat)
      /\ Len(r) = IF m <= n THEN n - m + 1 ELSE 0
      /\ \A i \in 1..(n - m + 1) : r[i] = s[m + i - 1]
  BY <1>b, <1>c
<1> HIDE DEF r
<1>4. Len(r) = Len(c)
  BY <1>1, <1>3
<1>5. ASSUME NEW i \in 1..Len(c) PROVE r[i] = c[i]
  <2>1. i \in 1..(n - m + 1)
    BY <1>1
  <2>2. PICK j \in Nat : j = m + i - 1 /\ j = (m - 1) + i
    OBVIOUS
  <2>3. r[i] = s[j] /\ s[j] = c[i]
    BY <1>3, <2>1, <2>2
  <2> QED BY <2>3
<1> QED BY <1>3, <1>4, <1>5 DEF r, n

\* A length that two bytes can hold, and the length of a key.
Short(n) == n \in Nat /\ n <= 65535
KeyLong(n) == n \in Nat /\ n <= 10000
ModulusLong(n) == n \in 1..8192

\* A length is one byte, or says first in how many it comes.
LEMMA DerLengthShape ==
  ASSUME NEW n, Short(n)
  PROVE  /\ DerLength(n) \in Seq(Nat)
         /\ \/ Len(DerLength(n)) = 1 /\ DerLength(n)[1] = n /\ n < 128
            \/ Len(DerLength(n)) = 2 /\ DerLength(n)[1] = 129 /\ DerLength(n)[2] = n
            \/ /\ Len(DerLength(n)) = 3 /\ DerLength(n)[1] = 130
               /\ 256 * DerLength(n)[2] + DerLength(n)[3] = n
<1>0. n \in Nat
  BY DEF Short
<1>1. CASE n < 128
  <2>1. DerLength(n) = <<n>>
    BY <1>1 DEF DerLength
  <2> QED BY <1>0, <1>1, <2>1
<1>2. CASE n >= 128 /\ n < 256
  <2>1. BytesOf(n) = <<n>>
    BY <1>2 DEF BytesOf
  <2>2. DerLength(n) = <<128 + Len(BytesOf(n))>> \o BytesOf(n)
    BY <1>0, <1>2 DEF DerLength
  <2> DEFINE u == <<129>>  w == <<n>>  v == DerLength(n)
  <2>3. v = u \o w
    BY <2>1, <2>2
  <2>4. u \in Seq(Nat) /\ Len(u) = 1 /\ u[1] = 129 /\ w \in Seq(Nat) /\ Len(w) = 1 /\ w[1] = n
    BY <1>0
  <2> HIDE DEF u, v, w
  <2>5. /\ v \in Seq(Nat) /\ Len(v) = Len(u) + Len(w)
        /\ \A k \in 1..Len(u) : v[k] = u[k]
        /\ \A k \in 1..Len(w) : v[Len(u) + k] = w[k]
    <3>1. u \in Seq(Nat) /\ w \in Seq(Nat) /\ v = u \o w
      BY <2>3, <2>4
    <3> QED BY ONLY <3>1, ConcatNumbers
  <2>6. v \in Seq(Nat) /\ Len(v) = 2 /\ v[1] = 129 /\ v[1 + 1] = n
    BY <2>4, <2>5
  <2> QED BY <2>6 DEF v
<1>3. CASE n >= 256
  <2> DEFINE q == n \div 256  r == n % 256
  <2>1. q \in Nat /\ r \in Nat /\ 256 * q + r = n
    BY <1>0
  <2>2. BytesOf(n) = <<q, r>>
    BY <1>0, <1>3, SMT DEF BytesOf, Short
  <2>3. DerLength(n) = <<128 + Len(BytesOf(n))>> \o BytesOf(n)
    BY <1>0, <1>3 DEF DerLength
  <2> HIDE DEF q, r
  <2> DEFINE u == <<130>>  w == <<q, r>>  v == DerLength(n)
  <2>4. v = u \o w
    BY <2>2, <2>3
  <2>5. u \in Seq(Nat) /\ Len(u) = 1 /\ u[1] = 130
        /\ w \in Seq(Nat) /\ Len(w) = 2 /\ w[1] = q /\ w[2] = r
    BY <2>1
  <2> HIDE DEF u, v, w
  <2>6. /\ v \in Seq(Nat) /\ Len(v) = Len(u) + Len(w)
        /\ \A k \in 1..Len(u) : v[k] = u[k]
        /\ \A k \in 1..Len(w) : v[Len(u) + k] = w[k]
    <3>1. u \in Seq(Nat) /\ w \in Seq(Nat) /\ v = u \o w
      BY <2>4, <2>5
    <3> QED BY ONLY <3>1, ConcatNumbers
  <2>7. v \in Seq(Nat) /\ Len(v) = 3 /\ v[1] = 130 /\ v[1 + 1] = q /\ v[1 + 2] = r
    BY <2>5, <2>6
  <2> QED BY <2>1, <2>7 DEF v
<1> QED BY <1>0, <1>1, <1>2, <1>3

\* After p bytes of s stand a tag, the length bytes L and, to the end, c.
TlvAt(s, p, tag, L, c) ==
  /\ Len(L) \in 1..3
  /\ Len(s) = p + 1 + Len(L) + Len(c)
  /\ s[p + 1] = tag
  /\ \A k \in 1..Len(L) : s[p + 1 + k] = L[k]
  /\ \A k \in 1..Len(c) : s[p + 1 + Len(L) + k] = c[k]

Prefixed(s, pre, tag, c) ==
  /\ s \in Seq(Nat) /\ \A k \in 1..Len(pre) : s[k] = pre[k]
  /\ TlvAt(s, Len(pre), tag, DerLength(Len(c)), c)

LEMMA PrefixedTlv ==
  ASSUME NEW pre \in Seq(Nat), NEW tag \in Nat, NEW c \in Seq(Nat), Short(Len(c))
  PROVE  Prefixed(pre \o DerTlv(tag, c), pre, tag, c) /\ DerTlv(tag, c) \in Seq(Nat)
<1> DEFINE s == pre \o DerTlv(tag, c)
<1> DEFINE L == DerLength(Len(c))  one == <<tag>>  head == one \o L  T == head \o c
<1>1. Len(c) \in Nat
  OBVIOUS
<1>2. L \in Seq(Nat) /\ Len(L) \in 1..3
  <2> DEFINE n == Len(c)
  <2>1. Short(n)
    OBVIOUS
  <2> HIDE DEF n
  <2>2. DerLength(n) \in Seq(Nat) /\ Len(DerLength(n)) \in 1..3
    BY ONLY <2>1, DerLengthShape
  <2> QED BY <2>2 DEF n
<1>3. one \in Seq(Nat) /\ Len(one) = 1 /\ one[1] = tag
  OBVIOUS
<1>4. DerTlv(tag, c) = T
  BY DEF DerTlv
<1>5. Len(L) \in Nat /\ Len(pre) \in Nat
  BY <1>2
<1> HIDE DEF L, one
<1>6. /\ head \in Seq(Nat) /\ Len(head) = Len(one) + Len(L)
      /\ \A k \in 1..Len(one) : head[k] = one[k]
      /\ \A k \in 1..Len(L) : head[Len(one) + k] = L[k]
  <2>1. one \in Seq(Nat) /\ L \in Seq(Nat) /\ head = one \o L
    BY <1>2, <1>3
  <2> HIDE DEF head
  <2> QED BY ONLY <2>1, ConcatNumbers
<1> HIDE DEF head
<1>7. /\ T \in Seq(Nat) /\ Len(T) = Len(head) + Len(c)
      /\ \A k \in 1..Len(head) : T[k] = head[k]
      /\ \A k \in 1..Len(c) : T[Len(head) + k] = c[k]
  <2>1. head \in Seq(Nat) /\ c \in Seq(Nat) /\ T = head \o c
    BY <1>6
  <2> HIDE DEF T
  <2> QED BY ONLY <2>1, ConcatNumbers
<1> HIDE DEF T
<1>8. /\ s \in Seq(Nat) /\ Len(s) = Len(pre) + Len(T)
      /\ \A k \in 1..Len(pre) : s[k] = pre[k]
      /\ \A k \in 1..Len(T) : s[Len(pre) + k] = T[k]
  <2>1. pre \in Seq(Nat) /\ T \in Seq(Nat) /\ s = pre \o T
    BY <1>4, <1>7
  <2> HIDE DEF s
  <2> QED BY ONLY <2>1, ConcatNumbers
<1> HIDE DEF s
<1> DEFINE p == Len(pre)  h == Len(L)  n == Len(c)
<1>9. p = Len(pre) /\ h = Len(L) /\ n = Len(c)
  OBVIOUS
<1> HIDE DEF p, h, n
<1>10. /\ p \in Nat /\ h \in 1..3 /\ n \in Nat
       /\ Len(one) = 1 /\ Len(head) = 1 + h /\ Len(T) = (1 + h) + n
       /\ Len(s) = p + 1 + h + n
  <2>1. p \in Nat /\ h \in 1..3 /\ n \in Nat
    BY ONLY <1>1, <1>2, <1>5, <1>9
  <2>2. /\ Len(one) = 1 /\ Len(head) = Len(one) + Len(L)
        /\ Len(T) = Len(head) + Len(c) /\ Len(s) = Len(pre) + Len(T)
    BY <1>3, <1>6, <1>7, <1>8
  <2> QED BY ONLY <1>9, <2>1, <2>2
<1>11. s[p + 1] = tag
  <2>1. 1 \in 1..Len(one) /\ 1 \in 1..Len(head) /\ 1 \in 1..Len(T)
    BY ONLY <1>10
  <2>2. s[p + 1] = T[1]
    BY ONLY <1>8, <1>9, <2>1
  <2>3. T[1] = head[1] /\ head[1] = one[1]
    BY ONLY <1>6, <1>7, <2>1
  <2> QED BY ONLY <1>3, <2>2, <2>3
<1>12. ASSUME NEW k \in 1..h PROVE s[p + 1 + k] = L[k]
  <2>1. k \in 1..Len(L) /\ 1 + k \in 1..Len(head) /\ 1 + k \in 1..Len(T)
    BY <1>9, <1>10
  <2>2. s[p + (1 + k)] = T[1 + k]
    BY ONLY <1>8, <1>9, <2>1
  <2>3. T[1 + k] = head[1 + k]
    BY ONLY <1>7, <2>1
  <2>4. head[1 + k] = L[k]
    BY ONLY <1>6, <1>10, <2>1
  <2>5. p + 1 + k = p + (1 + k)
    BY ONLY <1>10, k \in 1..h
  <2> QED BY ONLY <2>2, <2>3, <2>4, <2>5
<1>13. ASSUME NEW k \in 1..n PROVE s[p + 1 + h + k] = c[k]
  <2>1. k \in 1..Len(c) /\ (1 + h) + k \in 1..Len(T)
    BY <1>9, <1>10
  <2>2. s[p + ((1 + h) + k)] = T[(1 + h) + k]
    BY ONLY <1>8, <1>9, <2>1
  <2>3. T[(1 + h) + k] = c[k]
    BY ONLY <1>7, <1>10, <2>1
  <2>4. p + 1 + h + k = p + ((1 + h) + k)
    BY ONLY <1>10, k \in 1..n
  <2> QED BY ONLY <2>2, <2>3, <2>4
<1>14. s \in Seq(Nat) /\ DerTlv(tag, c) \in Seq(Nat)
  BY <1>4, <1>7, <1>8
<1>15. /\ h \in 1..3 /\ Len(s) = p + 1 + h + n /\ s[p + 1] = tag
       /\ \A k \in 1..h : s[p + 1 + k] = L[k]
       /\ \A k \in 1..n : s[p + 1 + h + k] = c[k]
  BY ONLY <1>10, <1>11, <1>12, <1>13
<1>16. TlvAt(s, p, tag, L, c)
  <2>1. Len(L) \in 1..3 /\ Len(s) = p + 1 + Len(L) + Len(c)
    BY ONLY <1>9, <1>15
  <2>2. \A k \in 1..Len(L) : s[p + 1 + k] = L[k]
    BY ONLY <1>9, <1>15
  <2>3. \A k \in 1..Len(c) : s[p + 1 + Len(L) + k] = c[k]
    BY ONLY <1>9, <1>15
  <2> QED BY ONLY <1>15, <2>1, <2>2, <2>3, SMT DEF TlvAt
<1>17. Prefixed(s, pre, tag, c)
  BY <1>8, <1>14, <1>16 DEF L, p, Prefixed
<1> QED BY <1>14, <1>17 DEF s

LEMMA TlvRead ==
  ASSUME NEW s \in Seq(Nat), NEW p \in Nat, NEW tag \in Nat, NEW c \in Seq(Nat),
         Short(Len(c)), TlvAt(s, p, tag, DerLength(Len(c)), c)
  PROVE  /\ ContentAt(s, p + 1, tag) = c
         /\ AfterDerLength(s, p + 2) = p + 2 + Len(DerLength(Len(c)))
<1> DEFINE n == Len(c)  L == DerLength(n)  h == Len(L)  o == p + 2
<1>1. n \in Nat
  OBVIOUS
<1>2. \/ h = 1 /\ L[1] = n /\ n < 128
      \/ h = 2 /\ L[1] = 129 /\ L[2] = n
      \/ h = 3 /\ L[1] = 130 /\ 256 * L[2] + L[3] = n
  <2>1. Short(n)
    OBVIOUS
  <2> HIDE DEF n
  <2> QED BY ONLY <2>1, DerLengthShape
<1>3. /\ h \in 1..3 /\ Len(s) = p + 1 + h + n /\ s[p + 1] = tag
      /\ \A k \in 1..h : s[p + 1 + k] = L[k]
      /\ \A k \in 1..n : s[p + 1 + h + k] = c[k]
  BY DEF TlvAt
<1> HIDE DEF n, L, h
<1>4. Len(s) \in Nat /\ o \in Nat /\ o <= Len(s)
  BY <1>1, <1>3
<1>5. /\ s[o] = L[1]
      /\ h >= 2 => s[o + 1] = L[2]
      /\ h >= 3 => s[o + 2] = L[3]
  <2>1. p + 1 + 1 = o /\ p + 1 + 2 = o + 1 /\ p + 1 + 3 = o + 2
    OBVIOUS
  <2>2. s[p + 1 + 1] = L[1]
    BY <1>3
  <2>3. h >= 2 => s[p + 1 + 2] = L[2]
    BY <1>3
  <2>4. h >= 3 => s[p + 1 + 3] = L[3]
    BY <1>3
  <2> HIDE DEF o
  <2> QED BY <2>1, <2>2, <2>3, <2>4
<1>6. p = o - 2
  OBVIOUS
<1> HIDE DEF o
<1>7. AfterDerLength(s, o) = o + h
  <2>1. CASE h = 1 /\ L[1] = n /\ n < 128
    BY <1>4, <1>5, <2>1 DEF AfterDerLength
  <2>2. CASE h = 2 /\ L[1] = 129 /\ L[2] = n
    BY <1>1, <1>3, <1>4, <1>5, <1>6, <2>2 DEF AfterDerLength
  <2>3. CASE h = 3 /\ L[1] = 130 /\ 256 * L[2] + L[3] = n
    BY <1>1, <1>3, <1>4, <1>5, <1>6, <2>3 DEF AfterDerLength
  <2> QED BY <1>2, <2>1, <2>2, <2>3
<1>8. LengthAt(s, o) = n
  <2>1. CASE h = 1 /\ L[1] = n /\ n < 128
    BY <1>5, <2>1 DEF LengthAt
  <2>2. CASE h = 2 /\ L[1] = 129 /\ L[2] = n
    BY <1>5, <2>2 DEF LengthAt
  <2>3. CASE h = 3 /\ L[1] = 130 /\ 256 * L[2] + L[3] = n
    BY <1>5, <2>3, SMTT(60) DEF LengthAt
  <2> QED BY <1>2, <2>1, <2>2, <2>3
<1> DEFINE m == o + h
<1>9. m \in Nat /\ m >= 1 /\ m # 0 /\ Len(s) = (m - 1) + n /\ m + n = Len(s) + 1
  BY <1>1, <1>3, <1>4, <1>6
<1>10. \A k \in 1..n : s[(m - 1) + k] = c[k]
  <2>1. m - 1 = p + 1 + h
    BY <1>3, <1>4, <1>6
  <2> QED BY <1>3, <2>1
<1>11. AfterDerLength(s, o) = m
  BY <1>7
<1> HIDE DEF m
<1>12. SubSeq(s, m, Len(s)) = c
  BY <1>9, <1>10, SliceIs DEF n
<1>13. p + 1 < Len(s) /\ (p + 1) + 1 = o /\ p + 1 \in Nat
  BY <1>4, <1>6
<1>14. ContentAt(s, p + 1, tag) = c
  <2> DEFINE q == p + 1
  <2>1. q \in Nat /\ q + 1 = o /\ ~(q >= Len(s)) /\ s[q] = tag
    BY <1>3, <1>4, <1>13
  <2> HIDE DEF q
  <2>2. /\ AfterDerLength(s, q + 1) = m /\ LengthAt(s, q + 1) = n
        /\ m # 0 /\ m + n = Len(s) + 1
    BY ONLY <1>8, <1>9, <1>11, <2>1
  <2>3. ContentAt(s, q, tag) = SubSeq(s, m, Len(s))
    BY ONLY <2>1, <2>2 DEF ContentAt
  <2>4. ContentAt(s, q, tag) = c
    BY ONLY <1>12, <2>3
  <2> QED BY <2>4 DEF q
<1> QED BY <1>7, <1>14 DEF o, h, L, n

\* s is a TLV: its content is read back, and a reader that skips the length
\* finds the first byte of it.
TlvOf(s, tag, c) ==
  /\ s \in Seq(Nat) /\ Len(s) >= Len(c) + 2 /\ Len(s) <= Len(c) + 4
  /\ s[1] = tag /\ ContentAt(s, 1, tag) = c
  /\ Len(c) >= 1 => /\ AfterDerLength(s, 2) \in 1..Len(s)
                    /\ s[AfterDerLength(s, 2)] = c[1]

LEMMA DerTlvRead ==
  ASSUME NEW tag \in Nat, NEW c \in Seq(Nat), Short(Len(c))
  PROVE  TlvOf(DerTlv(tag, c), tag, c)
<1> DEFINE s == DerTlv(tag, c)  pre == <<>>  L == DerLength(Len(c))  p == 0
<1>1. pre \in Seq(Nat) /\ Len(pre) = p /\ p \in Nat
  OBVIOUS
<1>2. DerTlv(tag, c) \in Seq(Nat) /\ \A x \in Seq(Nat) : pre \o x = x
  <2>1. DerTlv(tag, c) \in Seq(Nat)
    <3> HIDE DEF pre
    <3> QED BY <1>1, PrefixedTlv
  <2>2. \A x \in Seq(Nat) : pre \o x = x
    OBVIOUS
  <2> QED BY <2>1, <2>2
<1>3. s = pre \o DerTlv(tag, c)
  BY <1>2
<1>4. Len(c) \in Nat
  OBVIOUS
<1> HIDE DEF pre, s
<1>5. s \in Seq(Nat) /\ TlvAt(s, Len(pre), tag, L, c)
  <2>1. Prefixed(pre \o DerTlv(tag, c), pre, tag, c)
    BY <1>1, PrefixedTlv
  <2>2. Prefixed(s, pre, tag, c)
    BY <1>3, <2>1
  <2> QED BY <2>2 DEF Prefixed
<1>6. TlvAt(s, p, tag, L, c)
  BY <1>1, <1>5
<1>7. ContentAt(s, p + 1, tag) = c /\ AfterDerLength(s, p + 2) = p + 2 + Len(L)
  <2>1. tag \in Nat /\ c \in Seq(Nat) /\ Short(Len(c))
    OBVIOUS
  <2> HIDE DEF p
  <2> QED BY ONLY <1>1, <1>5, <1>6, <2>1, TlvRead
<1>8. p + 1 = 1 /\ p + 2 = 2
  OBVIOUS
<1> HIDE DEF L
<1>9. /\ Len(L) \in 1..3 /\ Len(s) = 1 + Len(L) + Len(c) /\ s[1] = tag
      /\ \A k \in 1..Len(c) : s[1 + Len(L) + k] = c[k]
  BY <1>6 DEF TlvAt
<1>10. ContentAt(s, 1, tag) = c /\ AfterDerLength(s, 2) = 2 + Len(L)
  BY <1>7, <1>8, <1>9
<1>11. ASSUME Len(c) >= 1
       PROVE  /\ AfterDerLength(s, 2) \in 1..Len(s)
              /\ s[AfterDerLength(s, 2)] = c[1]
  <2>1. 1 \in 1..Len(c) /\ 1 + Len(L) + 1 = 2 + Len(L)
    BY <1>4, <1>9, <1>11
  <2>2. s[2 + Len(L)] = c[1]
    BY <1>9, <2>1
  <2>3. 2 + Len(L) \in 1..Len(s)
    BY <1>4, <1>9, <1>11
  <2> QED BY <1>10, <2>2, <2>3
<1>12. Len(s) >= Len(c) + 2 /\ Len(s) <= Len(c) + 4
  <2> DEFINE a == Len(s)  b == Len(L)  d == Len(c)
  <2>1. b \in 1..3 /\ a = 1 + b + d /\ d \in Nat
    BY <1>4, <1>9
  <2> HIDE DEF a, b, d
  <2>2. a >= d + 2 /\ a <= d + 4
    BY <2>1
  <2> QED BY <2>2 DEF a, b, d
<1>13. TlvOf(s, tag, c)
  BY <1>5, <1>9, <1>10, <1>11, <1>12 DEF TlvOf
<1> QED BY <1>13 DEF s

LEMMA TlvIsDerTlv == \A tag, c : Tlv(tag, c) = DerTlv(tag, c)
BY DEF Tlv, DerTlv, DerLength

AlgorithmIs(id) ==
  /\ id \in Seq(Nat) /\ Len(id) = 15 /\ id[1] = DER_TAG_SEQUENCE

LEMMA AlgorithmShape == AlgorithmIs(RSA_ENCRYPTION_ALGORITHM_ID)
BY DEF AlgorithmIs, RSA_ENCRYPTION_ALGORITHM_ID, DER_TAG_SEQUENCE

\* A PKCS#1 key is a SEQUENCE whose content starts with an INTEGER.
LEMMA Pkcs1Shape ==
  ASSUME NEW size, ModulusLong(size)
  PROVE  /\ Pkcs1Key(size) \in Seq(Nat) /\ KeyLong(Len(Pkcs1Key(size)))
         /\ IsPkcs1RsaPublicKey(Pkcs1Key(size))
<1> DEFINE m == [i \in 1..size |-> 7]  e == <<1, 0, 1>>
           a == DerTlv(DER_TAG_INTEGER, m)  b == DerTlv(DER_TAG_INTEGER, e)
           c == a \o b  k == DerTlv(DER_TAG_SEQUENCE, c)
           lm == Len(m)  la == Len(a)  lb == Len(b)  lc == Len(c)  lk == Len(k)
<1>1. DER_TAG_INTEGER \in Nat /\ DER_TAG_SEQUENCE \in Nat
  BY DEF DER_TAG_INTEGER, DER_TAG_SEQUENCE
<1>2. m \in Seq(Nat) /\ Len(m) = size /\ size >= 1 /\ size \in Nat
  <2>1. size \in Nat /\ size >= 1
    BY SMT DEF ModulusLong
  <2> QED BY <2>1
<1>3. e \in Seq(Nat) /\ Len(e) = 3
  OBVIOUS
<1>4. Pkcs1Key(size) = k
  BY TlvIsDerTlv DEF Pkcs1Key
<1>5. size <= 8192
  BY SMT DEF ModulusLong
<1> HIDE DEF m, e
<1>6. Short(Len(m)) /\ Short(Len(e))
  BY <1>2, <1>3, <1>5, SMT DEF Short
<1>7. /\ a \in Seq(Nat) /\ Len(a) >= Len(m) + 2 /\ Len(a) <= Len(m) + 4
      /\ a[1] = DER_TAG_INTEGER
  <2>1. TlvOf(a, DER_TAG_INTEGER, m)
    <3>1. m \in Seq(Nat)
      BY <1>2
    <3> QED BY <1>1, <1>6, <3>1, DerTlvRead
  <2> HIDE DEF a
  <2> QED BY <2>1 DEF TlvOf
<1>8. b \in Seq(Nat) /\ Len(b) >= Len(e) + 2 /\ Len(b) <= Len(e) + 4
  <2>1. TlvOf(b, DER_TAG_INTEGER, e)
    <3>1. e \in Seq(Nat)
      BY <1>3
    <3> QED BY <1>1, <1>6, <3>1, DerTlvRead
  <2> HIDE DEF b
  <2> QED BY <2>1 DEF TlvOf
<1> HIDE DEF a, b
<1>9. /\ c \in Seq(Nat) /\ Len(c) = Len(a) + Len(b)
      /\ \A i \in 1..Len(a) : c[i] = a[i]
  <2>1. a \in Seq(Nat) /\ b \in Seq(Nat) /\ c = a \o b
    BY <1>7, <1>8
  <2> HIDE DEF c
  <2> QED BY ONLY <2>1, ConcatNumbers
<1> HIDE DEF c
<1>10. /\ lm = size /\ la \in Nat /\ lb \in Nat /\ lc = la + lb
       /\ la >= lm + 2 /\ la <= lm + 4 /\ lb >= 5 /\ lb <= 7
  <2>1. la \in Nat /\ lb \in Nat
    BY <1>7, <1>8
  <2>2. lc = la + lb
    BY <1>9
  <2>3. lb >= 5 /\ lb <= 7
    BY <1>3, <1>8
  <2> QED BY <1>2, <1>7, <2>1, <2>2, <2>3
<1>11. c[1] = DER_TAG_INTEGER
  <2>1. 1 \in 1..Len(a)
    <3> HIDE DEF lm, lb, lc
    <3> QED BY <1>2, <1>10
  <2> QED BY <1>7, <1>9, <2>1
<1>12. k = DerTlv(DER_TAG_SEQUENCE, c)
  OBVIOUS
<1> HIDE DEF k, lm, la, lb, lc, lk
<1>13. lc \in Nat /\ lc >= 1 /\ lc <= 9000 /\ Short(lc)
  BY ONLY <1>2, <1>5, <1>10, SMT DEF Short
<1>14. /\ k \in Seq(Nat) /\ Len(k) >= Len(c) + 2 /\ Len(k) <= Len(c) + 4
       /\ k[1] = DER_TAG_SEQUENCE
       /\ Len(c) >= 1 => /\ AfterDerLength(k, 2) \in 1..Len(k)
                         /\ k[AfterDerLength(k, 2)] = c[1]
  <2>1. Short(Len(c))
    BY ONLY <1>13 DEF lc
  <2>2. TlvOf(k, DER_TAG_SEQUENCE, c)
    BY <1>1, <1>9, <1>12, <2>1, DerTlvRead
  <2> QED BY <2>2 DEF TlvOf
<1>15. lk \in Nat /\ lk >= lc + 2 /\ lk <= lc + 4
  BY <1>14 DEF lk, lc
<1>16. KeyLong(lk) /\ lk >= 1
  BY ONLY <1>13, <1>15, SMT DEF KeyLong
<1>17. k # <<>>
  BY <1>14, <1>16 DEF lk
<1>18. AfterDerLength(k, 2) \in 1..Len(k) /\ k[AfterDerLength(k, 2)] = DER_TAG_INTEGER
  <2>1. Len(c) >= 1
    BY ONLY <1>13 DEF lc
  <2> QED BY ONLY <1>11, <1>14, <2>1
<1>19. IsPkcs1RsaPublicKey(k)
  BY ONLY <1>14, <1>17, <1>18 DEF IsPkcs1RsaPublicKey
<1> QED BY <1>4, <1>14, <1>16, <1>19 DEF lk

SpkiOf(key) ==
  DerTlv(DER_TAG_SEQUENCE,
    RSA_ENCRYPTION_ALGORITHM_ID \o DerTlv(DER_TAG_BIT_STRING, <<0>> \o key))

\* Both encodings end in the same SPKI, and WebCrypto finds the key in it.
LEMMA SpkiShape ==
  ASSUME NEW key \in Seq(Nat), KeyLong(Len(key)), NEW spki, spki = SpkiOf(key)
  PROVE  ~IsPkcs1RsaPublicKey(spki) /\ ImportSpki(spki) = key
<1> DEFINE id == RSA_ENCRYPTION_ALGORITHM_ID  zero == <<0>>  bits == zero \o key
           t == DerTlv(DER_TAG_BIT_STRING, bits)  body == id \o t
           lk == Len(key)  lb == Len(bits)  lt == Len(t)  ln == Len(body)
<1>1. DER_TAG_BIT_STRING \in Nat /\ DER_TAG_SEQUENCE \in Nat
      /\ DER_TAG_SEQUENCE # DER_TAG_INTEGER
  BY DEF DER_TAG_BIT_STRING, DER_TAG_SEQUENCE, DER_TAG_INTEGER
<1>2. id \in Seq(Nat) /\ Len(id) = 15 /\ id[1] = DER_TAG_SEQUENCE
  BY AlgorithmShape DEF AlgorithmIs
<1>3. zero \in Seq(Nat) /\ Len(zero) = 1 /\ zero[1] = 0
  OBVIOUS
<1>4. spki = DerTlv(DER_TAG_SEQUENCE, body)
  BY DEF SpkiOf
<1>5. KeyLong(lk)
  OBVIOUS
<1> HIDE DEF id, zero
<1>6. /\ bits \in Seq(Nat) /\ Len(bits) = Len(zero) + Len(key)
      /\ \A i \in 1..Len(zero) : bits[i] = zero[i]
      /\ \A i \in 1..Len(key) : bits[Len(zero) + i] = key[i]
  <2>1. zero \in Seq(Nat) /\ key \in Seq(Nat) /\ bits = zero \o key
    BY <1>3
  <2> HIDE DEF bits
  <2> QED BY ONLY <2>1, ConcatNumbers
<1> HIDE DEF bits
<1>7. /\ Len(bits) = 1 + Len(key) /\ bits[1] = 0
      /\ \A i \in 1..Len(key) : bits[1 + i] = key[i]
  BY <1>3, <1>6
<1>8. Short(Len(bits))
  <2>1. lb = 1 + lk
    BY <1>7
  <2> HIDE DEF lb, lk
  <2>2. Short(lb)
    BY ONLY <1>5, <2>1, SMT DEF Short, KeyLong
  <2> QED BY <2>2 DEF lb
<1>9. t \in Seq(Nat) /\ Len(t) >= Len(bits) + 2 /\ Len(t) <= Len(bits) + 4
  <2>1. TlvOf(t, DER_TAG_BIT_STRING, bits)
    <3>1. bits \in Seq(Nat)
      BY <1>6
    <3> QED BY <1>1, <1>8, <3>1, DerTlvRead
  <2> HIDE DEF t
  <2> QED BY <2>1 DEF TlvOf
<1>10. /\ body \in Seq(Nat) /\ \A k \in 1..Len(id) : body[k] = id[k]
       /\ TlvAt(body, Len(id), DER_TAG_BIT_STRING, DerLength(Len(bits)), bits)
  <2>1. DER_TAG_BIT_STRING \in Nat /\ id \in Seq(Nat) /\ bits \in Seq(Nat)
    BY <1>1, <1>2, <1>6
  <2>2. Prefixed(body, id, DER_TAG_BIT_STRING, bits)
    BY ONLY <1>8, <2>1, PrefixedTlv
  <2> HIDE DEF body
  <2> QED BY <2>2 DEF Prefixed
<1>11. Len(body) = Len(id) + Len(t)
  <2>1. id \in Seq(Nat) /\ t \in Seq(Nat) /\ body = id \o t
    BY <1>2, <1>9
  <2> HIDE DEF body
  <2> QED BY ONLY <2>1, ConcatNumbers
<1> HIDE DEF t, body
<1>12. ContentAt(body, 16, DER_TAG_BIT_STRING) = bits
  <2> DEFINE p == Len(id)
  <2>1. p \in Nat /\ p + 1 = 16
    BY <1>2
  <2>2. TlvAt(body, p, DER_TAG_BIT_STRING, DerLength(Len(bits)), bits)
    BY <1>10
  <2>3. body \in Seq(Nat) /\ DER_TAG_BIT_STRING \in Nat /\ bits \in Seq(Nat) /\ p \in Nat
    BY <1>1, <1>6, <1>10, <2>1
  <2> HIDE DEF p
  <2>4. ContentAt(body, p + 1, DER_TAG_BIT_STRING) = bits
    BY ONLY <1>8, <2>2, <2>3, TlvRead
  <2> QED BY <2>1, <2>4
<1>13. ln \in Nat /\ ln > 15 /\ ln >= 1 /\ ~(ln <= 15) /\ Short(ln)
  <2>1. ln = 15 + lt /\ lt >= lb + 2 /\ lt <= lb + 4 /\ lb = 1 + lk
        /\ lt \in Nat /\ lb \in Nat
    BY <1>2, <1>6, <1>7, <1>9, <1>11
  <2> HIDE DEF ln, lt, lb, lk
  <2> QED BY ONLY <1>5, <2>1, SMT DEF Short, KeyLong
<1>14. body[1] = DER_TAG_SEQUENCE
  <2>1. 1 \in 1..Len(id)
    BY <1>2
  <2> QED BY <1>2, <1>10, <2>1
<1>15. /\ spki \in Seq(Nat) /\ spki[1] = DER_TAG_SEQUENCE
       /\ ContentAt(spki, 1, DER_TAG_SEQUENCE) = body
       /\ Len(body) >= 1 => /\ AfterDerLength(spki, 2) \in 1..Len(spki)
                            /\ spki[AfterDerLength(spki, 2)] = body[1]
  <2>1. TlvOf(spki, DER_TAG_SEQUENCE, body)
    <3>1. Short(Len(body)) /\ body \in Seq(Nat)
      BY <1>10, <1>13
    <3> QED BY <1>1, <1>4, <3>1, DerTlvRead
  <2> QED BY <2>1 DEF TlvOf
<1>16. ~IsPkcs1RsaPublicKey(spki)
  <2>1. spki[AfterDerLength(spki, 2)] # DER_TAG_INTEGER
    BY <1>1, <1>13, <1>14, <1>15
  <2> QED BY <2>1 DEF IsPkcs1RsaPublicKey
<1>17. SubSeq(body, 1, 15) = id
  <2> DEFINE r == SubSeq(body, 1, 15)
  <2>1. \A i \in 1..15 : body[i] \in Nat
    BY <1>10, <1>13
  <2>2. r \in Seq(Nat) /\ Len(r) = 15
    <3>1. 1 \in Int /\ 15 \in Int
      OBVIOUS
    <3>2. r \in Seq(Nat) /\ Len(r) = IF 1 <= 15 THEN 15 - 1 + 1 ELSE 0
      BY ONLY <2>1, <3>1, SubSeqProperties
    <3> HIDE DEF r
    <3> QED BY <3>2
  <2>3. \A i \in 1..15 : r[i] = body[i]
    <3>1. 1 \in Int /\ 15 \in Int
      OBVIOUS
    <3>2. \A i \in 1..(15 - 1 + 1) : r[i] = body[1 + i - 1]
      BY ONLY <2>1, <3>1, SubSeqProperties
    <3> HIDE DEF r
    <3> SUFFICES ASSUME NEW i \in 1..15 PROVE r[i] = body[i]
      OBVIOUS
    <3>3. i \in 1..(15 - 1 + 1) /\ 1 + i - 1 = i
      OBVIOUS
    <3>4. r[i] = body[1 + i - 1]
      BY ONLY <3>2, <3>3
    <3> QED BY <3>3, <3>4
  <2> HIDE DEF r
  <2>4. \A i \in 1..15 : r[i] = id[i]
    BY <1>2, <1>10, <2>3
  <2>5. r = id
    <3>1. id \in Seq(Nat) /\ Len(r) = Len(id) /\ \A i \in 1..Len(id) : r[i] = id[i]
      BY <1>2, <2>2, <2>4
    <3>2. r \in Seq(Nat)
      BY <2>2
    <3> QED BY ONLY <3>1, <3>2, SequencesSame
  <2> QED BY <2>5 DEF r
<1>18. SubSeq(bits, 2, Len(bits)) = key
  <2> DEFINE two == 2
  <2>1. two - 1 = 1 /\ two >= 1 /\ two \in Nat
    OBVIOUS
  <2> HIDE DEF two
  <2>2. Len(bits) = (two - 1) + Len(key)
        /\ \A i \in 1..Len(key) : bits[(two - 1) + i] = key[i]
    BY <1>7, <2>1
  <2>3. bits \in Seq(Nat) /\ key \in Seq(Nat)
    BY <1>6
  <2>4. SubSeq(bits, two, Len(bits)) = key
    BY ONLY <2>1, <2>2, <2>3, SliceIs
  <2> QED BY <2>4 DEF two
<1>19. bits # <<>>
  <2>1. Len(bits) # 0
    <3>1. lb = 1 + lk
      BY <1>7
    <3> HIDE DEF lb, lk
    <3>2. lb # 0
      BY ONLY <1>5, <3>1 DEF KeyLong
    <3> QED BY <3>2 DEF lb
  <2> QED BY <2>1
<1>20. ImportSpki(spki) = key
  <2>1. Len(body) > 15 /\ bits[1] = 0 /\ RSA_ENCRYPTION_ALGORITHM_ID = id
    BY <1>7, <1>13 DEF id
  <2> HIDE DEF lk, lb, lt, ln
  <2> QED BY ONLY <1>12, <1>15, <1>17, <1>18, <1>19, <2>1 DEF ImportSpki
<1> QED BY <1>16, <1>20

\* A usable key is imported in either encoding.
LEMMA EitherEncodingImports ==
  ASSUME NEW size, ModulusLong(size)
  PROVE  /\ ImportSpki(ToRsaSpki(Pkcs1Key(size))) = Pkcs1Key(size)
         /\ ImportSpki(ToRsaSpki(SpkiKey(size))) = Pkcs1Key(size)
<1> DEFINE key == Pkcs1Key(size)
           spki == SpkiOf(key)
<1>1. key \in Seq(Nat) /\ KeyLong(Len(key)) /\ IsPkcs1RsaPublicKey(key)
  BY Pkcs1Shape
<1>2. SpkiKey(size) = spki
  BY TlvIsDerTlv DEF SpkiKey, SpkiOf
<1> HIDE DEF key
<1>3. ~IsPkcs1RsaPublicKey(spki) /\ ImportSpki(spki) = key
  BY <1>1, SpkiShape
<1>4. ToRsaSpki(key) = spki
  BY <1>1 DEF ToRsaSpki, SpkiOf
<1>5. ToRsaSpki(spki) = spki
  BY <1>3 DEF ToRsaSpki
<1> QED BY <1>2, <1>3, <1>4, <1>5 DEF key

-----------------------------------------------------------------------------
(* With nothing set apart the application writes what the server writes.   *)

IndexKeys(e) == {k \in {e.key} : IsIndexKey(k)}

LEMMA ApartInside ==
  ASSUME NEW n \in 0..MaxDepth, NEW v \in Nested[n],
         NEW f, NEW g, \A w \in ValuesBelow(n) : f[w] = g[w]
  PROVE  ApartWithin(f, v) = ApartWithin(g, v)
<1>1. CASE IsLeaf(v)
  <2>1. v.kind = "leaf"
    BY <1>1 DEF IsLeaf
  <2> QED BY <2>1 DEF ApartWithin
<1>2. CASE IsArray(v, ValuesBelow(n))
  <2>1. v.kind = "array" /\ v.items \in Seq(ValuesBelow(n))
    BY <1>2 DEF IsArray
  <2>2. \A x \in Range(v.items) : f[x] = g[x]
    BY <2>1 DEF Range
  <2>3. {f[x] : x \in Range(v.items)} = {g[x] : x \in Range(v.items)}
    BY <2>2
  <2>4. /\ ApartWithin(f, v) = UNION {f[x] : x \in Range(v.items)}
        /\ ApartWithin(g, v) = UNION {g[x] : x \in Range(v.items)}
    BY <2>1 DEF ApartWithin
  <2> QED BY <2>3, <2>4
<1>3. CASE IsObject(v, ValuesBelow(n))
  <2>1. v.kind = "object"
    BY <1>3 DEF IsObject
  <2>2. \A e \in Range(v.entries) : f[e.value] = g[e.value]
    BY <1>3, ObjectInside
  <2>3. {IndexKeys(e) \cup f[e.value] : e \in Range(v.entries)}
          = {IndexKeys(e) \cup g[e.value] : e \in Range(v.entries)}
    BY <2>2
  <2>4. /\ ApartWithin(f, v) = UNION {IndexKeys(e) \cup f[e.value] : e \in Range(v.entries)}
        /\ ApartWithin(g, v) = UNION {IndexKeys(e) \cup g[e.value] : e \in Range(v.entries)}
    BY <2>1 DEF ApartWithin, IndexKeys
  <2> QED BY <2>3, <2>4
<1> QED BY <1>1, <1>2, <1>3, ValueShape

LEMMA ApartExist == \E f : f = [v \in Values |-> ApartWithin(f, v)]
<1> DEFINE Good(n) == \E f : f = [v \in ValuesBelow(n) |-> ApartWithin(f, v)]
           H == {n \in Nat : Good(n)}  N == MaxDepth + 1
<1>1. N \in Nat /\ MaxDepth \in Nat
  BY NestedAssumption
<1>2. Good(0)
  <2> DEFINE e == [v \in {} |-> v]
  <2>1. e = [v \in {} |-> ApartWithin(e, v)]
    OBVIOUS
  <2> HIDE DEF e
  <2> QED BY <2>1, NoValuesBelow
<1>3. ASSUME NEW k \in 0..MaxDepth, Good(k) PROVE Good(k + 1)
  <2> DEFINE V == ValuesBelow(k)  W == ValuesBelow(k + 1)
  <2>1. PICK f : f = [v \in V |-> ApartWithin(f, v)]
    BY <1>3
  <2> DEFINE g == [v \in W |-> IF v \in V THEN f[v] ELSE ApartWithin(f, v)]
  <2>2. W = V \cup Nested[k]
    BY ValuesGrow
  <2>3. \A v \in V : g[v] = f[v]
    <3> HIDE DEF V, W
    <3> QED BY <2>2
  <2>4. ASSUME NEW v \in W PROVE ApartWithin(f, v) = ApartWithin(g, v)
    <3>1. PICK j \in 0..k : v \in Nested[j]
      <4>1. k \in Nat /\ (k + 1) - 1 = k
        BY <1>1
      <4> QED BY <4>1 DEF ValuesBelow
    <3>2. j \in 0..MaxDepth /\ ValuesBelow(j) \subseteq V
      BY <1>1, ValuesBelowNested
    <3>3. \A w \in ValuesBelow(j) : f[w] = g[w]
      <4> HIDE DEF g, V
      <4> QED BY <2>3, <3>2
    <3> HIDE DEF g
    <3> QED BY <3>1, <3>2, <3>3, ApartInside
  <2>5. ASSUME NEW v \in W PROVE g[v] = ApartWithin(g, v)
    <3>1. CASE v \in V
      <4>1. f[v] = ApartWithin(f, v)
        <5> HIDE DEF V
        <5> QED BY <2>1, <3>1
      <4>2. g[v] = f[v]
        BY <2>3, <3>1
      <4> HIDE DEF g
      <4> QED BY <2>4, <4>1, <4>2
    <3>2. CASE v \notin V
      <4>1. g[v] = ApartWithin(f, v)
        <5> HIDE DEF V, W
        <5> QED BY <3>2
      <4> HIDE DEF g
      <4> QED BY <2>4, <4>1
    <3> QED BY <3>1, <3>2
  <2>6. g = [v \in W |-> ApartWithin(g, v)]
    <3>1. g = [v \in W |-> g[v]]
      <4> HIDE DEF V, W
      <4> QED OBVIOUS
    <3> HIDE DEF g, W
    <3> QED BY <2>5, <3>1
  <2> HIDE DEF g, W
  <2> QED BY <2>6 DEF W
<1>4. ASSUME NEW n \in 1..N, n - 1 \in H PROVE n \in H
  <2>1. PICK k \in 0..MaxDepth : k = n - 1 /\ n = k + 1
    BY <1>1
  <2>2. Good(k)
    BY <1>4, <2>1
  <2>3. Good(k + 1)
    <3> HIDE DEF Good
    <3> QED BY <1>3, <2>2
  <2>4. n \in Nat
    BY <1>1
  <2> HIDE DEF Good
  <2> QED BY <2>1, <2>3, <2>4
<1>5. 0 \in H
  <2> HIDE DEF Good
  <2> QED BY <1>2
<1>6. \A n \in 0..N : n \in H
  <2> HIDE DEF H, N
  <2> QED BY <1>1, <1>4, <1>5, Induction
<1>7. N \in H
  <2>1. N \in 0..N
    BY <1>1
  <2> HIDE DEF H, N
  <2> QED BY <1>6, <2>1
<1> QED BY <1>7 DEF Values

LEMMA ApartTurn ==
  ASSUME NEW v \in Values
  PROVE  SetApart[v] = ApartWithin(SetApart, v)
<1> DEFINE K == SetApart
<1>1. K = CHOOSE g : g = [x \in Values |-> ApartWithin(g, x)]
  BY DEF SetApart
<1> HIDE DEF K
<1>2. K = [x \in Values |-> ApartWithin(K, x)]
  BY <1>1, ApartExist, Zenon
<1>3. K[v] = ApartWithin(K, v)
  BY <1>2
<1> QED BY <1>3 DEF K

\* Nothing in v is set apart: no key that is an array index, no number that
\* the two sides spell differently.
NothingApart(v) == SetApart[v] = {}

LEMMA NothingApartInside ==
  ASSUME NEW v \in Values, NothingApart(v)
  PROVE  /\ v.kind = "leaf" => v.leaf \notin SpelledApart
         /\ v.kind = "array" => \A x \in Range(v.items) : NothingApart(x)
         /\ v.kind = "object" =>
              \A e \in Range(v.entries) : ~IsIndexKey(e.key) /\ NothingApart(e.value)
<1>1. ApartWithin(SetApart, v) = {}
  BY ApartTurn DEF NothingApart
<1>2. ASSUME v.kind = "leaf" PROVE v.leaf \notin SpelledApart
  BY <1>1, <1>2 DEF ApartWithin
<1>3. ASSUME v.kind = "array", NEW x \in Range(v.items) PROVE NothingApart(x)
  <2>1. UNION {SetApart[y] : y \in Range(v.items)} = {}
    BY <1>1, <1>3 DEF ApartWithin
  <2> QED BY <1>3, <2>1 DEF NothingApart
<1>4. ASSUME v.kind = "object", NEW e \in Range(v.entries)
      PROVE  ~IsIndexKey(e.key) /\ NothingApart(e.value)
  <2>1. UNION {IndexKeys(x) \cup SetApart[x.value] : x \in Range(v.entries)} = {}
    BY <1>1, <1>4 DEF ApartWithin, IndexKeys
  <2>2. IndexKeys(e) = {} /\ SetApart[e.value] = {}
    BY <1>4, <2>1
  <2> QED BY <2>2 DEF IndexKeys, NothingApart
<1> QED BY <1>2, <1>3, <1>4

\* Number::toString and serde_json part in the two places set apart, and
\* nowhere else.
THEOREM SpellingsAgree ==
  ASSUME NEW x \in Numbers
  PROVE  JsSpelling[x] = ServerSpelling[x] <=> x \notin SpelledApart
<1> DEFINE length == Decimal[x].length  point == Decimal[x].point
           fits64 == Decimal[x].fits64
<1>1. /\ length \in 1..17 /\ point \in Int /\ fits64 \in BOOLEAN
      /\ length <= point /\ point <= 18 => fits64
      /\ fits64 => length <= point /\ point <= 20
  BY DecimalAssumption
<1>2. x \in SpelledApart <=> point = -5 \/ (length <= point /\ ~fits64)
  BY DEF SpelledApart
<1>3. /\ JsSpelling[x] = CASE point < -5 -> "e" [] point \in -5..21 -> "plain"
                           [] point > 21 -> "e+"
      /\ ServerSpelling[x] = IF fits64 \/ point \in -4..16 THEN "plain" ELSE "e"
  BY DEF JsSpelling, ServerSpelling
<1> HIDE DEF length, point, fits64
<1>4. CASE fits64
  <2>1. point \in -5..21 /\ ~(point < -5) /\ ~(point > 21) /\ point # -5
    BY <1>1, <1>4
  <2> QED BY <1>2, <1>3, <1>4, <2>1
<1>5. CASE ~fits64 /\ point < -5
  <2>1. point \notin -5..21 /\ point \notin -4..16 /\ ~(point > 21)
        /\ point # -5 /\ ~(length <= point)
    BY <1>1, <1>5
  <2> QED BY <1>2, <1>3, <1>5, <2>1
<1>6. CASE ~fits64 /\ point = -5
  <2>1. point \in -5..21 /\ point \notin -4..16 /\ ~(point > 21) /\ ~(point < -5)
    BY <1>6
  <2> QED BY <1>2, <1>3, <1>6, <2>1
<1>7. CASE ~fits64 /\ point > -5 /\ length > point
  <2>1. point \in -4..16 /\ point # -5
    BY <1>1, <1>7
  <2>2. point \in -5..21 /\ ~(point > 21) /\ ~(point < -5)
    BY <2>1
  <2>3. ~(length <= point)
    BY <1>1, <1>7
  <2> QED BY <1>2, <1>3, <1>7, <2>1, <2>2, <2>3
<1>8. CASE ~fits64 /\ point > -5 /\ length <= point
  <2>1. point > 18
    BY <1>1, <1>8
  <2>2. point \notin -4..16 /\ ~(point < -5)
    BY <1>1, <2>1
  <2>3. JsSpelling[x] \in {"plain", "e+"}
    <3>1. point \in -5..21 \/ point > 21
      BY <1>1, <2>1
    <3> QED BY <1>3, <2>2, <3>1
  <2> QED BY <1>2, <1>3, <1>8, <2>2, <2>3
<1> QED BY <1>1, <1>4, <1>5, <1>6, <1>7, <1>8

LEMMA PlainLeaf ==
  ASSUME NEW v \in Values, v.kind = "leaf", NothingApart(v)
  PROVE  CanonicalJsonStringify[v] = ServerJson[v]
<1>1. v.leaf \notin SpelledApart
  BY NothingApartInside
<1>2. LeafText(v.leaf, JsSpelling) = LeafText(v.leaf, ServerSpelling)
  BY <1>1, SpellingsAgree DEF LeafText
<1> QED BY <1>2, CanonicalTurn, ServerTurn

LEMMA NothingInOrder == ASSUME NEW before PROVE InOrder({}, before) = <<>>
<1> DEFINE s == InOrder({}, before)
<1>1. IsFiniteSet({}) /\ StrictOrder({}, before)
  BY FS_EmptySet DEF StrictOrder
<1>2. s \in Seq({})
  BY <1>1, InOrderSorts
<1> HIDE DEF s
<1>3. Len(s) \in Nat /\ s \in Seq({})
  BY <1>2
<1>4. Len(s) = 0
  <2>1. ASSUME Len(s) # 0 PROVE FALSE
    <3>1. 1 \in 1..Len(s)
      BY <1>3, <2>1
    <3>2. s[1] \in {}
      BY <1>3, <3>1
    <3> QED BY <3>2
  <2> QED BY <2>1
<1>5. s = <<>>
  BY <1>3, <1>4
<1> QED BY <1>5 DEF s

\* The positions of a sequence, in their order, are themselves.
LEMMA PositionsInOrder ==
  ASSUME NEW n \in Nat
  PROVE  InOrder(1..n, {p \in (1..n) \X (1..n) : p[1] < p[2]}) = [i \in 1..n |-> i]
<1> DEFINE P == 1..n  before == {p \in P \X P : p[1] < p[2]}
           q == InOrder(P, before)  r == [i \in 1..n |-> i]
<1>1. P \in SUBSET Nat
  OBVIOUS
<1>2. IsFiniteSet(P)
  <2>1. 1 \in Int /\ n \in Int
    OBVIOUS
  <2> QED BY <2>1, FS_Interval
<1>3. r \in Seq(P) /\ Len(r) = n /\ \A i \in 1..n : r[i] = i
  OBVIOUS
<1>4. \A i \in P : \A j \in P : i < j => <<i, j>> \in before
  OBVIOUS
<1>5. StrictOrder(P, before)
  BY <1>1, PositionsStrict
<1> HIDE DEF before, r
<1>6. Arranges(r, P) /\ Increasing(r, before)
  BY <1>3, <1>4 DEF Arranges, Increasing
<1> HIDE DEF P
<1>7. Arranges(q, P) /\ Increasing(q, before)
  BY <1>2, <1>5, InOrderIncreases
<1> HIDE DEF q
<1>8. q = r
  BY <1>2, <1>5, <1>6, <1>7, IncreasingOnce
<1> QED BY <1>8 DEF q, r, before, P

\* Keys that are no index keep their place.
LEMMA EnumeratedPlain ==
  ASSUME NEW R, NEW e \in Seq(R), \A x \in Range(e) : ~IsIndexKey(x.key)
  PROVE  Enumerated(e) = e
<1> DEFINE I == {x \in Range(e) : IsIndexKey(x.key)}
           P == {i \in DOMAIN e : ~IsIndexKey(e[i].key)}
           a == InOrder(I, {p \in I \X I : IndexBefore(p[1].key, p[2].key)})
           q == InOrder(P, {p \in P \X P : p[1] < p[2]})
           n == Len(e)
<1>1. n \in Nat /\ DOMAIN e = 1..n /\ e = [i \in 1..n |-> e[i]]
  OBVIOUS
<1>2. Enumerated(e) = a \o [i \in DOMAIN q |-> e[q[i]]]
  BY DEF Enumerated
<1>3. I = {} /\ P = 1..n
  BY <1>1 DEF Range
<1>4. a = <<>>
  BY <1>3, NothingInOrder
<1>5. q = [i \in 1..n |-> i]
  <2> HIDE DEF P, n
  <2>1. q = InOrder(1..n, {p \in (1..n) \X (1..n) : p[1] < p[2]})
    BY <1>3
  <2> QED BY <1>1, <2>1, PositionsInOrder
<1> HIDE DEF a, q, n
<1>6. [i \in DOMAIN q |-> e[q[i]]] = [i \in 1..n |-> e[i]]
  BY <1>5
<1>7. Enumerated(e) = <<>> \o e
  BY <1>1, <1>2, <1>4, <1>6
<1> QED BY <1>7

\* Then what canonicalize sorts stays sorted.
LEMMA RebuiltPlain ==
  ASSUME NEW R, NEW e \in Seq(R), EntriesOK(Range(e)),
         \A x \in Range(e) : ~IsIndexKey(x.key)
  PROVE  Rebuilt(e) = ByteSorted(e)
<1>1. Enumerated(e) = e
  BY EnumeratedPlain
<1> DEFINE E == Range(e)  b == ByteSorted(e)
<1>2. Arranges(b, E)
  BY ByteSortedArranges
<1> HIDE DEF E, b
<1>3. Range(b) = E /\ b \in Seq(E)
  BY <1>2, ArrangedRange
<1>4. \A x \in Range(b) : ~IsIndexKey(x.key)
  BY <1>3 DEF E
<1>5. Enumerated(b) = b
  BY <1>3, <1>4, EnumeratedPlain
<1> QED BY <1>1, <1>5 DEF Rebuilt, b

SameWhenPlain(v) == NothingApart(v) => CanonicalJsonStringify[v] = ServerJson[v]

LEMMA PlainObject ==
  ASSUME NEW n \in 0..MaxDepth, NEW v \in Nested[n], v \in Values,
         \A x \in ValuesBelow(n) : SameWhenPlain(x),
         IsObject(v, ValuesBelow(n)), NothingApart(v)
  PROVE  CanonicalJsonStringify[v] = ServerJson[v]
<1>1. v.kind = "object"
  BY KindsDiffer
<1>2. EntriesOK(Range(v.entries)) /\ v.entries \in Seq([key: Seq(Nat), value: Values])
  BY <1>1, ObjectValue
<1>3. \A x \in Range(v.entries) : ~IsIndexKey(x.key) /\ NothingApart(x.value)
  BY <1>1, NothingApartInside
<1> DEFINE e == v.entries  E == Range(e)  R == [key: Seq(Nat), value: Values]
           s == ByteSorted(e)
<1>4. Rebuilt(e) = s
  <2>1. e \in Seq(R) /\ EntriesOK(Range(e)) /\ \A x \in Range(e) : ~IsIndexKey(x.key)
    BY <1>2, <1>3
  <2> HIDE DEF e, R
  <2> QED BY <2>1, RebuiltPlain
<1>5. /\ CanonicalJsonStringify[v] = ObjectOf(WrittenEntries(CanonicalJsonStringify, s))
      /\ ServerJson[v] = ObjectOf(WrittenEntries(ServerJson, s))
  BY <1>1, <1>4, CanonicalTurn, ServerTurn
<1>6. Arranges(s, E)
  BY <1>2, ByteSortedArranges
<1>7. \A x \in E : CanonicalJsonStringify[x.value] = ServerJson[x.value]
  <2>1. \A x \in E : x.value \in ValuesBelow(n)
    BY ObjectInside
  <2> QED BY <1>3, <2>1 DEF SameWhenPlain
<1> HIDE DEF E, s
<1>8. \A i \in DOMAIN s : CanonicalJsonStringify[s[i].value] = ServerJson[s[i].value]
  BY <1>6, <1>7 DEF Arranges
<1>9. WrittenEntries(CanonicalJsonStringify, s) = WrittenEntries(ServerJson, s)
  BY <1>8 DEF WrittenEntries
<1> QED BY <1>5, <1>9

LEMMA PlainArray ==
  ASSUME NEW n \in 0..MaxDepth, NEW v \in Nested[n], v \in Values,
         \A x \in ValuesBelow(n) : SameWhenPlain(x),
         IsArray(v, ValuesBelow(n)), NothingApart(v)
  PROVE  CanonicalJsonStringify[v] = ServerJson[v]
<1>1. v.kind = "array" /\ v.items \in Seq(ValuesBelow(n))
  BY DEF IsArray
<1>2. \A x \in Range(v.items) : x \in ValuesBelow(n) /\ NothingApart(x)
  BY <1>1, NothingApartInside DEF Range
<1>3. \A i \in DOMAIN v.items : CanonicalJsonStringify[v.items[i]] = ServerJson[v.items[i]]
  BY <1>2 DEF SameWhenPlain, Range
<1>4. WrittenItems(CanonicalJsonStringify, v) = WrittenItems(ServerJson, v)
  BY <1>3 DEF WrittenItems
<1> QED BY <1>1, <1>4, CanonicalTurn, ServerTurn

\* Where no object is keyed like an array and no number is spelled apart,
\* canonicalJsonStringify writes what serde_json writes, however deep the value
\* nests and however its members were inserted.
THEOREM PlainValuesAgree ==
  ASSUME NEW v \in Values, NothingApart(v)
  PROVE  CanonicalJsonStringify[v] = ServerJson[v]
<1> DEFINE G == {x \in Values : SameWhenPlain(x)}
<1>1. ASSUME NEW n \in 0..MaxDepth, ValuesBelow(n) \subseteq G PROVE Nested[n] \subseteq G
  <2> SUFFICES ASSUME NEW x \in Nested[n] PROVE x \in G
    OBVIOUS
  <2>1. x \in Values
    <3>1. n \in 0..((MaxDepth + 1) - 1)
      BY NestedAssumption
    <3> QED BY <3>1 DEF Values, ValuesBelow
  <2>2. \A y \in ValuesBelow(n) : SameWhenPlain(y)
    BY <1>1
  <2>3. ASSUME IsLeaf(x) PROVE SameWhenPlain(x)
    <3>1. x.kind = "leaf"
      BY <2>3 DEF IsLeaf
    <3> QED BY <2>1, <3>1, PlainLeaf DEF SameWhenPlain
  <2>4. SameWhenPlain(x)
    BY <2>1, <2>2, <2>3, ValueShape, PlainArray, PlainObject DEF SameWhenPlain
  <2> QED BY <2>1, <2>4
<1>2. Values \subseteq G
  <2> HIDE DEF G
  <2> QED BY <1>1, ValueInduction
<1> QED BY <1>2 DEF SameWhenPlain

LEMMA LetterIsNoIndex == ASSUME NEW c \in Nat, c > 57 PROVE ~IsIndexKey(<<c>>)
<1>1. c \in Range(<<c>>)
  BY DEF Range
<1>2. c \notin 48..57
  OBVIOUS
<1> QED BY <1>1, <1>2 DEF IsIndexKey

\* The names in the payload itself are no array indices, its ids no numbers.
LEMMA PayloadNotApart ==
  ASSUME NEW t \in Tuple, NothingApart(t.dataset)
  PROVE  NothingApart(PayloadObject(t))
<1>1. /\ ~IsIndexKey(AccountKey) /\ ~IsIndexKey(DatasetKey) /\ ~IsIndexKey(FingerprintKey)
      /\ ~IsIndexKey(IdKey) /\ ~IsIndexKey(MachineKey)
  BY LetterIsNoIndex DEF AccountKey, DatasetKey, FingerprintKey, IdKey, MachineKey
<1>2. ASSUME NEW v \in Values, v.kind = "object",
             \A e \in Range(v.entries) : ~IsIndexKey(e.key) /\ NothingApart(e.value)
      PROVE  NothingApart(v)
  <2>1. SetApart[v] = UNION {IndexKeys(e) \cup SetApart[e.value] : e \in Range(v.entries)}
    BY <1>2, ApartTurn DEF ApartWithin, IndexKeys
  <2>2. \A e \in Range(v.entries) : IndexKeys(e) = {} /\ SetApart[e.value] = {}
    BY <1>2 DEF IndexKeys, NothingApart
  <2> QED BY <2>1, <2>2 DEF NothingApart
<1>3. ASSUME NEW x, x \notin Numbers, Leaf(x) \in Values PROVE NothingApart(Leaf(x))
  <2>1. Leaf(x).kind = "leaf" /\ Leaf(x).leaf = x
    BY DEF Leaf
  <2>2. SetApart[Leaf(x)] = {x} \cap SpelledApart
    BY <1>3, <2>1, ApartTurn DEF ApartWithin
  <2> QED BY <1>3, <2>2 DEF NothingApart, SpelledApart
<1>4. \A k, x : Entry(k, x).key = k /\ Entry(k, x).value = x
  BY DEF Entry
<1>5. NothingApart(Leaf(t.account)) /\ NothingApart(Leaf(t.id)) /\ NothingApart(Leaf(t.fingerprint))
  <2>1. t.account \notin Numbers /\ t.id \notin Numbers /\ t.fingerprint \notin Numbers
    BY StringsAssumption
  <2> QED BY <1>3, <2>1, PayloadParts
<1>6. NothingApart(AccountObject(t)) /\ NothingApart(MachineObject(t))
  <2>1. \A e \in Range(AccountObject(t).entries) : ~IsIndexKey(e.key) /\ NothingApart(e.value)
    BY <1>1, <1>4, <1>5, PayloadParts
  <2>2. \A e \in Range(MachineObject(t).entries) : ~IsIndexKey(e.key) /\ NothingApart(e.value)
    BY <1>1, <1>4, <1>5, PayloadParts
  <2> QED BY <1>2, <2>1, <2>2, PayloadParts
<1>7. \A e \in Range(PayloadObject(t).entries) : ~IsIndexKey(e.key) /\ NothingApart(e.value)
  BY <1>1, <1>4, <1>6, PayloadParts
<1> QED BY <1>2, <1>7, PayloadParts

-----------------------------------------------------------------------------
(* A genuine proof.                                                        *)

\* The token as the server wrote it is parsed, and is the signature.
LEMMA IntactToken ==
  /\ ParseProofToken(Token(TRUE, SignatureText)) = "none"
  /\ Stripped(SignatureText) = SignatureText
<1> DEFINE s == SignatureText  kept == {i \in DOMAIN s : s[i] # "blank"}
<1>1. /\ s \in Seq({"x", "="}) /\ Len(s) = 8
      /\ \A i \in 1..8 : s[i] = "x" \/ (s[i] = "=" /\ i >= 7)
      /\ s[8] = "="
  <2>1. s = <<"x", "x", "x", "x", "x", "x", "=", "=">>
    BY DEF SignatureText
  <2> HIDE DEF s
  <2> QED BY <2>1
<1>2. DOMAIN s = 1..8
  <2> HIDE DEF s
  <2> QED BY <1>1
<1>3. kept = 1..8
  <2> HIDE DEF s
  <2>1. \A i \in 1..8 : s[i] # "blank"
    BY <1>1
  <2> QED BY <1>2, <2>1
<1>4. Min(kept) = 1 /\ Max(kept) = 8
  <2>1. Min(1..8) \in 1..8 /\ \A y \in 1..8 : Min(1..8) <= y
    <3>1. (1..8) \in SUBSET Nat /\ (1..8) # {}
      OBVIOUS
    <3> QED BY <3>1, MinMember
  <2>2. Max(1..8) \in 1..8 /\ \A y \in 1..8 : y <= Max(1..8)
    <3>1. 8 \in Nat /\ (1..8) \in SUBSET (1..8) /\ (1..8) # {}
      OBVIOUS
    <3> QED BY <3>1, MaxMember
  <2>3. 1 \in 1..8 /\ 8 \in 1..8
    OBVIOUS
  <2> DEFINE lo == Min(1..8)  hi == Max(1..8)
  <2>4. lo = 1 /\ hi = 8
    <3> HIDE DEF lo, hi
    <3>1. lo \in 1..8 /\ lo <= 1 /\ hi \in 1..8 /\ 8 <= hi
      BY <2>1, <2>2, <2>3 DEF lo, hi
    <3> QED BY <3>1
  <2> HIDE DEF kept
  <2> QED BY <1>3, <2>4
<1>5. SubSeq(s, 1, 8) = s
  <2> HIDE DEF s
  <2> QED BY <1>1
<1>6. Stripped(s) = s
  <2>1. kept # {}
    <3> HIDE DEF kept
    <3>1. 1 \in 1..8
      OBVIOUS
    <3> QED BY <1>3, <3>1
  <2>2. Stripped(s) = IF kept = {} THEN <<>> ELSE SubSeq(s, Min(kept), Max(kept))
    BY DEF Stripped
  <2> HIDE DEF s, kept
  <2> QED BY <1>4, <1>5, <2>1, <2>2
<1> HIDE DEF s, kept
<1>7. IsBase64(s)
  BY <1>1 DEF IsBase64
<1>8. Token(TRUE, s).prefixed /\ Token(TRUE, s).text = s
  BY DEF Token
<1>9. ParseProofToken(Token(TRUE, s)) = "none"
  BY <1>6, <1>7, <1>8 DEF ParseProofToken
<1> QED BY <1>6, <1>9 DEF s

LEMMA UsableKey ==
  ASSUME NEW size \in KeySizes, NEW form \in {"pkcs1", "spki"}
  PROVE  ImportRsaPublicKey[size][form]
<1>1. ModulusLong(size)
  <2>1. KeySizes \subseteq 1..8192
    BY ConstantsAssumption, SMTT(60)
  <2> QED BY <2>1, SMTT(60) DEF ModulusLong
<1> DEFINE key == EmbeddedKey(size, form)
<1>2. form \in KeyForms
  BY DEF KeyForms
<1>3. ImportRsaPublicKey[size][form] = (ImportSpki(ToRsaSpki(key)) = Pkcs1Key(size))
  BY <1>2 DEF ImportRsaPublicKey
<1>4. CASE form = "pkcs1"
  <2>1. key = Pkcs1Key(size)
    BY <1>4 DEF EmbeddedKey
  <2>2. ImportSpki(ToRsaSpki(key)) = Pkcs1Key(size)
    BY ONLY <1>1, <2>1, EitherEncodingImports
  <2> HIDE DEF key
  <2> QED BY <1>3, <2>2, Zenon
<1>5. CASE form = "spki"
  <2>1. key = SpkiKey(size)
    BY <1>5 DEF EmbeddedKey
  <2>2. ImportSpki(ToRsaSpki(key)) = Pkcs1Key(size)
    BY ONLY <1>1, <2>1, EitherEncodingImports
  <2> HIDE DEF key
  <2> QED BY <1>3, <2>2, Zenon
<1> QED BY <1>4, <1>5

LEMMA GenuineNext ==
  TypeOK /\ ProofInv /\ GenuineProofVerifies /\ [Next]_vars => GenuineProofVerifies'
<1> SUFFICES ASSUME TypeOK, ProofInv, GenuineProofVerifies, [Next]_vars
             PROVE  GenuineProofVerifies'
  OBVIOUS
<1>1. ~NoAnswer.matches
  BY DEF NoAnswer
<1>2. ASSUME NEW reading \in Readings, Activate(reading) PROVE GenuineProofVerifies'
  BY <1>1, <1>2 DEF Activate, GenuineProofVerifies
<1>3. ASSUME NEW row \in rows, NEW dataset \in Datasets, GenerateOfflineProof(row, dataset)
      PROVE  GenuineProofVerifies'
  BY <1>1, <1>3 DEF GenerateOfflineProof, GenuineProofVerifies
<1>4. ASSUME NEW p \in Presentations, NEW t \in Tuple, VerifyOfflineProof(p[1], p[2], t)
      PROVE  GenuineProofVerifies'
  <2> SUFFICES ASSUME answer'.matches, answer'.intact, ~answer'.apart
               PROVE  answer'.verdict = "true"
    BY DEF GenuineProofVerifies
  <2>1. PICK u \in Tuple : proof = Proof(u)
    BY <1>4 DEF VerifyOfflineProof, ProofInv
  <2>2. proof.payload = ServerPayload[u] /\ proof.tuple = u
    BY <2>1 DEF Proof
  <2> DEFINE parsed == ParseProofToken(p[1])
             verified == VerifyRsaPkcs1(BuildProofPayloadJson[t], p[1], p[2])
             said == IF parsed # "none" THEN parsed ELSE Verdict(verified)
             same == /\ [t EXCEPT !.dataset = proof.tuple.dataset] = proof.tuple
                     /\ SameData(t.dataset, proof.tuple.dataset)
             intact == p[1] = Token(TRUE, SignatureText) /\ p[2] \in {"pkcs1", "spki"}
             apart == SetApart[t.dataset] # {}
  <2>3. answer' = [verdict |-> said, matches |-> same, intact |-> intact, apart |-> apart]
    BY <1>4 DEF VerifyOfflineProof
  <2>4. answer'.verdict = said /\ same /\ intact /\ ~apart
    <3> HIDE DEF said, same, intact, apart
    <3> QED BY <2>3
  <2>5. NothingApart(t.dataset)
    BY <2>4 DEF NothingApart
  <2>6. ServerPayload[t] = ServerPayload[u]
    <3>1. [t EXCEPT !.dataset = u.dataset] = u /\ SameData(t.dataset, u.dataset)
      BY <2>2, <2>4
    <3>2. t = [account |-> t.account, id |-> t.id,
               fingerprint |-> t.fingerprint, dataset |-> t.dataset]
      BY DEF Tuple
    <3>3. u = [account |-> t.account, id |-> t.id,
               fingerprint |-> t.fingerprint, dataset |-> u.dataset]
      BY <3>1, <3>2
    <3>4. t.account = u.account /\ t.id = u.id /\ t.fingerprint = u.fingerprint
      BY <3>3
    <3> QED BY <3>1, <3>4, PayloadsAlike
  <2>7. BuildProofPayloadJson[t] = ServerPayload[t]
    <3>1. CanonicalJsonStringify[PayloadObject(t)] = ServerJson[PayloadObject(t)]
      BY <2>5, PayloadNotApart, PayloadParts, PlainValuesAgree
    <3> QED BY <3>1 DEF BuildProofPayloadJson, ServerPayload
  <2>8. BuildProofPayloadJson[t] = proof.payload
    BY <2>2, <2>6, <2>7
  <2>9. ImportRsaPublicKey[keySize][p[2]]
    <3>1. keySize \in KeySizes
      BY DEF TypeOK
    <3> DEFINE form == p[2]
    <3>2. form \in {"pkcs1", "spki"}
      BY <2>4
    <3> HIDE DEF form
    <3>3. ImportRsaPublicKey[keySize][form]
      BY <3>1, <3>2, UsableKey
    <3> QED BY <3>3 DEF form
  <2>10. parsed = "none" /\ Stripped(p[1].text) = SignatureText
    <3>1. Token(TRUE, SignatureText).text = SignatureText
      BY DEF Token
    <3> QED BY <2>4, <3>1, IntactToken
  <2>11. verified
    BY <2>8, <2>9, <2>10 DEF VerifyRsaPkcs1
  <2> HIDE DEF verified, parsed
  <2>12. said = "true"
    BY <2>10, <2>11 DEF Verdict
  <2> QED BY <2>4, <2>12
<1>5. CASE UNCHANGED vars
  BY <1>5 DEF vars, GenuineProofVerifies
<1> QED BY <1>2, <1>3, <1>4, <1>5 DEF Next

\* An untouched proof verifies over what it was minted for, in whatever order
\* the members of the dataset were inserted, with a modulus of up to 8192
\* bytes in either encoding of the key, if nothing in the dataset is set apart.
THEOREM SpecGenuineProofVerifies == Spec => []GenuineProofVerifies
<1>1. Init => ProofInv /\ GenuineProofVerifies
  BY DEF Init, ProofInv, GenuineProofVerifies, NoAnswer
<1> QED BY <1>1, SeatsInit, SeatsNext, TypeInit, TypeNext, ProofInvNext, GenuineNext, PTL
        DEF Spec
=============================================================================
