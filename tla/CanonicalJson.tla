---------------------------- MODULE CanonicalJson ----------------------------
(***************************************************************************)
(* src/internal/canonicalJson.ts.  Pure.  A JavaScript object is the       *)
(* sequence of its own entries in the order the program inserted them, and *)
(* JSON text the sequence of entries in the order they are written; a      *)
(* value is a leaf, an array or an object.  A leaf is what JSON keeps of   *)
(* it: null for NaN, 0 for -0.  Strings and literals are written alike on  *)
(* both sides, numbers are not: Decimal[x] is the shortest decimal that    *)
(* reads back as x, 0.d1..dLENGTH times ten to the POINT.                  *)
(***************************************************************************)
EXTENDS Texts

CONSTANTS
  Numbers,  \* the leaves that are numbers
  Decimal,  \* Decimal[x], x a number: [length, point, fits64], the last whether
            \* x is a whole number of 64 bits, signed or not
  ProtoKey, \* the key spelled "__proto__"
  MaxDepth, \* bound: how deep a value nests
  Nested    \* bound: Nested[n], the values in play that nest n deep

Leaf(x) == [kind |-> "leaf", leaf |-> x]
ArrayOf(values) == [kind |-> "array", items |-> values]
ObjectOf(entries) == [kind |-> "object", entries |-> entries]
Entry(key, value) == [key |-> key, value |-> value]

ValuesBelow(depth) == UNION {Nested[n] : n \in 0..(depth - 1)}
Values == ValuesBelow(MaxDepth + 1)

\* Seventeen digits tell all doubles apart; 10^18 fits 64 bits, 10^20 does not.
ASSUME DecimalAssumption ==
  \A x \in Numbers :
    /\ Decimal[x] \in [length: 1..17, point: Int, fits64: BOOLEAN]
    /\ Decimal[x].length <= Decimal[x].point /\ Decimal[x].point <= 18
         => Decimal[x].fits64
    /\ Decimal[x].fits64
         => Decimal[x].length <= Decimal[x].point /\ Decimal[x].point <= 20

\* What is inside a value nests less deep, and no object has a key twice.
ASSUME NestedAssumption ==
  /\ MaxDepth \in Nat
  /\ \A n \in 0..MaxDepth : \A v \in Nested[n] :
       \/ v.kind = "leaf" /\ v = Leaf(v.leaf)
       \/ v.kind = "array" /\ v = ArrayOf(v.items) /\ v.items \in Seq(ValuesBelow(n))
       \/ /\ v.kind = "object" /\ v = ObjectOf(v.entries)
          /\ v.entries \in Seq([key: Seq(Nat), value: ValuesBelow(n)])
          /\ \A i \in DOMAIN v.entries : IsText(v.entries[i].key)
          /\ \A i, j \in DOMAIN v.entries :
               v.entries[i].key = v.entries[j].key => i = j

\* By value, of numbers in decimal without leading zeros.
IndexBefore(a, b) ==
  \/ Len(a) < Len(b)
  \/ Len(a) = Len(b) /\ LexBefore(a, b)

\* An array index in decimal: no sign, no leading zero, at most 4294967294.
MaxIndexKey == <<52, 50, 57, 52, 57, 54, 55, 50, 57, 52>>
IsIndexKey(key) ==
  /\ key # <<>>
  /\ Range(key) \subseteq 48..57
  /\ key[1] = 48 => Len(key) = 1
  /\ ~IndexBefore(MaxIndexKey, key)

\* Object.keys and JSON.stringify: index keys first, ascending, then all
\* others as they were inserted.
Enumerated(entries) ==
  LET indexed  == {e \in Range(entries) : IsIndexKey(e.key)}
      plain    == {i \in DOMAIN entries : ~IsIndexKey(entries[i].key)}
      inserted == InOrder(plain, {p \in plain \X plain : p[1] < p[2]})
  IN InOrder(indexed, {p \in indexed \X indexed : IndexBefore(p[1].key, p[2].key)})
       \o [i \in DOMAIN inserted |-> entries[inserted[i]]]

\* No two entries have the same key, so no two are alike.
ByteSorted(entries) ==
  InOrder(Range(entries),
          {p \in Range(entries) \X Range(entries) : CompareUtf8(p[1].key, p[2].key)})

\* Mutant: the accumulator is a plain {}, whose __proto__ setter takes the key.
RebuiltOnPlain(entries) ==
  SelectSeq(Enumerated(ByteSorted(Enumerated(entries))),
            LAMBDA e : e.key # ProtoKey)

\* canonicalize, one level: the keys are inserted in sorted order and written
\* in the order the engine enumerates them.
Rebuilt(entries) == Enumerated(ByteSorted(Enumerated(entries)))

\* How the text of a number looks: without an exponent, with "e", or with "e+".
\* JSON.stringify, that is Number::toString ...
JsSpelling ==
  [x \in Numbers |->
     CASE Decimal[x].point < -5     -> "e"
       [] Decimal[x].point \in -5..21 -> "plain"
       [] Decimal[x].point > 21     -> "e+"]

\* ... and serde_json: of the text that JSON.stringify sent, a whole number of
\* 64 bits is kept as one; any other becomes a double, written as ryu writes it.
ServerSpelling ==
  [x \in Numbers |->
     IF Decimal[x].fits64 \/ Decimal[x].point \in -4..16 THEN "plain" ELSE "e"]

\* The numbers whose text is not the same on both sides: those between 1e-6
\* and 1e-5, and the whole ones that do not fit 64 bits.
SpelledApart ==
  {x \in Numbers :
     \/ Decimal[x].point = -5
     \/ Decimal[x].length <= Decimal[x].point /\ ~Decimal[x].fits64}

LeafText(x, spelling) ==
  [kind |-> "leaf", leaf |-> x,
   spelled |-> IF x \in Numbers THEN spelling[x] ELSE "literal"]

\* One turn of a serializer that writes the entries of an object in the order
\* given; `json` is what became of the values inside.
Written(json, value, entries, spelling) ==
  CASE value.kind = "leaf" -> LeafText(value.leaf, spelling)
    [] value.kind = "array" -> ArrayOf([i \in DOMAIN value.items |-> json[value.items[i]]])
    [] value.kind = "object" ->
         ObjectOf([i \in DOMAIN entries |-> Entry(entries[i].key, json[entries[i].value])])

CanonicalJsonStringify[value \in Values] ==
  Written(CanonicalJsonStringify, value, Rebuilt(value.entries), JsSpelling)

\* The server's serializer, serde_json over a BTreeMap: every object in byte
\* order of its keys.
ServerJson[value \in Values] ==
  Written(ServerJson, value, ByteSorted(value.entries), ServerSpelling)

\* What in a value the two write differently: keys that are array indices and
\* numbers spelled apart; `apart` is what became of the values inside.
ApartWithin(apart, value) ==
  CASE value.kind = "leaf" -> {value.leaf} \cap SpelledApart
    [] value.kind = "array" -> UNION {apart[v] : v \in Range(value.items)}
    [] value.kind = "object" ->
         UNION {{k \in {e.key} : IsIndexKey(k)} \cup apart[e.value]
                  : e \in Range(value.entries)}

SetApart[value \in Values] == ApartWithin(SetApart, value)
=============================================================================
