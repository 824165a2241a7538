--------------------------- MODULE MCOfflineProof ---------------------------
(* Instances of OfflineProof for TLC.                                     *)
EXTENDS OfflineProof

CONSTANTS
  none, m1, m2, a1, a2, v1, v2, v3,
  half, tiny, least, most,    \* 0.5, 1.5e-7, 1e-5 and 12345678901234567000
  below, beyond, huge         \* 1e-6, 1e20 and 1e21

Reads(label, value) == [label |-> label, value |-> value]
a == <<97>>   b == <<98>>   x == <<120>>   y == <<121>>
AtoB == <<97, 61, 98>>                        \* "a=b"
Dash == <<97, 45, 98>>                        \* "a-b", before "a=" in order

\* One machine read in two orders and with blanks; one that shows a
\* non-breaking space; one whose value holds the other's second component;
\* labels that are prefixes of one another; labels and values that collide
\* if `=` is taken for a letter; scripts whose two orders differ; and what
\* must be refused.
SampleReadings ==
  {<<Reads(a, x), Reads(b, y)>>,
   <<Reads(b, <<32>> \o y \o <<10>>), Reads(a, x)>>,
   <<Reads(a, <<NBSP>> \o x), Reads(b, y)>>,
   <<Reads(a, x \o <<31>> \o b \o <<61>> \o y)>>,
   <<Reads(a, <<65536>>), Reads(Dash, <<65535>>)>>,
   <<Reads(a, b \o <<61>> \o x)>>,
   <<Reads(AtoB, x)>>,
   <<Reads(<<65536>>, x), Reads(<<65535>>, x)>>,
   <<Reads(a, x), Reads(a, x)>>,
   <<Reads(<<>>, x)>>,
   <<>>}

\* Numbers around the places where a text changes, most fitting 64 bits.
Digits(length, point, fits64) == [length |-> length, point |-> point, fits64 |-> fits64]
SampleDecimal ==
  half :> Digits(1, 0, FALSE) @@ tiny :> Digits(2, -6, FALSE)
    @@ least :> Digits(1, -4, FALSE) @@ most :> Digits(17, 20, TRUE)
    @@ below :> Digits(1, -5, FALSE) @@ beyond :> Digits(1, 21, FALSE)
    @@ huge :> Digits(1, 22, FALSE)
SampleNumbers == DOMAIN SampleDecimal

Proto == <<95>>
NoIndex == <<52, 50, 57, 52, 57, 54, 55, 50, 57, 53>>   \* "4294967295"
Shallow(pairs) == ObjectOf([i \in DOMAIN pairs |-> Entry(pairs[i][1], Leaf(pairs[i][2]))])

SpelledAlike == ArrayOf(<<Leaf(half), Leaf(tiny), Leaf(least), Leaf(most)>>)

\* Two insertion orders, nested and not, keys outside the BMP, a key that is
\* not what it looks like, digits that are no array index, numbers the two
\* sides spell alike, and one they do not.
SampleDatasets ==
  {ObjectOf(<<>>),
   Shallow(<< <<a, v1>>, <<b, v2>> >>),
   Shallow(<< <<b, v2>>, <<a, v1>> >>),
   Shallow(<< <<a, v1>>, <<b, v2>>, <<Proto, v3>> >>),
   ObjectOf(<<Entry(a, ArrayOf(<<Shallow(<< <<<<65536>>, v1>>, <<<<65535>>, v2>> >>)>>))>>),
   ObjectOf(<<Entry(a, ArrayOf(<<Shallow(<< <<<<65535>>, v2>>, <<<<65536>>, v1>> >>)>>))>>),
   ObjectOf(<<Entry(NoIndex, SpelledAlike), Entry(<<49>> \o NoIndex, Leaf(v1))>>),
   ObjectOf(<<Entry(<<49>> \o NoIndex, Leaf(v1)), Entry(NoIndex, SpelledAlike)>>),
   Shallow(<< <<a, huge>> >>)}

\* Keys that look like array indices: 9 and 10.
IndexedDatasets == {Shallow(<< <<<<57>>, v1>>, <<<<49, 48>>, v2>> >>)}

\* Numbers that the two sides spell differently.
NumberDatasets == {Shallow(<< <<a, n>> >>) : n \in {half, below, beyond, huge}}

UnlikeDatasets == IndexedDatasets \cup NumberDatasets

\* The payloads and all that is inside them, by depth.
RECURSIVE Depth(_), Within(_)
Depth(v) ==
  CASE v.kind = "leaf"   -> 0
    [] v.kind = "array"  -> 1 + Max({0} \cup {Depth(w) : w \in Range(v.items)})
    [] v.kind = "object" -> 1 + Max({0} \cup {Depth(e.value) : e \in Range(v.entries)})
Within(v) ==
  {v} \cup CASE v.kind = "leaf"   -> {}
             [] v.kind = "array"  -> UNION {Within(w) : w \in Range(v.items)}
             [] v.kind = "object" -> UNION {Within(e.value) : e \in Range(v.entries)}
SampleNested ==
  LET values == UNION {Within(PayloadObject(t)) : t \in Tuple}
  IN [n \in 0..MaxDepth |-> {v \in values : Depth(v) = n}]

\* Sizes around which an encoded length takes one byte more, and RSA-2048's.
SampleKeySizes == {96, 110, 256}
=============================================================================
