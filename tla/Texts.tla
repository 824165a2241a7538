-------------------------------- MODULE Texts --------------------------------
(***************************************************************************)
(* Strings as sequences of Unicode code points, and the two orders a       *)
(* JavaScript program can sort them by.  Lone surrogates, which are no     *)
(* code points, are left out: TextEncoder replaces them by U+FFFD.         *)
(***************************************************************************)
EXTENDS Integers, Sequences, SequencesExt, FiniteSets, FiniteSetsExt

IsPoint(c) == c \in Nat /\ c <= 1114111 /\ (c < 55296 \/ c > 57343)
IsText(s) == s \in Seq(Nat) /\ \A i \in DOMAIN s : IsPoint(s[i])

\* TextEncoder: the UTF-8 bytes of one code point ...
Continuation(c, shift) == 128 + ((c \div shift) % 64)
Utf8Bytes(c) ==
  IF c < 128 THEN <<c>>
  ELSE IF c < 2048 THEN <<192 + (c \div 64), Continuation(c, 1)>>
  ELSE IF c < 65536
       THEN <<224 + (c \div 4096), Continuation(c, 64), Continuation(c, 1)>>
  ELSE <<240 + (c \div 262144), Continuation(c, 4096), Continuation(c, 64),
         Continuation(c, 1)>>

\* ... and its UTF-16 code units, which charCodeAt and sort() see.
Utf16Units(c) ==
  IF c < 65536 THEN <<c>>
  ELSE <<55296 + ((c - 65536) \div 1024), 56320 + ((c - 65536) % 1024)>>

Utf8(text) == FlattenSeq([i \in DOMAIN text |-> Utf8Bytes(text[i])])
Utf16(text) == FlattenSeq([i \in DOMAIN text |-> Utf16Units(text[i])])

\* Lexicographic order of number sequences, a prefix first.
LexBefore(s, t) ==
  \E n \in 0..Min({Len(s), Len(t)}) :
    /\ \A i \in 1..n : s[i] = t[i]
    /\ n < Len(t)
    /\ n < Len(s) => s[n + 1] < t[n + 1]

\* Mutant: Array.prototype.sort's default order.
UnitsBefore(a, b) == LexBefore(Utf16(a), Utf16(b))

\* compareUtf8 and compareUtf8Bytes, negative.
CompareUtf8(a, b) == LexBefore(Utf8(a), Utf8(b))

\* What a sort makes of a finite set: its members in the order of their ranks,
\* `before` being the pairs that are in order.
InOrder(S, before) ==
  [i \in 1..Cardinality(S) |->
     CHOOSE x \in S : Cardinality({y \in S : <<y, x>> \in before}) = i - 1]
=============================================================================
