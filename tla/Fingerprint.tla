----------------------------- MODULE Fingerprint -----------------------------
(***************************************************************************)
(* src/fingerprint.ts: from labelled components to the string whose hash   *)
(* is a machine's fingerprint.  Pure.  SHA-256 is taken to be injective:   *)
(* the canonical string stands for its digest.                             *)
(***************************************************************************)
EXTENDS Texts

SEPARATOR == 31
EQUALS_CODE == 61
DELETE_CODE == 127
ASCII_WHITESPACE == {32} \cup 9..13
ASCII_CONTROLS == 0..31 \cup {DELETE_CODE}
NBSP == 160

Trim(text, blanks) ==
  LET kept == {i \in DOMAIN text : text[i] \notin blanks} IN
  IF kept = {} THEN <<>> ELSE SubSeq(text, Min(kept), Max(kept))

AsciiTrim(value) == Trim(value, ASCII_WHITESPACE)

\* Mutant: any character but `=` is allowed in a label.
LabelAnyScript(label) ==
  IF label = <<>> THEN "empty-label"
  ELSE IF EQUALS_CODE \in Range(label) THEN "invalid-label" ELSE "none"

\* validateLabel: the kind of FingerprintError it throws, if any.
ValidateLabel(label) ==
  IF label = <<>> THEN "empty-label"
  ELSE IF Range(label) \subseteq 33..126 \ {EQUALS_CODE} THEN "none"
  ELSE "invalid-label"

\* Mutant: control characters pass.
ValueUnchecked(trimmed) == "none"

ValidateTrimmedValue(trimmed) ==
  IF Range(trimmed) \cap ASCII_CONTROLS = {} THEN "none" ELSE "invalid-value"

\* What the i-th turn of the loop throws.
ComponentError(components, i) ==
  LET c == components[i] IN
  IF ValidateLabel(c.label) # "none" THEN ValidateLabel(c.label)
  ELSE IF \E j \in 1..(i - 1) : components[j].label = c.label
       THEN "duplicate-label"
  ELSE ValidateTrimmedValue(AsciiTrim(c.value))

\* The first component at fault decides.
FingerprintError(components) ==
  LET faulty == {i \in DOMAIN components : ComponentError(components, i) # "none"} IN
  IF components = <<>> THEN "no-components"
  ELSE IF faulty = {} THEN "none"
  ELSE ComponentError(components, Min(faulty))

Part(c) == c.label \o <<EQUALS_CODE>> \o AsciiTrim(c.value)
Parts(components) == {Part(components[i]) : i \in DOMAIN components}

ByteOrder(texts) == {p \in texts \X texts : CompareUtf8(p[1], p[2])}

\* The parts of valid components, sorted and joined; no label repeats, so no
\* part does.
Joined(components) ==
  LET sorted == InOrder(Parts(components), ByteOrder(Parts(components)))
  IN FlattenSeq([i \in DOMAIN sorted |-> <<SEPARATOR>> \o sorted[i]])

\* canonicalFingerprintString of components it does not refuse.
CanonicalFingerprintString(components) ==
  [domain |-> "tamga-fingerprint-v1", text |-> Joined(components)]

\* What a fingerprint identifies: the named values, however they were read.
Identity(components) ==
  {<<components[i].label, Trim(components[i].value, ASCII_WHITESPACE)>> :
     i \in DOMAIN components}
=============================================================================
