----------------------------- MODULE OfflineProof -----------------------------
(***************************************************************************)
(* A machine's identity and its offline proof.  An application computes    *)
(* the fingerprint it activates from components it reads again every time; *)
(* a backend has the server mint a proof over the machine and a dataset;   *)
(* the application, offline, verifies that proof over what it reads        *)
(* (src/proof.ts, over Fingerprint, CanonicalJson and RsaKeys).            *)
(***************************************************************************)
EXTENDS Fingerprint, CanonicalJson, RsaKeys

CONSTANTS
  MachineIds, \* the server's ids
  Accounts,   \* account ids
  Account,    \* the one all this happens in
  Readings,   \* bound: the component lists an application passes in
  Datasets,   \* bound: the objects an application has built or parsed
  KeySizes,   \* bound: sizes of the account's modulus, in bytes
  NoProof

ASSUME ConstantsAssumption ==
  /\ Account \in Accounts
  /\ Readings \subseteq Seq([label: Seq(Nat), value: Seq(Nat)])
  /\ \A r \in Readings : \A i \in DOMAIN r : IsText(r[i].label) /\ IsText(r[i].value)
  /\ Datasets \subseteq Values
  /\ \A d \in Datasets : d.kind = "object"
  /\ KeySizes \subseteq 1..8192

VARIABLES
  rows,   \* the server's machines: [id, fingerprint, holders (a ghost)]
  proof,  \* the last proof minted: what it was minted for and what it signs
  keySize,
  answer  \* what verifyOfflineProof said, and what it was asked

vars == <<rows, proof, keySize, answer>>

\* The readings the SDK accepts, and their fingerprints.
Usable == {r \in Readings : FingerprintError(r) = "none"}
ComputeFingerprint == [r \in Usable |-> CanonicalFingerprintString(r)]

-----------------------------------------------------------------------------
(* The payload.                                                            *)

Tuple == [account: Accounts, id: MachineIds,
          fingerprint: {ComputeFingerprint[r] : r \in Usable}, dataset: Datasets]

\* Member names, by their initials.
AccountKey == <<97>>
DatasetKey == <<100>>
FingerprintKey == <<102>>
IdKey == <<105>>
MachineKey == <<109>>

\* The object literal of buildProofPayloadJson; the server signs its own
\* serialization of the same object.
PayloadObject(t) ==
  ObjectOf(<<Entry(AccountKey, ObjectOf(<<Entry(IdKey, Leaf(t.account))>>)),
             Entry(MachineKey, ObjectOf(<<Entry(IdKey, Leaf(t.id)),
                                          Entry(FingerprintKey, Leaf(t.fingerprint))>>)),
             Entry(DatasetKey, t.dataset)>>)

\* The values in play are all that is serialized.
ASSUME PayloadsAssumption == \A t \in Tuple : PayloadObject(t) \in Values

\* Ids and fingerprints are strings.
ASSUME StringsAssumption ==
  \A t \in Tuple : {t.account, t.id, t.fingerprint} \cap Numbers = {}

BuildProofPayloadJson == [t \in Tuple |-> CanonicalJsonStringify[PayloadObject(t)]]
ServerPayload == [t \in Tuple |-> ServerJson[PayloadObject(t)]]

-----------------------------------------------------------------------------
(* The token: "v1x0." and the base64 of the signature.  A base64 text is a *)
(* sequence of letters of the alphabet, paddings, blanks and others.       *)

\* 256 bytes end in two paddings; the model's signature is shorter.
SignatureText == <<"x", "x", "x", "x", "x", "x", "=", "=">>

\* What may have happened to a token on its way: [prefixed, text].
Token(prefixed, text) == [prefixed |-> prefixed, text |-> text]
Deliveries ==
  {Token(TRUE, SignatureText), Token(FALSE, SignatureText),
   Token(TRUE, SignatureText \o <<"blank">>),
   Token(TRUE, <<"x", "x", "x", "x", "blank", "x", "x", "=", "=">>),
   Token(TRUE, SubSeq(SignatureText, 1, 7)), Token(TRUE, SubSeq(SignatureText, 1, 4)),
   Token(TRUE, [SignatureText EXCEPT ![2] = "other"]), Token(TRUE, <<>>)}

Stripped(text) ==
  LET kept == {i \in DOMAIN text : text[i] # "blank"}
  IN IF kept = {} THEN <<>> ELSE SubSeq(text, Min(kept), Max(kept))

\* BASE64_PATTERN, on the trimmed text.
IsBase64(text) ==
  LET n == Len(text) IN
  /\ n % 4 = 0
  /\ \A i \in 1..n :
       \/ text[i] = "x"
       \/ text[i] = "=" /\ i >= n - 1 /\ text[n] = "="

\* parseProofToken: the kind of ProofError it throws, if any.
ParseProofToken(token) ==
  IF ~token.prefixed THEN "malformed-proof"
  ELSE IF ~IsBase64(Stripped(token.text)) THEN "invalid-base64" ELSE "none"

-----------------------------------------------------------------------------
(* The key.                                                                *)

KeyForms == {"pkcs1", "spki", "cut", "empty", "indefinite"}

\* What the application embedded: the account's key in either encoding, or
\* something that is no key.
EmbeddedKey(size, form) ==
  CASE form = "pkcs1" -> Pkcs1Key(size)
    [] form = "spki"  -> SpkiKey(size)
    [] form = "cut"   -> SubSeq(Pkcs1Key(size), 1, 2)
    [] form = "empty" -> <<>>
    [] OTHER          -> <<DER_TAG_SEQUENCE, 128, DER_TAG_INTEGER>>

\* importRsaPublicKey, and whether it ends in the account's key.
ImportRsaPublicKey ==
  [size \in KeySizes |-> [form \in KeyForms |->
     ImportSpki(ToRsaSpki(EmbeddedKey(size, form))) = Pkcs1Key(size)]]

\* verifyRsaPkcs1: a key that cannot be imported is caught like a signature
\* that does not verify.
VerifyRsaPkcs1(payload, token, form) ==
  /\ ImportRsaPublicKey[keySize][form]
  /\ Stripped(token.text) = SignatureText
  /\ payload = proof.payload

-----------------------------------------------------------------------------
NoAnswer == [verdict |-> "none", matches |-> FALSE, intact |-> FALSE, apart |-> FALSE]

Init ==
  /\ rows = {}
  /\ proof = NoProof
  /\ keySize \in KeySizes
  /\ answer = NoAnswer

\* computeFingerprint, then activateMachine, which adopts the machine that
\* holds the fingerprint.  A refused reading activates nothing.
Activate(reading) ==
  /\ answer' = NoAnswer
  /\ IF reading \notin Usable THEN UNCHANGED rows
     ELSE LET fingerprint == ComputeFingerprint[reading]
              held == {row \in rows : row.fingerprint = fingerprint}
          IN \/ /\ held = {}
                /\ \E id \in MachineIds \ {row.id : row \in rows} :
                     rows' = rows \cup {[id |-> id, fingerprint |-> fingerprint,
                                         holders |-> {Identity(reading)}]}
             \/ \E row \in held :
                  rows' = (rows \ {row}) \cup
                    {[row EXCEPT !.holders = @ \cup {Identity(reading)}]}
  /\ UNCHANGED <<proof, keySize>>

\* generateOfflineProof, by a backend: the server signs what it holds.
GenerateOfflineProof(row, dataset) ==
  LET t == [account |-> Account, id |-> row.id,
            fingerprint |-> row.fingerprint, dataset |-> dataset]
  IN /\ proof' = [tuple |-> t, payload |-> ServerPayload[t]]
     /\ answer' = NoAnswer
     /\ UNCHANGED <<rows, keySize>>

\* Mutant: a signature that does not verify throws ProofError's third kind.
VerdictThrown(verified) == IF verified THEN "true" ELSE "verification-failed"

\* Only a string that is no token throws; any failure of the key or of the
\* signature is a plain `false`.
Verdict(verified) == IF verified THEN "true" ELSE "false"

\* Two datasets with the same members.
SameData(d, e) == ServerJson[d] = ServerJson[e]

\* verifyOfflineProof over what the application reads now.  It leaves no
\* trace, so each question is asked once, of every machine and proof.
VerifyOfflineProof(token, form, t) ==
  /\ proof # NoProof
  /\ answer = NoAnswer
  /\ answer' =
       [verdict |-> IF ParseProofToken(token) # "none" THEN ParseProofToken(token)
                    ELSE Verdict(VerifyRsaPkcs1(BuildProofPayloadJson[t], token, form)),
        matches |-> /\ [t EXCEPT !.dataset = proof.tuple.dataset] = proof.tuple
                    /\ SameData(t.dataset, proof.tuple.dataset),
        intact |-> token = Token(TRUE, SignatureText) /\ form \in {"pkcs1", "spki"},
        apart |-> SetApart[t.dataset] # {}]
  /\ UNCHANGED <<rows, proof, keySize>>

\* Damaged tokens and unusable keys are presented with the right tuple,
\* everything else with an intact token and a usable key.
Presentations ==
  {p \in Deliveries \X KeyForms :
     p[1] = Token(TRUE, SignatureText) \/ p[2] = "pkcs1"}

Next ==
  \/ \E reading \in Readings : Activate(reading)
  \/ \E row \in rows, dataset \in Datasets : GenerateOfflineProof(row, dataset)
  \/ \E p \in Presentations, t \in Tuple : VerifyOfflineProof(p[1], p[2], t)

Spec == Init /\ [][Next]_vars
-----------------------------------------------------------------------------
\* The verdict's type is the contract that verification throws for what is
\* no token and for nothing else.
TypeOK ==
  /\ \A row \in rows :
       /\ row.id \in MachineIds
       /\ row.fingerprint \in {ComputeFingerprint[r] : r \in Usable}
       /\ row.holders # {}
  /\ proof # NoProof => proof.tuple \in Tuple
  /\ keySize \in KeySizes
  /\ answer.verdict \in {"none", "true", "false", "malformed-proof", "invalid-base64"}

\* One machine, one seat: however the components are ordered and whatever
\* ASCII blanks surround them, a machine finds its own row again, and no two
\* machines share one (canonicalFingerprintString).
OneSeatPerMachine ==
  /\ \A row \in rows : Cardinality(row.holders) = 1
  /\ \A r, s \in rows : r.holders \cap s.holders # {} => r = s

\* On every fingerprint in use, an SDK whose language sorts by UTF-16 code
\* units agrees with one that sorts by bytes: what tells two components apart
\* lies in their labels (fingerprint.ts, compareUtf8).
OrdersAgree ==
  \A r \in Usable :
    (\E row \in rows : row.fingerprint = ComputeFingerprint[r])
      => \A p, q \in Parts(r) : UnitsBefore(p, q) = CompareUtf8(p, q)

\* An untouched proof verifies over what it was minted for, in whatever order
\* the members of the dataset were inserted and in either encoding of the
\* key; datasets with a key that is an array index, or with a number the two
\* sides spell differently, are set apart (canonicalize, toRsaSpki).
GenuineProofVerifies ==
  answer.matches /\ answer.intact /\ ~answer.apart => answer.verdict = "true"

\* "Pass the returned proof, plus the exact tuple used here, to
\* verifyOfflineProof to verify it fully offline": no dataset set apart
\* (generateOfflineProof).
ExactTupleVerifies ==
  answer.matches /\ answer.intact => answer.verdict = "true"

\* A proof that verifies was minted for this account, machine, fingerprint
\* and dataset, down to the last member (canonicalize's accumulator).
AcceptedProofBinds ==
  answer.verdict = "true" => answer.matches
=============================================================================
