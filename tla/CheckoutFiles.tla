---------------------------- MODULE CheckoutFiles ----------------------------
(***************************************************************************)
(* Verification of license files and machine files, and the key sets they  *)
(* are verified with (src/checkout/licenseFile.ts, machineFile.ts,         *)
(* keySet.ts), as operators: what each stage of a call answers about a     *)
(* file.  SigningKeys runs them against a server that rotates its keys.    *)
(*                                                                         *)
(* Strings are abstracted to what the code finds out about them.  An alg   *)
(* is the sequence of its segments between the plus signs.  A signature is *)
(* its signer: the key under which it verifies over the bytes of enc, if   *)
(* any.                                                                    *)
(***************************************************************************)
EXTENDS Integers, Sequences

CONSTANTS
  Keys,        \* Ed25519 keys of the account, as their published strings
  NoKey,       \* the empty string in the place of a published key
  Undecodable, \* keys that are not base64 of exactly 32 bytes
  Drifted,     \* keys the server serves under an id of its own
  Materials,   \* license keys, with the fingerprint for a machine file
  NoMaterial,  \* an omitted licenseKey or keyMaterial
  Skew         \* CLOCK_SKEW_TOLERANCE_SECONDS

ASSUME KeysAssumption ==
  /\ Keys # {}
  /\ NoKey \notin Keys
  /\ Undecodable \subseteq Keys
  /\ Drifted \subseteq Keys
ASSUME MaterialsAssumption == NoMaterial \notin Materials
ASSUME SkewAssumption == Skew \in Nat

Ed25519 == "ED25519_SIGN"
JWT     == "RSA_2048_JWT_RS256"

\* schemeAlgSuffix
SchemeAlgSuffix ==
  [ED25519_SIGN            |-> "ed25519",
   RSA_2048_PKCS1_SIGN     |-> "rsa-sha256",
   RSA_2048_JWT_RS256      |-> "rsa-sha256",
   RSA_2048_PKCS1_PSS_SIGN |-> "rsa-pss-sha256",
   ECDSA_P256_SIGN         |-> "ecdsa-p256"]
Schemes == DOMAIN SchemeAlgSuffix

Formats == {"license", "machine"}
Plain     == "base64"
Encrypted == "aes-256-gcm"
Segments  == {Plain, Encrypted, "v2"} \cup {SchemeAlgSuffix[s] : s \in Schemes}

OwnClock == -1  \* an omitted `now`
NoExp    == -1  \* an `exp` claim that is absent or no number

\* Outcomes of a call; Pass is none of them.
Pass == "pass"
SignatureFailure  == "crypto/signature"
DecryptionFailure == "crypto/decryption"
StructuralFailure == "crypto"
Outcomes ==
  {"accepted", "malformed-pem", "invalid-base64", "invalid-json",
   "unsupported-algorithm", "license-key-missing", "scheme-not-supported",
   "expired", SignatureFailure, DecryptionFailure, StructuralFailure,
   "unknown-key-id", "no-published-signing-key"}

-----------------------------------------------------------------------------
(* Key ids and key sets.  A set is a function from key ids to keys.        *)

SigningKeyId(publicKey) == <<"sha256", publicKey>>
UnbackfilledKeyId == SigningKeyId(NoKey)
NoKid == <<"none", NoKey>>

\* The id the server serves a key under and writes into the files it signs.
ServedId(key) == IF key \in Drifted THEN <<"served", key>> ELSE SigningKeyId(key)

KeyIds == {SigningKeyId(k) : k \in Keys} \cup {ServedId(k) : k \in Keys}
AllKeyIds == KeyIds \cup {UnbackfilledKeyId}

Row(key, algorithm) == [id |-> ServedId(key), key |-> key, algorithm |-> algorithm]
Rows == [id : KeyIds, key : Keys, algorithm : {"ed25519", "other"}]

Usable(row) == row.algorithm = "ed25519" /\ row.key \notin Undecodable

\* The first usable row with this id is the one that stays.
FirstUsable(rows, id) ==
  CHOOSE i \in DOMAIN rows :
    /\ Usable(rows[i]) /\ rows[i].id = id
    /\ \A j \in 1..(i - 1) : ~(Usable(rows[j]) /\ rows[j].id = id)

UsableIds(rows) == {rows[i].id : i \in {j \in DOMAIN rows : Usable(rows[j])}}

\* Mutant: only keys that are not retired are kept.
FromResourcesActive(rows) ==
  [id \in {rows[i].id : i \in {j \in DOMAIN rows :
              Usable(rows[j]) /\ \A n \in DOMAIN rows : Usable(rows[n]) => n <= j}}
     |-> rows[FirstUsable(rows, id)].key]

\* Mutant: the set is indexed by the ids computed from the keys.
FromResourcesComputed(rows) ==
  [id \in {SigningKeyId(rows[i].key) : i \in {j \in DOMAIN rows : Usable(rows[j])}}
     |-> id[2]]

FromResources(rows) ==
  [id \in UsableIds(rows) |-> rows[FirstUsable(rows, id)].key]

\* fromPublicKeys throws "invalid-key" at the first key that does not decode.
InvalidKey(publicKeys) == publicKeys \cap Undecodable # {}
FromPublicKeys(publicKeys) == [id \in {SigningKeyId(k) : k \in publicKeys} |-> id[2]]

-----------------------------------------------------------------------------
(* Files and calls.                                                        *)

Signers == [scheme : Schemes, key : Keys]
NoSigner == [scheme |-> "none", key |-> NoKey]

\* object: the bytes are JSON and the JSON is an object; data, meta: it has
\* them, meta as an object; kid, exp: the claims, where meta has them.
Payloads ==
  [object : BOOLEAN, data : BOOLEAN, meta : BOOLEAN,
   kid : AllKeyIds \cup {NoKid}, exp : Nat \cup {NoExp}]
Noise == [object |-> FALSE, data |-> FALSE, meta |-> FALSE, kid |-> NoKid, exp |-> NoExp]

\* sealed: enc is what an encryption made of the payload; readable: its base64
\* is valid; whole: it is long enough for a nonce and a tag.
Files ==
  [format : Formats,
   envelope : {"ok", "noMarkers", "notBase64", "notDocument"},
   alg : Seq(Segments),
   sigReadable : BOOLEAN,
   signer : Signers \cup {NoSigner},
   sealed : BOOLEAN, readable : BOOLEAN, whole : BOOLEAN,
   material : Materials \cup {NoMaterial},
   payload : Payloads]

IsKeySet(set) ==
  DOMAIN set \subseteq AllKeyIds /\ set \in [DOMAIN set -> Keys]

\* A call of one of the four entry points: verifyLicenseFileWithClaims and
\* verifyMachineFileWithClaims (via "key"), verifyLicenseFileWithKeySet and
\* verifyMachineFileWithKeySet (via "set", which only serve Ed25519).
CallFor(format, via, scheme, key, set, material, now) ==
  [format |-> format, via |-> via, scheme |-> scheme, key |-> key, set |-> set,
   material |-> material, now |-> now]

-----------------------------------------------------------------------------
(* The stages before the signature.                                        *)

EnvelopeError ==
  [noMarkers   |-> "malformed-pem",
   notBase64   |-> "invalid-base64",
   notDocument |-> "invalid-json"]

\* parseLicenseFile, parseMachineFile: each looks for its own markers first.
Parse(format, file) ==
  IF file.format # format THEN EnvelopeError["noMarkers"]
  ELSE IF file.envelope = "ok" THEN Pass
  ELSE EnvelopeError[file.envelope]

\* assertSupportedLicenseFileAlg
LicenseAlg(alg) == alg \in {<<Plain, "ed25519", "v2">>, <<Encrypted, "ed25519", "v2">>}

\* parseMachineFileAlg cuts at the first and the last plus sign; the suffix in
\* between must then be the scheme's.
MachineAlg(alg, scheme) ==
  /\ Len(alg) >= 3
  /\ alg[Len(alg)] = "v2"
  /\ alg[1] \in {Plain, Encrypted}
  /\ SubSeq(alg, 2, Len(alg) - 1) = <<SchemeAlgSuffix[scheme]>>

SupportedAlg(call, file) ==
  IF call.format = "license" THEN LicenseAlg(file.alg)
  ELSE MachineAlg(file.alg, call.scheme)

\* Everything a call looks at before it tries a key.
Gate(call, file) ==
  IF call.format = "machine" /\ call.via = "key" /\ call.scheme = JWT
  THEN "scheme-not-supported"
  ELSE IF Parse(call.format, file) # Pass THEN Parse(call.format, file)
  ELSE IF ~SupportedAlg(call, file) THEN "unsupported-algorithm"
  ELSE IF ~file.sigReadable THEN "invalid-base64"
  ELSE Pass

\* verifyEd25519 and its like, under one key; an Ed25519 key of the wrong
\* length verifies nothing.
VerifiesUnder(file, scheme, key) ==
  /\ file.signer = [scheme |-> scheme, key |-> key]
  /\ ~(scheme = Ed25519 /\ key \in Undecodable)

\* findVerifyingKey
HasVerifyingKey(set, file) ==
  \E id \in DOMAIN set : VerifiesUnder(file, Ed25519, set[id])

Trusted(call, file) ==
  IF call.via = "set" THEN HasVerifyingKey(call.set, file)
  ELSE VerifiesUnder(file, call.scheme, call.key)

-----------------------------------------------------------------------------
(* The stages after it.                                                    *)

Bytes(payload)  == [error |-> Pass, payload |-> payload]
Refused(reason) == [error |-> reason, payload |-> Noise]

\* AES-GCM under the key derived from the caller's material.
Open(file, material) ==
  IF file.sealed /\ material = file.material THEN Bytes(file.payload)
  ELSE Refused(DecryptionFailure)

\* decodeLicenseFilePlaintext: enc is one base64 string.
DecodeLicense(file, material) ==
  IF ~file.readable THEN Refused("invalid-base64")
  ELSE IF file.alg[1] = Plain
  THEN Bytes(IF file.sealed THEN Noise ELSE file.payload)
  ELSE IF material = NoMaterial THEN Refused("license-key-missing")
  ELSE IF ~file.whole THEN Refused(StructuralFailure)
  ELSE Open(file, material)

\* Mutant: enc is decoded as one string, like a license file's.
DecodeMachineAsLicense(file, material) == DecodeLicense(file, material)

\* decodeMachineFilePlaintext: a sealed enc is two base64 strings joined by a
\* dot, which base64 does not have; a plain one has no dot.
DecodeMachine(file, material) ==
  IF file.alg[1] = Plain
  THEN IF file.sealed \/ ~file.readable THEN Refused("invalid-base64")
       ELSE Bytes(file.payload)
  ELSE IF material = NoMaterial THEN Refused("license-key-missing")
  ELSE IF ~file.sealed THEN Refused(StructuralFailure)
  ELSE IF ~file.readable THEN Refused("invalid-base64")
  ELSE IF ~file.whole THEN Refused(StructuralFailure)
  ELSE Open(file, material)

Decode(format, file, material) ==
  IF format = "license" THEN DecodeLicense(file, material)
  ELSE DecodeMachine(file, material)

\* probeKeyIdClaim succeeds.
NamesKey(payload) == payload.object /\ payload.meta /\ payload.kid # NoKid

\* finishLicenseFile, finishMachineFile
Finish(payload, now) ==
  IF ~(payload.object /\ payload.data /\ payload.meta) THEN "invalid-json"
  ELSE IF payload.exp # NoExp /\ now - Skew > payload.exp THEN "expired"
  ELSE "accepted"

\* Mutant: a signature that no key verifies is an alteration.
LabelAltered(set, decoded) ==
  IF decoded.error = "license-key-missing" THEN decoded.error ELSE SignatureFailure

\* Mutant: a kid that is not held ends without an error to throw.
LabelNothing(set, decoded) ==
  IF decoded.error = "license-key-missing" THEN decoded.error
  ELSE IF decoded.error # Pass \/ ~NamesKey(decoded.payload) THEN SignatureFailure
  ELSE IF decoded.payload.kid \in DOMAIN set THEN SignatureFailure
  ELSE Pass

\* labelKeySetFailure: why no key of the set verified the signature.
Label(set, decoded) ==
  IF decoded.error = "license-key-missing" THEN decoded.error
  ELSE IF decoded.error # Pass \/ ~NamesKey(decoded.payload) THEN SignatureFailure
  ELSE IF decoded.payload.kid \in DOMAIN set THEN SignatureFailure
  ELSE IF decoded.payload.kid = UnbackfilledKeyId THEN "no-published-signing-key"
  ELSE "unknown-key-id"

\* What a call does before its first await: the gate, then the signature.  A
\* key-set call whose signature no key verifies still opens the file.
Begin(call, file) ==
  IF Gate(call, file) # Pass THEN Gate(call, file)
  ELSE IF call.via = "set" \/ Trusted(call, file) THEN Pass
  ELSE IF call.format = "machine" /\ call.scheme = Ed25519 /\ call.key \in Undecodable
  THEN StructuralFailure
  ELSE SignatureFailure

\* Mutant: the label of a failed signature is not thrown.
ConcludeUnthrown(call, file, clock) ==
  LET decoded == Decode(call.format, file, call.material)
      now     == IF call.now = OwnClock THEN clock ELSE call.now
  IN IF decoded.error # Pass THEN decoded.error
     ELSE IF call.via = "set" /\ ~NamesKey(decoded.payload) THEN "invalid-json"
     ELSE Finish(decoded.payload, now)

\* What it does after: `clock` is Date.now() as it reads it then.
Conclude(call, file, clock) ==
  LET decoded == Decode(call.format, file, call.material)
      now     == IF call.now = OwnClock THEN clock ELSE call.now
  IN IF ~Trusted(call, file) THEN Label(call.set, decoded)
     ELSE IF decoded.error # Pass THEN decoded.error
     ELSE IF call.via = "set" /\ ~NamesKey(decoded.payload) THEN "invalid-json"
     ELSE Finish(decoded.payload, now)

Verdict(call, file, clock) ==
  IF Begin(call, file) # Pass THEN Begin(call, file) ELSE Conclude(call, file, clock)
=============================================================================
