-------------------------- MODULE SigningKeysProofs --------------------------
(***************************************************************************)
(* What a verification says is right, for any keys, files, rotations and   *)
(* clocks.  The invariant ties every row, key set and running verification *)
(* to the keys and the file they were made from; the rest is the case      *)
(* analysis of a verdict.                                                  *)
(***************************************************************************)
EXTENDS SigningKeys, SequenceTheorems, TLAPS

\* A file as the server makes it.
Certified(s) ==
  /\ s \in Sources
  /\ s.file.envelope = "ok" /\ s.file.sigReadable
  /\ s.file.readable /\ s.file.whole
  /\ s.file.signer \in [scheme : Schemes \ {JWT}, key : Keys]
  /\ s.file.format = "license" => s.file.signer.scheme = Ed25519
  /\ s.file.alg = Alg(s.file.sealed, s.file.signer.scheme)
  /\ s.file.material = IF s.file.sealed THEN LicenseKey ELSE NoMaterial
  /\ s.file.payload.object /\ s.file.payload.data /\ s.file.payload.meta
  /\ s.file.payload.kid # NoKid
  /\ s.file.signer.scheme = Ed25519 =>
       s.file.payload.kid = IF s.published THEN ServedId(s.file.signer.key)
                            ELSE UnbackfilledKeyId

\* The rows are one for each key, under the id the server gives it.
RowsInv ==
  /\ rows \in Seq(Rows)
  /\ \A i \in DOMAIN rows : rows[i].id = ServedId(rows[i].key)
  /\ \A i, j \in DOMAIN rows : rows[i].key = rows[j].key => i = j
  /\ signing \in [key : Keys, published : BOOLEAN]
  /\ ~signing.published => \A i \in DOMAIN rows : rows[i].key # signing.key

\* A key set holds the keys it was built from, and under each key's own id.
Fits(set, known, pinned) ==
  /\ known \subseteq Keys
  /\ \A id \in DOMAIN set : set[id] \in known \ Undecodable
  /\ \A id \in DOMAIN set : id # UnbackfilledKeyId
  /\ \A id \in DOMAIN set : \A k \in Keys : id = ServedId(k) => set[id] = k
  /\ \A k \in known \ Undecodable : \E id \in DOMAIN set : set[id] = k
  /\ ~pinned => \A k \in known \ Undecodable : ServedId(k) \in DOMAIN set

HeldInv == held.present => Fits(held.set, held.known, held.pinned)

\* What a verification was asked, of which file.
Asked ==
  /\ run = [pc |-> run.pc, source |-> run.source, condition |-> run.condition,
            file |-> run.file, call |-> run.call, known |-> run.known,
            pinned |-> run.pinned, outcome |-> run.outcome,
            started |-> run.started, ended |-> run.ended]
  /\ Certified(run.source)
  /\ run.condition \in Conditions
  /\ run.file = Received(run.source.file, run.condition)
  /\ run.call.format = run.source.file.format
  /\ run.call.via \in {"key", "set"}
  /\ run.call.via = "set" =>
       run.call.scheme = Ed25519 /\ Fits(run.call.set, run.known, run.pinned)
  /\ run.call.via = "key" =>
       /\ run.call.scheme \in Schemes /\ run.call.key \in Keys
       /\ run.source.file.format = "license" => run.call.scheme = Ed25519
  /\ run.started \in Nat /\ run.ended \in Nat
  /\ run.started <= run.ended /\ run.started <= clock
  /\ run.call.now \in {OwnClock, run.started}

RunInv ==
  \/ run = Idle
  \/ /\ Asked
     /\ \/ /\ run.pc = "opening"
           /\ Begin(run.call, run.file) = Pass
        \/ /\ run.pc = "done"
           /\ run.outcome = Verdict(run.call, run.file, run.ended)

KeysInv ==
  /\ clock \in Nat
  /\ RowsInv
  /\ \A s \in issued : Certified(s)
  /\ HeldInv
  /\ RunInv

-----------------------------------------------------------------------------
(* Key ids.                                                                *)

\* Two keys never share an id.
LEMMA IdsDiffer ==
  ASSUME NEW k \in Keys, NEW l \in Keys
  PROVE  /\ ServedId(k) = ServedId(l) => k = l
         /\ SigningKeyId(k) = SigningKeyId(l) => k = l
         /\ SigningKeyId(k) = ServedId(l) => k = l
         /\ ServedId(k) # UnbackfilledKeyId
         /\ SigningKeyId(k) # UnbackfilledKeyId
         /\ ServedId(k) # NoKid
         /\ SigningKeyId(k) # NoKid
         /\ SigningKeyId(k)[2] = k
  BY KeysAssumption DEF ServedId, SigningKeyId, UnbackfilledKeyId, NoKid

\* The id of an account without a published key is still an id.
LEMMA UnbackfilledIsNamed == UnbackfilledKeyId # NoKid
  BY DEF UnbackfilledKeyId, SigningKeyId, NoKid

\* fromPublicKeys gives a set that fits the keys it was given.
LEMMA PinnedSetFits ==
  ASSUME NEW publicKeys \in SUBSET Keys, ~InvalidKey(publicKeys)
  PROVE  Fits(FromPublicKeys(publicKeys), publicKeys, TRUE)
<1> DEFINE set == FromPublicKeys(publicKeys)
<1>1. DOMAIN set = {SigningKeyId(k) : k \in publicKeys}
  BY DEF FromPublicKeys
<1>2. \A k \in publicKeys : set[SigningKeyId(k)] = k
  BY IdsDiffer DEF FromPublicKeys
<1>3. publicKeys \cap Undecodable = {}
  BY DEF InvalidKey
<1> HIDE DEF set
<1>4. \A id \in DOMAIN set : set[id] \in publicKeys \ Undecodable
  BY <1>1, <1>2, <1>3
<1>5. \A id \in DOMAIN set : id # UnbackfilledKeyId
  BY <1>1, IdsDiffer
<1>6. \A id \in DOMAIN set : \A k \in Keys : id = ServedId(k) => set[id] = k
  BY <1>1, <1>2, IdsDiffer
<1>7. \A k \in publicKeys \ Undecodable : \E id \in DOMAIN set : set[id] = k
  BY <1>1, <1>2
<1> QED BY <1>4, <1>5, <1>6, <1>7 DEF Fits, set

\* fromResources gives one that fits the Ed25519 keys among the rows.
LEMMA FetchedSetFits ==
  ASSUME RowsInv
  PROVE  Fits(FromResources(rows),
              {rows[i].key : i \in {j \in DOMAIN rows : rows[j].algorithm = "ed25519"}},
              FALSE)
<1> DEFINE set == FromResources(rows)
           known == {rows[i].key : i \in {j \in DOMAIN rows :
                                            rows[j].algorithm = "ed25519"}}
<1>1. \A i \in DOMAIN rows : rows[i] \in Rows /\ i \in Nat
  BY DEF RowsInv
<1>2. \A i \in DOMAIN rows : rows[i].key \in Keys
  BY <1>1 DEF Rows
<1>3. DOMAIN set = UsableIds(rows)
  BY DEF FromResources
<1>4. ASSUME NEW i \in DOMAIN rows, Usable(rows[i])
      PROVE  ServedId(rows[i].key) \in DOMAIN set /\ set[ServedId(rows[i].key)] = rows[i].key
  <2> DEFINE id == ServedId(rows[i].key)
  <2>1. rows[i].id = id /\ id \in UsableIds(rows)
    BY <1>4 DEF RowsInv, UsableIds
  <2>2. \A j \in DOMAIN rows : rows[j].id = id => j = i
    BY <1>2, IdsDiffer DEF RowsInv
  <2>3. \A j \in 1..(i - 1) : j \in DOMAIN rows /\ j # i
    BY <1>1 DEF RowsInv
  <2>4. /\ Usable(rows[i]) /\ rows[i].id = id
        /\ \A j \in 1..(i - 1) : ~(Usable(rows[j]) /\ rows[j].id = id)
    BY <1>4, <2>1, <2>2, <2>3
  <2> HIDE DEF id
  <2>5. FirstUsable(rows, id) = i
    BY <2>2, <2>4 DEF FirstUsable
  <2>6. set[id] = rows[FirstUsable(rows, id)].key
    BY <2>1 DEF FromResources
  <2> QED BY <2>1, <2>5, <2>6, <1>3 DEF id
<1>5. \A id \in DOMAIN set : \E i \in DOMAIN rows : Usable(rows[i]) /\ id = ServedId(rows[i].key)
  BY <1>3 DEF UsableIds, RowsInv
<1>6. known \subseteq Keys
  BY <1>2
<1>7. \A k \in known \ Undecodable : \E i \in DOMAIN rows : Usable(rows[i]) /\ rows[i].key = k
  BY DEF Usable
<1>8. \A i \in DOMAIN rows : Usable(rows[i]) => rows[i].key \in known \ Undecodable
  BY DEF Usable
<1> HIDE DEF set, known
<1>9. \A id \in DOMAIN set : set[id] \in known \ Undecodable
  BY <1>4, <1>5, <1>8
<1>10. \A id \in DOMAIN set : id # UnbackfilledKeyId
  BY <1>2, <1>5, IdsDiffer
<1>11. \A id \in DOMAIN set : \A k \in Keys : id = ServedId(k) => set[id] = k
  BY <1>2, <1>4, <1>5, IdsDiffer
<1>12. \A k \in known \ Undecodable : ServedId(k) \in DOMAIN set /\ set[ServedId(k)] = k
  BY <1>4, <1>7
<1>13. Fits(set, known, FALSE)
  BY <1>6, <1>9, <1>10, <1>11, <1>12 DEF Fits
<1> QED BY <1>13 DEF set, known

-----------------------------------------------------------------------------
(* Files.                                                                  *)

\* Schemes that sign checkout files have suffixes of their own.
LEMMA SuffixesDiffer ==
  ASSUME NEW x \in Schemes \ {JWT}, NEW y \in Schemes \ {JWT},
         SchemeAlgSuffix[x] = SchemeAlgSuffix[y]
  PROVE  x = y
  BY DEF Schemes, SchemeAlgSuffix, JWT

\* A suffix is a segment of an alg.
LEMMA SuffixIsSegment ==
  ASSUME NEW x \in Schemes
  PROVE  SchemeAlgSuffix[x] \in Segments
  BY DEF Segments

\* A sequence of one segment is that segment.
LEMMA OneSegment ==
  ASSUME NEW X, NEW x \in X, NEW alg \in Seq(X), Len(alg) = 1, alg[1] = x
  PROVE  alg = <<x>>
<1> DEFINE one == <<x>>
<1>1. one \in Seq(X) /\ Len(one) = 1 /\ one[1] = x
  OBVIOUS
<1> HIDE DEF one
<1>2. \A i \in 1..Len(alg) : alg[i] = one[i]
  BY <1>1
<1>3. alg = one
  BY <1>1, <1>2, SeqEqual, Zenon
<1> QED BY <1>3 DEF one

\* What the two alg checks accept of an alg in three segments, and that they
\* refuse one in two.
LEMMA AlgChecks ==
  ASSUME NEW e \in {Plain, Encrypted}, NEW x \in Schemes, NEW y \in Schemes,
         NEW alg, alg = <<e, SchemeAlgSuffix[x], "v2">>
  PROVE  /\ alg \in Seq(Segments) /\ Len(alg) = 3 /\ alg[1] = e
         /\ LicenseAlg(alg) <=> SchemeAlgSuffix[x] = "ed25519"
         /\ MachineAlg(alg, y) <=> SchemeAlgSuffix[x] = SchemeAlgSuffix[y]
         /\ ~LicenseAlg(SubSeq(alg, 1, 2))
         /\ ~MachineAlg(SubSeq(alg, 1, 2), y)
<1> DEFINE sfx == SchemeAlgSuffix[x]
           middle == SubSeq(alg, 2, 2)
<1>1. sfx \in Segments /\ e \in Segments /\ "v2" \in Segments
  BY SuffixIsSegment DEF Segments
<1>2. alg = <<e, sfx, "v2">>
  OBVIOUS
<1> HIDE DEF sfx
<1>3. alg \in Seq(Segments) /\ Len(alg) = 3 /\ alg[1] = e /\ alg[2] = sfx /\ alg[3] = "v2"
  BY <1>1, <1>2
<1>4. LicenseAlg(alg) <=> sfx = "ed25519"
  BY <1>2 DEF LicenseAlg, Plain, Encrypted
<1>5. middle \in Seq(Segments) /\ Len(middle) = 1 /\ middle[1] = sfx
  BY <1>3
<1>6. middle = <<sfx>>
  BY <1>1, <1>5, OneSegment
<1>7. <<sfx>> = <<SchemeAlgSuffix[y]>> <=> sfx = SchemeAlgSuffix[y]
  OBVIOUS
<1>8. MachineAlg(alg, y) <=> sfx = SchemeAlgSuffix[y]
  BY <1>3, <1>6, <1>7 DEF MachineAlg
<1>9. Len(SubSeq(alg, 1, 2)) = 2
  BY <1>3
<1>10. ~LicenseAlg(SubSeq(alg, 1, 2)) /\ ~MachineAlg(SubSeq(alg, 1, 2), y)
  BY <1>9 DEF LicenseAlg, MachineAlg
<1> QED BY <1>3, <1>4, <1>8, <1>10 DEF sfx

\* What each condition leaves of a file.
Shape(f, s, c) ==
  /\ f.format = s.file.format /\ f.sealed = s.file.sealed
  /\ f.envelope = IF c \in DOMAIN EnvelopeError THEN c ELSE "ok"
  /\ f.sigReadable <=> c # "sigGarbled"
  /\ f.readable <=> c # "encGarbled"
  /\ f.whole <=> c # "encTruncated"
  /\ f.signer = IF c \in {"sigAltered", "encGarbled", "encTruncated", "encAltered"}
                THEN NoSigner ELSE s.file.signer
  /\ f.material = IF c = "encAltered" THEN NoMaterial ELSE s.file.material
  /\ f.alg = IF c = "relabelled"
             THEN <<Swapped(s.file.alg[1]), SchemeAlgSuffix[s.file.signer.scheme], "v2">>
             ELSE IF c = "preV2" THEN SubSeq(s.file.alg, 1, 2)
             ELSE s.file.alg
  /\ c \notin {"preV2", "encTruncated", "encAltered"} => f.payload = s.file.payload
  /\ c = "encTruncated" => f.payload = Noise
  /\ c = "encAltered" => f.payload.kid = s.file.payload.kid /\ f.payload.exp = NoExp

\* A file received in a condition has the shape of it.
LEMMA ReceivedFile ==
  ASSUME NEW s, Certified(s), NEW c \in Conditions
  PROVE  Shape(Received(s.file, c), s, c)
<1> DEFINE f == Received(s.file, c)
           a == s.file.alg
<1>1. DOMAIN EnvelopeError = {"noMarkers", "notBase64", "notDocument"}
  BY DEF EnvelopeError
<1>2. s.file \in Files /\ s.file.payload \in Payloads /\ a \in Seq(Segments)
  BY DEF Certified, Sources, Files
<1>3. /\ s.file.signer.scheme \in Schemes
      /\ a = <<IF s.file.sealed THEN Encrypted ELSE Plain,
               SchemeAlgSuffix[s.file.signer.scheme], "v2">>
  BY DEF Certified, Alg
<1>4. s.file.envelope = "ok" /\ s.file.sigReadable /\ s.file.readable /\ s.file.whole
  BY DEF Certified
<1>5. CASE c = "asIssued"
  BY <1>1, <1>4, <1>5 DEF Received, Shape
<1>6. CASE c \in DOMAIN EnvelopeError
  <2>1. f = [s.file EXCEPT !.envelope = c]
    BY <1>1, <1>6 DEF Received
  <2> QED BY <1>1, <1>2, <1>4, <1>6, <2>1 DEF Files, Shape
<1>7. CASE c = "relabelled"
  <2>1. f = [s.file EXCEPT !.alg = [a EXCEPT ![1] = Swapped(a[1])]]
    BY <1>1, <1>7 DEF Received
  <2>2. [a EXCEPT ![1] = Swapped(a[1])]
          = <<Swapped(a[1]), SchemeAlgSuffix[s.file.signer.scheme], "v2">>
    BY <1>3
  <2> QED BY <1>1, <1>2, <1>4, <1>7, <2>1, <2>2 DEF Files, Shape
<1>8. CASE c = "preV2"
  <2>1. f = [s.file EXCEPT !.alg = SubSeq(@, 1, 2), !.payload.meta = FALSE,
                           !.payload.kid = NoKid, !.payload.exp = NoExp]
    BY <1>1, <1>8 DEF Received
  <2> QED BY <1>1, <1>2, <1>4, <1>8, <2>1 DEF Files, Shape
<1>9. CASE c = "sigGarbled"
  <2>1. f = [s.file EXCEPT !.sigReadable = FALSE]
    BY <1>1, <1>9 DEF Received
  <2> QED BY <1>1, <1>2, <1>4, <1>9, <2>1 DEF Files, Shape
<1>10. CASE c = "sigAltered"
  <2>1. f = [s.file EXCEPT !.signer = NoSigner]
    BY <1>1, <1>10 DEF Received
  <2> QED BY <1>1, <1>2, <1>4, <1>10, <2>1 DEF Files, Shape
<1>11. CASE c = "encGarbled"
  <2>1. f = [s.file EXCEPT !.signer = NoSigner, !.readable = FALSE]
    BY <1>1, <1>11 DEF Received
  <2> QED BY <1>1, <1>2, <1>4, <1>11, <2>1 DEF Files, Shape
<1>12. CASE c = "encTruncated"
  <2>1. f = [s.file EXCEPT !.signer = NoSigner, !.whole = FALSE, !.payload = Noise]
    BY <1>1, <1>12 DEF Received
  <2> QED BY <1>1, <1>2, <1>4, <1>12, <2>1 DEF Files, Shape
<1>13. CASE c = "encAltered"
  <2>1. f = [s.file EXCEPT !.signer = NoSigner, !.payload.exp = NoExp,
                           !.material = NoMaterial]
    BY <1>1, <1>13 DEF Received
  <2> DEFINE p == [s.file.payload EXCEPT !.exp = NoExp]
  <2>2. f = [s.file EXCEPT !.signer = NoSigner, !.payload = p, !.material = NoMaterial]
    BY <1>2, <2>1 DEF Files, Shape
  <2>3. p.kid = s.file.payload.kid /\ p.exp = NoExp
    BY <1>2 DEF Payloads
  <2> HIDE DEF p
  <2> QED BY <1>1, <1>2, <1>4, <1>13, <2>2, <2>3, ZenonT(60) DEF Files, Shape
<1> QED
  BY <1>1, <1>5, <1>6, <1>7, <1>8, <1>9, <1>10, <1>11, <1>12, <1>13 DEF Conditions
-----------------------------------------------------------------------------
(* The stages of a verdict.                                                *)

\* The file of a verification has that shape.
LEMMA FileOfRun ==
  ASSUME Asked
  PROVE  Shape(run.file, run.source, run.condition)
  BY ReceivedFile DEF Asked

Passing ==
  {"asIssued", "relabelled", "sigAltered", "encGarbled", "encTruncated", "encAltered"}

\* A file whose alg was not shortened passes the alg check exactly if it was
\* signed with the scheme of the call.
LEMMA AlgOfFile ==
  ASSUME Asked, ~(run.call.format = "machine" /\ run.call.scheme = JWT)
  PROVE  /\ run.condition = "preV2" => ~SupportedAlg(run.call, run.file)
         /\ run.condition # "preV2" =>
              /\ SupportedAlg(run.call, run.file) <=> run.call.scheme = Signer.scheme
              /\ run.file.alg[1] = IF run.source.file.sealed <=> run.condition # "relabelled"
                                   THEN Encrypted ELSE Plain
<1> DEFINE s == run.source
           x == s.file.signer.scheme
           y == run.call.scheme
           e == IF s.file.sealed THEN Encrypted ELSE Plain
           alg == <<e, SchemeAlgSuffix[x], "v2">>
           other == <<Swapped(e), SchemeAlgSuffix[x], "v2">>
<1>1. Certified(s) /\ run.condition \in Conditions /\ run.file = Received(s.file, run.condition)
  BY DEF Asked
<1>2. x \in Schemes \ {JWT} /\ s.file.alg = alg /\ s.file.sealed \in BOOLEAN
  BY <1>1 DEF Certified, Alg, Sources, Files
<1>3. y \in Schemes /\ (s.file.format = "license" => x = Ed25519 /\ y = Ed25519)
  BY <1>1 DEF Asked, Certified, Schemes, SchemeAlgSuffix, Ed25519
<1>4. run.call.format = s.file.format /\ s.file.format \in Formats
  BY <1>1 DEF Asked, Certified, Sources, Files
<1>5. e \in {Plain, Encrypted} /\ Swapped(e) \in {Plain, Encrypted}
  BY DEF Swapped
<1>6. Swapped(e) = IF s.file.sealed THEN Plain ELSE Encrypted
  BY DEF Swapped, Plain, Encrypted
<1>7. run.file.alg = IF run.condition = "relabelled" THEN other
                     ELSE IF run.condition = "preV2" THEN SubSeq(alg, 1, 2) ELSE alg
  <2>1. alg[1] = e
    BY <1>2, <1>5, AlgChecks
  <2> QED BY <1>2, <2>1, FileOfRun DEF Shape
<1>8. /\ alg[1] = e
      /\ LicenseAlg(alg) <=> SchemeAlgSuffix[x] = "ed25519"
      /\ MachineAlg(alg, y) <=> SchemeAlgSuffix[x] = SchemeAlgSuffix[y]
      /\ ~LicenseAlg(SubSeq(alg, 1, 2)) /\ ~MachineAlg(SubSeq(alg, 1, 2), y)
  BY <1>2, <1>3, <1>5, AlgChecks
<1>9. /\ other[1] = Swapped(e)
      /\ LicenseAlg(other) <=> SchemeAlgSuffix[x] = "ed25519"
      /\ MachineAlg(other, y) <=> SchemeAlgSuffix[x] = SchemeAlgSuffix[y]
  BY <1>2, <1>3, <1>5, AlgChecks
<1>10. SchemeAlgSuffix[x] = "ed25519" <=> x = Ed25519
  BY <1>2 DEF Schemes, SchemeAlgSuffix, JWT, Ed25519
<1>11. run.call.format = "machine" => y # JWT
  OBVIOUS
<1>12. run.call.format = "machine" => (SchemeAlgSuffix[x] = SchemeAlgSuffix[y] <=> x = y)
  BY <1>2, <1>3, <1>11, SuffixesDiffer
<1> HIDE DEF s, x, y, e, alg, other
<1>13. run.condition = "preV2" => ~SupportedAlg(run.call, run.file)
  BY <1>7, <1>8 DEF SupportedAlg, y
<1>14. ASSUME run.condition # "preV2"
       PROVE  SupportedAlg(run.call, run.file) <=> y = x
  <2>1. run.file.alg \in {alg, other}
    BY <1>7, <1>14
  <2>2. LicenseAlg(run.file.alg) <=> x = Ed25519
    BY <2>1, <1>8, <1>9, <1>10
  <2>3. MachineAlg(run.file.alg, y) <=> SchemeAlgSuffix[x] = SchemeAlgSuffix[y]
    BY <2>1, <1>8, <1>9
  <2>4. CASE run.call.format = "license"
    BY <2>2, <2>4, <1>3, <1>4 DEF SupportedAlg
  <2>5. CASE run.call.format = "machine"
    BY <2>3, <2>5, <1>12 DEF SupportedAlg, y
  <2> QED BY <2>4, <2>5, <1>4 DEF Formats
<1>15. ASSUME run.condition # "preV2"
       PROVE  run.file.alg[1] = IF s.file.sealed <=> run.condition # "relabelled"
                                THEN Encrypted ELSE Plain
  BY <1>2, <1>6, <1>7, <1>8, <1>9, <1>15 DEF e
<1> QED BY <1>13, <1>14, <1>15 DEF Signer, s, x, y

\* What the gate lets through.
LEMMA GateOfFile ==
  ASSUME Asked
  PROVE  /\ Gate(run.call, run.file) = Pass =>
              /\ run.condition \in Passing
              /\ run.call.scheme = Signer.scheme
              /\ ~(run.call.format = "machine" /\ run.call.scheme = JWT)
         /\ Genuine /\ run.call.scheme = Signer.scheme =>
              Gate(run.call, run.file) = Pass
<1> DEFINE s == run.source
<1>1. Certified(s) /\ run.condition \in Conditions /\ run.file = Received(s.file, run.condition)
  BY DEF Asked
<1>2. s.file.signer.scheme \in Schemes \ {JWT}
  BY <1>1 DEF Certified
<1>3. run.call.format = s.file.format /\ run.file.format = s.file.format
  BY FileOfRun DEF Asked, Shape
<1>4. run.file.envelope = IF run.condition \in DOMAIN EnvelopeError THEN run.condition ELSE "ok"
  BY FileOfRun DEF Signer, Shape
<1>5. run.file.sigReadable <=> run.condition # "sigGarbled"
  BY FileOfRun DEF Signer, Shape
<1>6. DOMAIN EnvelopeError = {"noMarkers", "notBase64", "notDocument"}
  BY DEF EnvelopeError
<1>7. \A c \in DOMAIN EnvelopeError : EnvelopeError[c] # Pass
  BY DEF EnvelopeError, Pass
<1>8. Parse(run.call.format, run.file) = Pass <=> run.condition \notin DOMAIN EnvelopeError
  BY <1>3, <1>4, <1>6, <1>7 DEF Parse
<1>9. run.call.format = "machine" /\ run.call.scheme = JWT
        => Gate(run.call, run.file) # Pass \/ run.call.via # "key"
  BY DEF Gate, Pass
<1>10. run.call.via = "set" => run.call.scheme # JWT
  BY DEF Asked, Ed25519, JWT
<1>11. ASSUME Gate(run.call, run.file) = Pass
       PROVE  ~(run.call.format = "machine" /\ run.call.scheme = JWT)
  BY <1>9, <1>10, <1>11 DEF Asked
<1>12. ASSUME Gate(run.call, run.file) = Pass
       PROVE  /\ Parse(run.call.format, run.file) = Pass
              /\ SupportedAlg(run.call, run.file) /\ run.file.sigReadable
  BY <1>12 DEF Gate, Pass
<1>13. ASSUME Gate(run.call, run.file) = Pass
       PROVE  run.condition \in Passing /\ run.call.scheme = Signer.scheme
  <2>1. /\ Parse(run.call.format, run.file) = Pass
        /\ SupportedAlg(run.call, run.file) /\ run.file.sigReadable
    BY <1>12, <1>13
  <2>2. run.condition # "preV2"
    BY <2>1, <1>11, <1>13, AlgOfFile
  <2>3. run.call.scheme = Signer.scheme
    BY <2>1, <2>2, <1>11, <1>13, AlgOfFile
  <2> QED BY <2>1, <2>2, <2>3, <1>1, <1>5, <1>6, <1>8 DEF Conditions, Passing
<1>14. ASSUME Genuine, run.call.scheme = Signer.scheme
       PROVE  Gate(run.call, run.file) = Pass
  <2>1. run.call.scheme # JWT
    BY <1>2, <1>14 DEF Signer
  <2>2. SupportedAlg(run.call, run.file)
    BY <1>14, <2>1, AlgOfFile DEF Genuine
  <2> QED BY <1>5, <1>6, <1>8, <1>14, <2>1, <2>2 DEF Gate, Genuine
<1> QED BY <1>11, <1>13, <1>14

\* A file that kept its signature is trusted exactly by the callers who were
\* given its key, and any other by nobody.
LEMMA TrustOfFile ==
  ASSUME Asked
  PROVE  Trusted(run.call, run.file) <=>
           GivenSigner /\ run.file.signer = Signer
<1> DEFINE s == run.source
<1>1. /\ Certified(s) /\ run.condition \in Conditions
      /\ run.file = Received(s.file, run.condition)
  BY DEF Asked
<1>2. run.file.signer \in {NoSigner, Signer}
  BY FileOfRun DEF Signer, Shape
<1>3. /\ Signer \in [scheme : Schemes \ {JWT}, key : Keys]
      /\ Signer = [scheme |-> Signer.scheme, key |-> Signer.key]
  BY <1>1 DEF Certified, Signer
<1>4. NoSigner.scheme \notin Schemes /\ Ed25519 \in Schemes
  BY DEF NoSigner, Schemes, SchemeAlgSuffix, Ed25519
<1>5. \A scheme \in Schemes : \A key : [scheme |-> scheme, key |-> key] # NoSigner
  <2> SUFFICES ASSUME NEW scheme \in Schemes, NEW key,
                      [scheme |-> scheme, key |-> key] = NoSigner
               PROVE  FALSE
    OBVIOUS
  <2>1. NoSigner.scheme = scheme
    BY DEF NoSigner
  <2> QED BY <2>1, <1>4
<1>6. CASE run.call.via = "set"
  <2> DEFINE set == run.call.set
  <2>1. Fits(set, run.known, run.pinned) /\ run.call.scheme = Ed25519
    BY <1>6 DEF Asked
  <2>2. Trusted(run.call, run.file) <=> \E id \in DOMAIN set :
           /\ run.file.signer = [scheme |-> Ed25519, key |-> set[id]]
           /\ ~(set[id] \in Undecodable)
    BY <1>6 DEF Trusted, HasVerifyingKey, VerifiesUnder
  <2>3. GivenSigner <=> Signer.scheme = Ed25519 /\ Signer.key \in run.known \ Undecodable
    BY <1>6 DEF GivenSigner
  <2>4. ASSUME Trusted(run.call, run.file)
        PROVE  GivenSigner /\ run.file.signer = Signer
    <3>1. PICK id \in DOMAIN set : run.file.signer = [scheme |-> Ed25519, key |-> set[id]]
      BY <2>2, <2>4
    <3>2. run.file.signer = Signer
      BY <3>1, <1>2, <1>4, <1>5
    <3>3. Signer.scheme = Ed25519 /\ Signer.key = set[id]
      BY <3>1, <3>2
    <3> QED BY <3>2, <3>3, <2>1, <2>3 DEF Fits
  <2>5. ASSUME GivenSigner, run.file.signer = Signer
        PROVE  Trusted(run.call, run.file)
    <3>1. PICK id \in DOMAIN set : set[id] = Signer.key
      BY <2>1, <2>3, <2>5 DEF Fits
    <3> QED BY <3>1, <2>2, <2>3, <2>5, <1>3
  <2> QED BY <2>4, <2>5
<1>7. CASE run.call.via = "key"
  <2>1. run.call.scheme \in Schemes
    BY <1>7 DEF Asked
  <2>2. Trusted(run.call, run.file) <=>
          /\ run.file.signer = [scheme |-> run.call.scheme, key |-> run.call.key]
          /\ ~(run.call.scheme = Ed25519 /\ run.call.key \in Undecodable)
    BY <1>7 DEF Trusted, VerifiesUnder
  <2>3. GivenSigner <=> /\ Signer = [scheme |-> run.call.scheme, key |-> run.call.key]
                        /\ ~(Signer.scheme = Ed25519 /\ Signer.key \in Undecodable)
    BY <1>7 DEF GivenSigner
  <2> QED BY <2>1, <2>2, <2>3, <1>2, <1>3, <1>5
<1> QED BY <1>6, <1>7 DEF Asked

Decoded == Decode(run.call.format, run.file, run.call.material)

\* What can come of opening a file in any format.
LEMMA DecodeCases ==
  ASSUME NEW format \in Formats, NEW f, NEW m
  PROVE  LET d == Decode(format, f, m) IN
         /\ d.error = Pass =>
              /\ f.readable
              /\ f.alg[1] # Plain =>
                   m # NoMaterial /\ f.whole /\ f.sealed /\ m = f.material
              /\ f.alg[1] = Plain => (d.payload = IF f.sealed THEN Noise ELSE f.payload)
              /\ f.alg[1] # Plain => d.payload = f.payload
         /\ d.error = DecryptionFailure =>
              /\ f.alg[1] # Plain /\ ~(f.sealed /\ m = f.material)
              /\ format = "machine" => f.sealed
         /\ /\ f.readable /\ f.whole
            /\ IF f.sealed THEN f.alg[1] # Plain ELSE f.alg[1] = Plain
            => IF ~f.sealed THEN d = Bytes(f.payload)
               ELSE IF m = NoMaterial THEN d.error = "license-key-missing"
               ELSE IF m = f.material THEN d = Bytes(f.payload)
               ELSE d.error = DecryptionFailure
<1>1. CASE format = "license"
  BY <1>1 DEF Decode, DecodeLicense, Open, Bytes, Refused, Pass, DecryptionFailure,
     StructuralFailure
<1>2. CASE format = "machine"
  BY <1>2 DEF Decode, DecodeMachine, Open, Bytes, Refused, Pass, DecryptionFailure,
     StructuralFailure
<1> QED BY <1>1, <1>2 DEF Formats

\* What comes of opening the file of a call that passed the gate.
LEMMA DecodeOfFile ==
  ASSUME Asked, Gate(run.call, run.file) = Pass
  PROVE  /\ Genuine /\ RightMaterial => Decoded = Bytes(run.source.file.payload)
         /\ Genuine /\ ~RightMaterial =>
              Decoded.error \in {"license-key-missing", DecryptionFailure}
         /\ run.condition = "relabelled" =>
              /\ Decoded.error = Pass => Decoded.payload = Noise
              /\ Decoded.error = DecryptionFailure => run.source.file.format = "license"
         /\ Decoded.error = Pass /\ Decoded.payload.object =>
              Decoded.payload.kid = run.source.file.payload.kid
<1> DEFINE s == run.source
           f == run.file
           c == run.condition
           m == run.call.material
           format == run.call.format
           d == Decode(format, f, m)
<1>1. Certified(s) /\ format = s.file.format /\ format \in Formats /\ s.file.sealed \in BOOLEAN
  BY DEF Asked, Certified, Sources, Files
<1>2. c \in Passing /\ ~(format = "machine" /\ run.call.scheme = JWT)
  BY GateOfFile
<1>3. f.alg[1] = IF s.file.sealed <=> c # "relabelled" THEN Encrypted ELSE Plain
  BY <1>2, AlgOfFile DEF Passing
<1>4. Shape(f, s, c)
  BY FileOfRun
<1>5. /\ f.sealed = s.file.sealed
      /\ f.readable <=> c # "encGarbled"
      /\ f.whole <=> c # "encTruncated"
      /\ c \in {"asIssued", "relabelled"} => f.material = s.file.material
      /\ c = "encAltered" => f.material = NoMaterial /\ f.payload.kid = s.file.payload.kid
      /\ c \in {"asIssued", "relabelled", "sigAltered", "encGarbled"} =>
           f.payload = s.file.payload
      /\ c = "encTruncated" => f.payload = Noise
  BY <1>4 DEF Shape
<1>6. s.file.material = IF s.file.sealed THEN LicenseKey ELSE NoMaterial
  BY <1>1 DEF Certified
<1>7. LicenseKey # NoMaterial
  BY ApplicationAssumption, MaterialsAssumption
<1>8. Encrypted # Plain
  BY DEF Encrypted, Plain
<1>9. RightMaterial <=> (s.file.sealed => m = s.file.material)
  BY DEF RightMaterial
<1>10. ~Noise.object
  BY DEF Noise
<1> HIDE DEF s, f, c, m, format
<1>11. /\ d.error = Pass =>
            /\ f.readable
            /\ f.alg[1] # Plain =>
                 m # NoMaterial /\ f.whole /\ f.sealed /\ m = f.material
            /\ f.alg[1] = Plain => (d.payload = IF f.sealed THEN Noise ELSE f.payload)
            /\ f.alg[1] # Plain => d.payload = f.payload
       /\ d.error = DecryptionFailure =>
            /\ f.alg[1] # Plain /\ ~(f.sealed /\ m = f.material)
            /\ format = "machine" => f.sealed
       /\ /\ f.readable /\ f.whole
          /\ IF f.sealed THEN f.alg[1] # Plain ELSE f.alg[1] = Plain
          => IF ~f.sealed THEN d = Bytes(f.payload)
             ELSE IF m = NoMaterial THEN d.error = "license-key-missing"
             ELSE IF m = f.material THEN d = Bytes(f.payload)
             ELSE d.error = DecryptionFailure
  BY <1>1, DecodeCases
<1> HIDE DEF d
<1>12. c = "asIssued" /\ (s.file.sealed => m = s.file.material) => d = Bytes(s.file.payload)
  BY <1>1, <1>3, <1>5, <1>6, <1>7, <1>8, <1>11
<1>13. c = "asIssued" /\ ~(s.file.sealed => m = s.file.material) =>
         d.error \in {"license-key-missing", DecryptionFailure}
  BY <1>1, <1>3, <1>5, <1>6, <1>7, <1>8, <1>11
<1>14. c = "relabelled" =>
         /\ d.error = Pass => d.payload = Noise
         /\ d.error = DecryptionFailure => format = "license"
  BY <1>1, <1>3, <1>5, <1>8, <1>11 DEF Formats
<1>15. d.error = Pass /\ d.payload.object => d.payload.kid = s.file.payload.kid
  <2> SUFFICES ASSUME d.error = Pass, d.payload.object
               PROVE  d.payload.kid = s.file.payload.kid
    OBVIOUS
  <2>1. d.payload = f.payload
    BY <1>10, <1>11
  <2>2. c # "encTruncated"
    BY <2>1, <1>5, <1>10
  <2> QED BY <2>1, <2>2, <1>2, <1>5 DEF Passing
<1> QED
  BY <1>1, <1>9, <1>12, <1>13, <1>14, <1>15 DEF Genuine, Decoded, s, f, c, m, format, d

\* A verdict, stage by stage.
LEMMA VerdictStages ==
  ASSUME Asked, NEW v, v = Verdict(run.call, run.file, run.ended)
  PROVE  LET now == IF run.call.now = OwnClock THEN run.ended ELSE run.call.now IN
         \/ Gate(run.call, run.file) # Pass /\ v = Gate(run.call, run.file)
         \/ /\ Gate(run.call, run.file) = Pass /\ run.call.via = "key"
            /\ ~Trusted(run.call, run.file)
            /\ v \in {SignatureFailure, StructuralFailure}
         \/ /\ Gate(run.call, run.file) = Pass /\ run.call.via = "set"
            /\ ~Trusted(run.call, run.file)
            /\ v = Label(run.call.set, Decoded)
         \/ /\ Gate(run.call, run.file) = Pass
            /\ Trusted(run.call, run.file)
            /\ v = IF Decoded.error # Pass THEN Decoded.error
                   ELSE IF run.call.via = "set" /\ ~NamesKey(Decoded.payload)
                        THEN "invalid-json"
                   ELSE Finish(Decoded.payload, now)
  BY DEF Asked, Verdict, Begin, Conclude, Decoded, Pass, SignatureFailure, StructuralFailure

\* What the gate can answer.
LEMMA GateOutcomes ==
  ASSUME Asked
  PROVE  Gate(run.call, run.file) \in
           {Pass, "malformed-pem", "invalid-base64", "invalid-json",
            "unsupported-algorithm", "scheme-not-supported"}
<1>1. /\ DOMAIN EnvelopeError = {"noMarkers", "notBase64", "notDocument"}
      /\ \A c \in DOMAIN EnvelopeError :
            EnvelopeError[c] \in {"malformed-pem", "invalid-base64", "invalid-json"}
  BY DEF EnvelopeError
<1>2. run.file.envelope \in DOMAIN EnvelopeError \cup {"ok"}
  BY FileOfRun DEF Shape
<1>3. Parse(run.call.format, run.file) \in
        {Pass, "malformed-pem", "invalid-base64", "invalid-json"}
  BY <1>1, <1>2 DEF Parse
<1> QED BY <1>3 DEF Gate

\* What a decoding can answer.
LEMMA DecodeOutcomes ==
  Decoded.error \in {Pass, "invalid-base64", "license-key-missing",
                    StructuralFailure, DecryptionFailure}
<1>1. \A f, m : Open(f, m).error \in {Pass, DecryptionFailure}
  BY DEF Open, Bytes, Refused
<1>2. \A f, m : DecodeLicense(f, m).error \in
        {Pass, "invalid-base64", "license-key-missing", StructuralFailure, DecryptionFailure}
  BY <1>1 DEF DecodeLicense, Bytes, Refused
<1>3. \A f, m : DecodeMachine(f, m).error \in
        {Pass, "invalid-base64", "license-key-missing", StructuralFailure, DecryptionFailure}
  BY <1>1 DEF DecodeMachine, Bytes, Refused
<1> QED BY <1>2, <1>3 DEF Decoded, Decode

\* What the payload can answer.
LEMMA FinishOutcomes ==
  ASSUME NEW payload, NEW now
  PROVE  Finish(payload, now) \in {"invalid-json", "expired", "accepted"}
  BY DEF Finish

\* What a label can be.
LEMMA LabelOutcomes ==
  ASSUME NEW set, NEW d
  PROVE  Label(set, d) \in {"license-key-missing", SignatureFailure,
                           "no-published-signing-key", "unknown-key-id"}
  BY DEF Label

\* The payload of a file as the server made it.
LEMMA IssuedPayload ==
  ASSUME Asked
  PROVE  LET p == run.source.file.payload IN
         /\ p.object /\ p.data /\ p.meta
         /\ NamesKey(p)
         /\ Exp = p.exp /\ Exp \in Nat \cup {NoExp}
         /\ Signer.scheme = Ed25519 =>
              /\ Signer.key \in Keys
              /\ p.kid = IF run.source.published THEN ServedId(Signer.key)
                        ELSE UnbackfilledKeyId
  BY DEF Asked, Certified, NamesKey, Exp, Signer, Sources, Files, Payloads

\* The time a file is judged by.
LEMMA TimeUsed ==
  ASSUME Asked
  PROVE  /\ NowUsed \in Nat
         /\ NowUsed >= run.started
         /\ \A now \in Nat : LateAt(now) <=> Exp # NoExp /\ now - Skew > Exp
<1>1. NowUsed \in Nat /\ NowUsed >= run.started
  BY DEF Asked, NowUsed, OwnClock
<1>2. Exp = NoExp \/ Exp \in Nat
  BY IssuedPayload
<1>3. \A now \in Nat : LateAt(now) <=> Exp # NoExp /\ now - Skew > Exp
  BY <1>2, SkewAssumption DEF LateAt
<1> QED BY <1>1, <1>3

-----------------------------------------------------------------------------
(* What a verdict says is right.                                           *)

\* GenuineAccepted, of one verdict.
LEMMA GenuineVerdict ==
  ASSUME Asked, run.outcome = Verdict(run.call, run.file, run.ended),
         Genuine, RightMaterial, GivenSigner
  PROVE  run.outcome = IF LateAt(NowUsed) THEN "expired" ELSE "accepted"
<1> DEFINE p == run.source.file.payload
<1>1. run.call.scheme = Signer.scheme
  BY DEF GivenSigner, Asked
<1>2. Gate(run.call, run.file) = Pass
  BY <1>1, GateOfFile
<1>3. run.file.signer = Signer
  BY FileOfRun DEF Shape, Genuine, Signer
<1>4. Trusted(run.call, run.file)
  BY <1>3, TrustOfFile
<1>5. Decoded = Bytes(p)
  BY <1>2, DecodeOfFile
<1>6. Decoded.error = Pass /\ Decoded.payload = p
  BY <1>5 DEF Bytes
<1>7. run.outcome = Finish(p, NowUsed)
  BY <1>2, <1>4, <1>6, VerdictStages, IssuedPayload DEF NowUsed
<1>8. Finish(p, NowUsed) = IF Exp # NoExp /\ NowUsed - Skew > Exp THEN "expired" ELSE "accepted"
  BY IssuedPayload DEF Finish
<1> QED BY <1>7, <1>8, TimeUsed

\* AcceptedIsIssued, of one verdict.
LEMMA AcceptedVerdict ==
  ASSUME Asked, run.outcome = Verdict(run.call, run.file, run.ended),
         run.outcome = "accepted"
  PROVE  Genuine /\ GivenSigner /\ RightMaterial /\ ~LateAt(run.started)
<1> DEFINE p == run.source.file.payload
<1>1. /\ Gate(run.call, run.file) = Pass /\ Trusted(run.call, run.file)
      /\ Decoded.error = Pass
      /\ Finish(Decoded.payload, NowUsed) = "accepted"
  BY VerdictStages, GateOutcomes, DecodeOutcomes, LabelOutcomes
     DEF NowUsed, Pass, SignatureFailure, StructuralFailure, DecryptionFailure
<1>2. GivenSigner /\ run.file.signer = Signer
  BY <1>1, TrustOfFile
<1>3. Decoded.payload.object
  BY <1>1 DEF Finish
<1>4. run.condition \in {"asIssued", "relabelled"}
  <2>1. Signer # NoSigner
    <3>1. Signer.scheme \in Schemes
      BY DEF Asked, Certified, Signer
    <3> QED BY <3>1 DEF NoSigner, Schemes, SchemeAlgSuffix
  <2>2. run.condition \in Passing
    BY <1>1, GateOfFile
  <2>3. run.condition \notin {"sigAltered", "encGarbled", "encTruncated", "encAltered"}
    BY <1>2, <2>1, FileOfRun DEF Shape
  <2> QED BY <2>2, <2>3 DEF Passing
<1>5. Genuine
  BY <1>1, <1>3, <1>4, DecodeOfFile DEF Noise, Genuine
<1>6. RightMaterial
  BY <1>1, <1>5, DecodeOfFile DEF Pass, DecryptionFailure
<1>7. Decoded.payload = p
  BY <1>1, <1>5, <1>6, DecodeOfFile DEF Bytes
<1>8. ~(Exp # NoExp /\ NowUsed - Skew > Exp)
  BY <1>1, <1>7, IssuedPayload DEF Finish
<1>9. ~LateAt(run.started)
  <2>1. run.started \in Nat
    BY DEF Asked
  <2>2. Exp = NoExp \/ Exp \in Nat
    BY IssuedPayload
  <2>3. ~(Exp # NoExp /\ run.started - Skew > Exp)
    BY <1>8, <2>1, <2>2, TimeUsed, SkewAssumption
  <2> QED BY <2>1, <2>3, TimeUsed
<1> QED BY <1>2, <1>5, <1>6, <1>9

\* A caller of a key-set call trusts a genuine file if the set holds the id it
\* names.
LEMMA HeldMeansGiven ==
  ASSUME Asked, run.call.via = "set", Gate(run.call, run.file) = Pass,
         run.source.file.payload.kid \in DOMAIN run.call.set
  PROVE  GivenSigner
<1> DEFINE set == run.call.set
           kid == run.source.file.payload.kid
<1>1. Fits(set, run.known, run.pinned) /\ run.call.scheme = Ed25519
  BY DEF Asked
<1>2. Signer.scheme = Ed25519
  BY <1>1, GateOfFile
<1>3. Signer.key \in Keys /\ kid \in {ServedId(Signer.key), UnbackfilledKeyId}
  BY <1>2, IssuedPayload
<1>4. kid = ServedId(Signer.key)
  BY <1>1, <1>3 DEF Fits
<1>5. set[kid] = Signer.key /\ set[kid] \in run.known \ Undecodable
  BY <1>1, <1>3, <1>4 DEF Fits
<1> QED BY <1>2, <1>5 DEF GivenSigner

\* StaleMeansNotHeld, of one verdict.
LEMMA StaleVerdict ==
  ASSUME Asked, run.outcome = Verdict(run.call, run.file, run.ended),
         run.outcome \in {"unknown-key-id", "no-published-signing-key"}
  PROVE  /\ run.call.via = "set"
         /\ ~GivenSigner \/ (~Genuine /\ (run.pinned \/ ~run.source.published))
         /\ (run.outcome = "no-published-signing-key") = ~run.source.published
<1> DEFINE set == run.call.set
           kid == run.source.file.payload.kid
<1>1. /\ Gate(run.call, run.file) = Pass /\ run.call.via = "set"
      /\ ~Trusted(run.call, run.file)
      /\ run.outcome = Label(set, Decoded)
  BY VerdictStages, GateOutcomes, DecodeOutcomes, FinishOutcomes
     DEF Pass, SignatureFailure, StructuralFailure, DecryptionFailure
<1>2. /\ Decoded.error = Pass /\ NamesKey(Decoded.payload)
      /\ Decoded.payload.kid \notin DOMAIN set
      /\ run.outcome = IF Decoded.payload.kid = UnbackfilledKeyId
                       THEN "no-published-signing-key" ELSE "unknown-key-id"
  BY <1>1 DEF Label, SignatureFailure
<1>3. Decoded.payload.kid = kid
  BY <1>1, <1>2, DecodeOfFile DEF NamesKey
<1>4. run.call.scheme = Ed25519 /\ Fits(set, run.known, run.pinned)
  BY <1>1 DEF Asked
<1>5. Signer.scheme = Ed25519
  BY <1>1, <1>4, GateOfFile
<1>6. /\ Signer.key \in Keys
      /\ kid = IF run.source.published THEN ServedId(Signer.key) ELSE UnbackfilledKeyId
  BY <1>5, IssuedPayload
<1>7. ServedId(Signer.key) # UnbackfilledKeyId
  BY <1>6, IdsDiffer
<1>8. run.source.published \in BOOLEAN
  BY DEF Asked, Certified, Sources
<1>9. (run.outcome = "no-published-signing-key") = ~run.source.published
  BY <1>2, <1>3, <1>6, <1>7, <1>8
<1>10. ASSUME GivenSigner
       PROVE  ~Genuine /\ (run.pinned \/ ~run.source.published)
  <2>1. ~Genuine
    <3>1. Genuine => run.file.signer = Signer
      BY FileOfRun DEF Shape, Genuine, Signer
    <3> QED BY <3>1, <1>1, <1>10, TrustOfFile
  <2>2. Signer.key \in run.known \ Undecodable
    BY <1>1, <1>10 DEF GivenSigner
  <2>3. ~run.pinned => ServedId(Signer.key) \in DOMAIN set
    BY <2>2, <1>4 DEF Fits
  <2> QED BY <2>1, <2>3, <1>2, <1>3, <1>6
<1> QED BY <1>1, <1>9, <1>10

\* SignatureMeansAltered, of one verdict.
LEMMA SignatureVerdict ==
  ASSUME Asked, run.outcome = Verdict(run.call, run.file, run.ended),
         run.outcome = SignatureFailure, RightMaterial,
         run.call.via = "key" => GivenSigner
  PROVE  ~Genuine
<1> SUFFICES ASSUME Genuine PROVE FALSE
  OBVIOUS
<1>1. /\ Gate(run.call, run.file) = Pass
      /\ ~Trusted(run.call, run.file)
      /\ run.call.via = "set" => run.outcome = Label(run.call.set, Decoded)
  BY VerdictStages, GateOutcomes, DecodeOutcomes, FinishOutcomes
     DEF Asked, Pass, SignatureFailure, StructuralFailure, DecryptionFailure
<1>2. ~GivenSigner
  <2>1. run.file.signer = Signer
    BY FileOfRun DEF Shape, Genuine, Signer
  <2> QED BY <2>1, <1>1, TrustOfFile
<1>3. run.call.via = "set"
  BY <1>2 DEF Asked
<1>4. Decoded.error = Pass /\ Decoded.payload = run.source.file.payload
  BY <1>1, DecodeOfFile DEF Bytes
<1>5. run.source.file.payload.kid \in DOMAIN run.call.set
  BY <1>1, <1>3, <1>4, IssuedPayload DEF Label, SignatureFailure, Pass
<1> QED BY <1>1, <1>2, <1>3, <1>5, HeldMeansGiven

\* DecryptionNamesMaterial, of one verdict.
LEMMA DecryptionVerdict ==
  ASSUME Asked, run.outcome = Verdict(run.call, run.file, run.ended),
         run.outcome = DecryptionFailure
  PROVE  \/ ~RightMaterial
         \/ run.source.file.format = "license" /\ run.condition = "relabelled"
<1>1. /\ Gate(run.call, run.file) = Pass
      /\ Trusted(run.call, run.file)
      /\ Decoded.error = DecryptionFailure
  BY VerdictStages, GateOutcomes, LabelOutcomes, FinishOutcomes
     DEF Pass, SignatureFailure, StructuralFailure, DecryptionFailure
<1>2. run.file.signer = Signer
  BY <1>1, TrustOfFile
<1>3. run.condition \in {"asIssued", "relabelled"}
  <2>1. Signer.scheme \in Schemes
    BY DEF Asked, Certified, Signer
  <2>2. Signer # NoSigner
    BY <2>1 DEF NoSigner, Schemes, SchemeAlgSuffix
  <2>3. run.condition \in Passing
    BY <1>1, GateOfFile
  <2> QED BY <1>2, <2>2, <2>3, FileOfRun DEF Shape, Passing
<1>4. Genuine /\ RightMaterial => FALSE
  BY <1>1, DecodeOfFile DEF Bytes, Pass, DecryptionFailure
<1> QED BY <1>1, <1>3, <1>4, DecodeOfFile DEF Genuine

\* The invariant implies the properties.
LEMMA KeysInvImplies ==
  ASSUME KeysInv
  PROVE  /\ GenuineAccepted
         /\ AcceptedIsIssued
         /\ StaleMeansNotHeld
         /\ SignatureMeansAltered
         /\ DecryptionNamesMaterial
<1>1. ASSUME Done
      PROVE  Asked /\ run.outcome = Verdict(run.call, run.file, run.ended)
  BY <1>1 DEF KeysInv, RunInv, Done, Idle
<1>2. GenuineAccepted
  BY <1>1, GenuineVerdict DEF GenuineAccepted
<1>3. AcceptedIsIssued
  BY <1>1, AcceptedVerdict DEF AcceptedIsIssued
<1>4. StaleMeansNotHeld
  BY <1>1, StaleVerdict DEF StaleMeansNotHeld
<1>5. SignatureMeansAltered
  BY <1>1, SignatureVerdict DEF SignatureMeansAltered
<1>6. DecryptionNamesMaterial
  BY <1>1, DecryptionVerdict DEF DecryptionNamesMaterial
<1> QED BY <1>2, <1>3, <1>4, <1>5, <1>6

-----------------------------------------------------------------------------
(* The invariant holds at the start and is kept by every step.             *)

\* The invariant holds initially.
LEMMA KeysInvInit == Init => KeysInv
<1> SUFFICES ASSUME Init PROVE KeysInv
  OBVIOUS
<1>1. signing \in [key : Keys, published : BOOLEAN]
  BY ApplicationAssumption DEF Init
<1>2. RowsInv
  <2>1. CASE signing.published
    <3> DEFINE row == Row(signing.key, "ed25519")
    <3>1. rows = <<row>>
      BY <2>1 DEF Init
    <3>2. row \in Rows /\ row.id = ServedId(row.key)
      BY <1>1 DEF Row, Rows, KeyIds
    <3> HIDE DEF row
    <3> QED BY <1>1, <2>1, <3>1, <3>2 DEF RowsInv
  <2>2. CASE ~signing.published
    BY <1>1, <2>2 DEF Init, RowsInv
  <2> QED BY <2>1, <2>2
<1> QED BY <1>2 DEF Init, KeysInv, HeldInv, RunInv, NoSet

\* Appending a row for a key that has none.
LEMMA RowAdded ==
  ASSUME RowsInv, NEW key \in Keys, key \notin RowKeys(rows),
         NEW algorithm \in {"ed25519", "other"},
         rows' = Append(rows, Row(key, algorithm)),
         signing' \in [key : Keys, published : BOOLEAN],
         signing'.published \/ (signing' = signing /\ key # signing.key)
  PROVE  RowsInv'
<1> DEFINE row == Row(key, algorithm)
<1>1. row \in Rows /\ row.id = ServedId(row.key) /\ row.key = key
  BY DEF Row, Rows, KeyIds
<1> HIDE DEF row
<1>2. rows' = Append(rows, row)
  BY DEF row
<1>3. rows \in Seq(Rows)
  BY DEF RowsInv
<1>4. /\ rows' \in Seq(Rows)
      /\ DOMAIN rows' = DOMAIN rows \cup {Len(rows) + 1}
      /\ \A i \in DOMAIN rows : rows'[i] = rows[i]
      /\ rows'[Len(rows) + 1] = row
      /\ Len(rows) + 1 \notin DOMAIN rows
  BY <1>1, <1>2, <1>3
<1>5. \A i \in DOMAIN rows : rows[i].key # key
  BY DEF RowKeys
<1>6. \A i \in DOMAIN rows' : rows'[i].id = ServedId(rows'[i].key)
  BY <1>1, <1>4 DEF RowsInv
<1>7. \A i, j \in DOMAIN rows' : rows'[i].key = rows'[j].key => i = j
  BY <1>1, <1>4, <1>5 DEF RowsInv
<1>8. ~signing'.published => \A i \in DOMAIN rows' : rows'[i].key # signing'.key
  BY <1>1, <1>4 DEF RowsInv
<1> QED BY <1>4, <1>6, <1>7, <1>8 DEF RowsInv

\* A step that leaves a verification alone, and time does not run backwards.
LEMMA RunKept ==
  ASSUME RunInv, run' = run, clock \in Nat, clock' \in Nat, clock' >= clock
  PROVE  RunInv'
<1>1. Asked => Asked'
  BY DEF Asked
<1>2. Begin(run.call, run.file)' = Begin(run.call, run.file)
  OBVIOUS
<1>3. Verdict(run.call, run.file, run.ended)' = Verdict(run.call, run.file, run.ended)
  OBVIOUS
<1> QED BY <1>1, <1>2, <1>3 DEF RunInv

\* A certificate is one.
LEMMA CertificateMade ==
  ASSUME KeysInv, NEW format \in Formats, NEW scheme \in UsedSchemes,
         NEW encrypt \in BOOLEAN, NEW ttl \in Ttls, CheckOut(format, scheme, encrypt, ttl)
  PROVE  \A s \in issued' : Certified(s)'
<1> DEFINE file == Certificate(format, scheme, encrypt, ttl)
           s == [file |-> file, published |-> signing.published]
           e == IF encrypt THEN Encrypted ELSE Plain
<1>1. scheme \in Schemes \ {JWT} /\ (format = "license" => scheme = Ed25519)
  BY ApplicationAssumption DEF CheckOut
<1>2. signing.key \in Keys /\ signing.published \in BOOLEAN /\ clock \in Nat
  BY DEF KeysInv, RowsInv
<1>3. file.signer \in [scheme : Schemes \ {JWT}, key : Keys]
  BY <1>1, <1>2, ApplicationAssumption DEF Certificate
<1>4. file.alg = Alg(encrypt, scheme) /\ Alg(encrypt, scheme) \in Seq(Segments)
  <2>1. e \in Segments /\ SchemeAlgSuffix[scheme] \in Segments /\ "v2" \in Segments
    BY <1>1, SuffixIsSegment DEF Segments
  <2>2. Alg(encrypt, scheme) = <<e, SchemeAlgSuffix[scheme], "v2">>
    BY DEF Alg
  <2> HIDE DEF e
  <2>3. Alg(encrypt, scheme) \in Seq(Segments)
    BY <2>1, <2>2
  <2> QED BY <2>3 DEF Certificate
<1>5. file.payload.exp \in Nat \cup {NoExp}
  <2>1. ttl = NoTtl \/ ttl \in 1..MaxTtl
    BY DEF CheckOut, TtlInRange
  <2> QED BY <2>1, <1>2, ApplicationAssumption DEF Certificate
<1>6. /\ file.payload.kid \in AllKeyIds \ {NoKid}
      /\ scheme = Ed25519 =>
           file.payload.kid = IF signing.published THEN ServedId(signing.key)
                              ELSE UnbackfilledKeyId
  <2>1. FixedKey \in Keys
    BY ApplicationAssumption
  <2>2. /\ SigningKeyId(FixedKey) \in AllKeyIds \ {NoKid}
        /\ ServedId(signing.key) \in AllKeyIds \ {NoKid}
        /\ UnbackfilledKeyId \in AllKeyIds \ {NoKid}
    BY <2>1, <1>2, IdsDiffer, UnbackfilledIsNamed DEF AllKeyIds, KeyIds
  <2>3. file.payload.kid = IF scheme # Ed25519 THEN SigningKeyId(FixedKey)
                           ELSE IF signing.published THEN ServedId(signing.key)
                           ELSE UnbackfilledKeyId
    BY DEF Certificate
  <2> QED BY <2>2, <2>3
<1>7. file.payload.object /\ file.payload.data /\ file.payload.meta /\ file.payload \in Payloads
  <2>1. file.payload = [object |-> TRUE, data |-> TRUE, meta |-> TRUE,
                        kid |-> file.payload.kid, exp |-> file.payload.exp]
    BY DEF Certificate
  <2> HIDE DEF file
  <2>2. file.payload.kid \in AllKeyIds \cup {NoKid}
    BY <1>6
  <2>3. file.payload.object = TRUE /\ file.payload.data = TRUE /\ file.payload.meta = TRUE
    BY <2>1
  <2> QED BY <2>1, <2>2, <2>3, <1>5 DEF Payloads
<1>8. /\ file.format = format /\ file.envelope = "ok" /\ file.sigReadable
      /\ file.sealed = encrypt /\ file.readable /\ file.whole
      /\ file.material = IF encrypt THEN LicenseKey ELSE NoMaterial
      /\ file.signer.scheme = scheme
      /\ scheme = Ed25519 => file.signer.key = signing.key
  BY DEF Certificate
<1>9. file = [format |-> file.format, envelope |-> file.envelope, alg |-> file.alg,
              sigReadable |-> file.sigReadable, signer |-> file.signer,
              sealed |-> file.sealed, readable |-> file.readable, whole |-> file.whole,
              material |-> file.material, payload |-> file.payload]
  BY DEF Certificate
<1>10. file.sigReadable = TRUE /\ file.readable = TRUE /\ file.whole = TRUE
  BY DEF Certificate
<1> HIDE DEF file
<1>11. file.signer \in Signers
  BY <1>3 DEF Signers
<1>12. file.material \in Materials \cup {NoMaterial}
  BY <1>8, ApplicationAssumption
<1>13. file \in Files
  BY <1>4, <1>7, <1>8, <1>9, <1>10, <1>11, <1>12 DEF Files
<1>14. s \in Sources /\ s.file = file /\ s.published = signing.published
  BY <1>2, <1>13 DEF Sources
<1> HIDE DEF s
<1>15. Certified(s)
  BY <1>1, <1>3, <1>4, <1>6, <1>7, <1>8, <1>14 DEF Certified
<1>16. issued' = issued \cup {s}
  BY DEF CheckOut, s, file
<1>17. \A t : Certified(t)' <=> Certified(t)
  OBVIOUS
<1> QED BY <1>15, <1>16, <1>17 DEF KeysInv

\* A verification that starts.
LEMMA Entered ==
  ASSUME KeysInv, NEW source \in issued, NEW condition \in Conditions,
         NEW format, NEW via, NEW scheme, NEW key, NEW set, NEW material, NEW now \in Nows,
         format = source.file.format,
         \/ /\ via = "set" /\ scheme = Ed25519
            /\ Fits(set, held.known, held.pinned)
         \/ /\ via = "key" /\ scheme \in Schemes /\ key \in Keys
            /\ format = "license" => scheme = Ed25519,
         Enter(source, condition, CallFor(format, via, scheme, key, set, material, now)),
         clock' = clock
  PROVE  RunInv'
<1> DEFINE call == CallFor(format, via, scheme, key, set, material, now)
           file == Received(source.file, condition)
           end  == Begin(call, file)
           pc   == IF end = Pass THEN "opening" ELSE "done"
<1>1. run' = [pc |-> pc, source |-> source, condition |-> condition, file |-> file,
              call |-> call, known |-> held.known, pinned |-> held.pinned,
              outcome |-> end, started |-> clock, ended |-> clock]
  BY DEF Enter
<1>2. /\ call.format = format /\ call.via = via /\ call.scheme = scheme
      /\ call.key = key /\ call.set = set /\ call.now = now
  BY DEF CallFor
<1>3. Certified(source)
  BY DEF KeysInv
<1> HIDE DEF call, file, end, pc
<1>4. /\ run'.pc = pc /\ run'.source = source /\ run'.condition = condition
      /\ run'.file = file /\ run'.call = call /\ run'.known = held.known
      /\ run'.pinned = held.pinned /\ run'.outcome = end
      /\ run'.started = clock /\ run'.ended = clock
  BY <1>1
<1>5. clock \in Nat
  BY DEF KeysInv
<1>6. now \in {OwnClock, clock}
  BY DEF Nows
<1>7. Asked'
  <2>1. run' = [pc |-> run'.pc, source |-> run'.source, condition |-> run'.condition,
                file |-> run'.file, call |-> run'.call, known |-> run'.known,
                pinned |-> run'.pinned, outcome |-> run'.outcome,
                started |-> run'.started, ended |-> run'.ended]
    BY <1>1, <1>4
  <2>2. Certified(run'.source)
    BY <1>3, <1>4
  <2>3. run'.file = Received(run'.source.file, run'.condition)
    BY <1>4 DEF file
  <2>4. via \in {"key", "set"} /\ via # "set" => via = "key"
    OBVIOUS
  <2>5. run'.call.via = "set" =>
          run'.call.scheme = Ed25519 /\ Fits(run'.call.set, run'.known, run'.pinned)
    BY <1>2, <1>4
  <2>6. run'.call.via = "key" =>
          /\ run'.call.scheme \in Schemes /\ run'.call.key \in Keys
          /\ run'.source.file.format = "license" => run'.call.scheme = Ed25519
    BY <1>2, <1>4
  <2> QED BY <2>1, <2>2, <2>3, <2>4, <2>5, <2>6, <1>2, <1>4, <1>5, <1>6 DEF Asked
<1>8. end = Begin(run'.call, run'.file)
  BY <1>4 DEF end
<1>9. CASE end = Pass
  BY <1>4, <1>7, <1>8, <1>9 DEF RunInv, pc
<1>10. CASE end # Pass
  <2>1. Verdict(run'.call, run'.file, run'.ended) = end
    BY <1>8, <1>10 DEF Verdict
  <2> QED BY <2>1, <1>4, <1>7, <1>10 DEF RunInv, pc
<1> QED BY <1>9, <1>10

\* Every step keeps the invariant.
LEMMA KeysInvStep == KeysInv /\ [Next]_vars => KeysInv'
<1> SUFFICES ASSUME KeysInv, [Next]_vars PROVE KeysInv'
  OBVIOUS
<1> USE DEF KeysInv
<1>1. ASSUME NEW key \in Keys, Rotate(key)
      PROVE  KeysInv'
  <2>1. RowsInv'
    <3>1. signing' = [key |-> key, published |-> TRUE]
      BY <1>1 DEF Rotate
    <3>2. signing' \in [key : Keys, published : BOOLEAN] /\ signing'.published
      BY <3>1
    <3> QED BY <1>1, <3>2, RowAdded DEF Rotate
  <2>2. RunInv'
    BY <1>1, RunKept DEF Rotate
  <2> QED BY <1>1, <2>1, <2>2 DEF Rotate, HeldInv
<1>2. ASSUME Repair
      PROVE  KeysInv'
  <2>1. RowsInv'
    <3>1. signing \in [key : Keys, published : BOOLEAN] /\ ~signing.published
      BY <1>2 DEF Repair, RowsInv
    <3>2. signing' \in [key : Keys, published : BOOLEAN] /\ signing'.published
      BY <1>2, <3>1 DEF Repair
    <3>3. signing.key \in Keys /\ signing.key \notin RowKeys(rows)
      BY <3>1 DEF RowsInv, RowKeys
    <3> QED BY <1>2, <3>2, <3>3, RowAdded DEF Repair
  <2>2. RunInv'
    BY <1>2, RunKept DEF Repair
  <2> QED BY <1>2, <2>1, <2>2 DEF Repair, HeldInv
<1>3. ASSUME NEW key \in Keys, PublishOther(key)
      PROVE  KeysInv'
  <2>1. RowsInv'
    <3>1. signing' = signing /\ key # signing.key /\ key \notin RowKeys(rows)
      BY <1>3 DEF PublishOther
    <3> QED BY <1>3, <3>1, RowAdded DEF PublishOther, RowsInv
  <2>2. RunInv'
    BY <1>3, RunKept DEF PublishOther
  <2> QED BY <1>3, <2>1, <2>2 DEF PublishOther, HeldInv
<1>4. ASSUME NEW format \in Formats, NEW scheme \in UsedSchemes,
             NEW encrypt \in BOOLEAN, NEW ttl \in Ttls,
             CheckOut(format, scheme, encrypt, ttl)
      PROVE  KeysInv'
  <2>1. \A s \in issued' : Certified(s)'
    BY <1>4, CertificateMade
  <2>2. RunInv'
    BY <1>4, RunKept DEF CheckOut
  <2> QED BY <1>4, <2>1, <2>2 DEF CheckOut, HeldInv, RowsInv
<1>5. ASSUME Refresh
      PROVE  KeysInv'
  <2>1. HeldInv'
    BY <1>5, FetchedSetFits DEF Refresh, HeldInv
  <2>2. RunInv'
    BY <1>5, RunKept DEF Refresh
  <2> QED BY <1>5, <2>1, <2>2 DEF Refresh, RowsInv
<1>6. ASSUME NEW publicKeys \in SUBSET Keys, Pin(publicKeys)
      PROVE  KeysInv'
  <2>1. HeldInv'
    BY <1>6, PinnedSetFits DEF Pin, HeldInv
  <2>2. RunInv'
    BY <1>6, RunKept DEF Pin
  <2> QED BY <1>6, <2>1, <2>2 DEF Pin, RowsInv
<1>7. ASSUME NEW source \in issued, NEW condition \in Conditions,
             NEW material \in Materials \cup {NoMaterial}, NEW now \in Nows,
             VerifyWithKeySet(source, condition, material, now)
      PROVE  KeysInv'
  <2>1. Fits(held.set, held.known, held.pinned)
    BY <1>7 DEF VerifyWithKeySet, HeldInv
  <2>2. RunInv'
    BY <1>7, <2>1, Entered DEF VerifyWithKeySet
  <2> QED BY <1>7, <2>2 DEF VerifyWithKeySet, HeldInv, RowsInv
<1>8. ASSUME NEW source \in issued, NEW condition \in Conditions,
             NEW material \in Materials \cup {NoMaterial}, NEW now \in Nows,
             NEW scheme \in UsedSchemes, NEW key \in Keys,
             VerifyWithClaims(source, condition, scheme, key, material, now)
      PROVE  KeysInv'
  <2>1. scheme \in Schemes
    BY ApplicationAssumption
  <2>2. RunInv'
    BY <1>8, <2>1, Entered DEF VerifyWithClaims
  <2> QED BY <1>8, <2>2 DEF VerifyWithClaims, HeldInv, RowsInv
<1>9. ASSUME Resume
      PROVE  KeysInv'
  <2>1. Asked /\ run.pc = "opening" /\ Begin(run.call, run.file) = Pass
    BY <1>9 DEF Resume, RunInv, Idle
  <2>2. /\ run'.pc = "done" /\ run'.outcome = Conclude(run.call, run.file, clock)
        /\ run'.ended = clock /\ run'.source = run.source
        /\ run'.condition = run.condition /\ run'.file = run.file
        /\ run'.call = run.call /\ run'.known = run.known
        /\ run'.pinned = run.pinned /\ run'.started = run.started
        /\ run' = [pc |-> run'.pc, source |-> run'.source, condition |-> run'.condition,
                   file |-> run'.file, call |-> run'.call, known |-> run'.known,
                   pinned |-> run'.pinned, outcome |-> run'.outcome,
                   started |-> run'.started, ended |-> run'.ended]
    BY <1>9, <2>1 DEF Resume, Asked
  <2>3. Asked'
    BY <1>9, <2>1, <2>2 DEF Asked, Resume
  <2>4. run'.outcome = Verdict(run'.call, run'.file, run'.ended)
    BY <2>1, <2>2 DEF Verdict
  <2>5. RunInv'
    BY <2>2, <2>3, <2>4 DEF RunInv
  <2> QED BY <1>9, <2>5 DEF Resume, HeldInv, RowsInv
<1>10. ASSUME Tick
       PROVE  KeysInv'
  <2>1. clock' \in Nat /\ clock' >= clock
    BY <1>10 DEF Tick
  <2>2. RunInv'
    BY <1>10, <2>1, RunKept DEF Tick
  <2> QED BY <1>10, <2>1, <2>2 DEF Tick, HeldInv, RowsInv
<1>11. ASSUME UNCHANGED vars
       PROVE  KeysInv'
  <2>1. RunInv'
    BY <1>11, RunKept DEF vars
  <2> QED BY <1>11, <2>1 DEF vars, HeldInv, RowsInv
<1> QED
  BY <1>1, <1>2, <1>3, <1>4, <1>5, <1>6, <1>7, <1>8, <1>9, <1>10, <1>11 DEF Next

\* The invariant always holds.
LEMMA KeysInvAlways == Spec => []KeysInv
  BY KeysInvInit, KeysInvStep, PTL DEF Spec

-----------------------------------------------------------------------------
(* The theorems.                                                           *)

\* A file as the server made it is accepted by every caller who was given the
\* key it was signed with, through any rotations, until it runs out.
THEOREM GenuineAlwaysAccepted == Spec => []GenuineAccepted
  BY KeysInvAlways, KeysInvImplies, PTL

\* An accepted file is as the server made it, under a key the caller was given.
THEOREM AcceptedAlwaysIssued == Spec => []AcceptedIsIssued
  BY KeysInvAlways, KeysInvImplies, PTL

\* A SigningKeyError is about the set the caller passed, and says truly whether
\* the account had published the key.
THEOREM StaleAlwaysMeansNotHeld == Spec => []StaleMeansNotHeld
  BY KeysInvAlways, KeysInvImplies, PTL

\* A signature failure accuses no genuine file of a caller with the right
\* material.
THEOREM SignatureAlwaysMeansAltered == Spec => []SignatureMeansAltered
  BY KeysInvAlways, KeysInvImplies, PTL

\* A decryption failure names the material or, for a license file, its alg.
THEOREM DecryptionAlwaysNamesMaterial == Spec => []DecryptionNamesMaterial
  BY KeysInvAlways, KeysInvImplies, PTL
-----------------------------------------------------------------------------
(* Types.                                                                  *)

\* A verification holds values of the right kinds, and has an outcome exactly
\* when it is done.
RunTypes ==
  run # Idle =>
    /\ run \in
         [pc : {run.pc}, source : issued, condition : Conditions, file : Files,
          call : [format : Formats, via : {"key", "set"}, scheme : Schemes,
                  key : Keys \cup {NoKey}, set : {run.call.set},
                  material : Materials \cup {NoMaterial}, now : Nat \cup {OwnClock}],
          known : SUBSET Keys, pinned : BOOLEAN, outcome : {run.outcome},
          started : Nat, ended : Nat]
    /\ IsKeySet(run.call.set)
    /\ run.pc = "opening" => run.outcome = Pass

HeldTypes ==
  /\ held \in [set : {held.set}, known : SUBSET Keys, pinned : BOOLEAN, present : BOOLEAN]
  /\ IsKeySet(held.set)

\* Altering a file leaves a file.
LEMMA ReceivedType ==
  ASSUME NEW s, Certified(s), NEW c \in Conditions
  PROVE  Received(s.file, c) \in Files
<1> DEFINE f == Received(s.file, c)
<1>1. DOMAIN EnvelopeError = {"noMarkers", "notBase64", "notDocument"}
  BY DEF EnvelopeError
<1>2. s.file \in Files /\ s.file.payload \in Payloads /\ s.file.alg \in Seq(Segments)
      /\ Len(s.file.alg) = 3
  BY DEF Certified, Sources, Files, Alg
<1>3. CASE c = "asIssued"
  BY <1>1, <1>2, <1>3 DEF Received
<1>4. CASE c \in DOMAIN EnvelopeError
  <2>1. f = [s.file EXCEPT !.envelope = c]
    BY <1>1, <1>4 DEF Received
  <2> QED BY <1>1, <1>2, <1>4, <2>1 DEF Files
<1>5. CASE c = "relabelled"
  <2> DEFINE alg == [s.file.alg EXCEPT ![1] = Swapped(s.file.alg[1])]
  <2>1. f = [s.file EXCEPT !.alg = alg]
    BY <1>1, <1>5 DEF Received
  <2>2. alg \in Seq(Segments)
    <3>1. s.file.alg[1] \in Segments /\ Swapped(s.file.alg[1]) \in Segments
      BY <1>2 DEF Swapped, Segments
    <3> QED BY <1>2, <3>1
  <2> HIDE DEF alg
  <2> QED BY <1>2, <2>1, <2>2 DEF Files
<1>6. CASE c = "preV2"
  <2> DEFINE alg == SubSeq(s.file.alg, 1, 2)
             p == [s.file.payload EXCEPT !.meta = FALSE, !.kid = NoKid, !.exp = NoExp]
  <2>1. f = [s.file EXCEPT !.alg = SubSeq(@, 1, 2), !.payload.meta = FALSE,
                           !.payload.kid = NoKid, !.payload.exp = NoExp]
    BY <1>1, <1>6 DEF Received
  <2>2. f = [s.file EXCEPT !.alg = alg, !.payload = p]
    BY <1>2, <2>1 DEF Files, Payloads
  <2>3. alg \in Seq(Segments)
    BY <1>2
  <2>4. p \in Payloads
    BY <1>2 DEF Payloads
  <2> HIDE DEF alg, p
  <2> QED BY <1>2, <2>2, <2>3, <2>4 DEF Files
<1>7. CASE c \in {"sigGarbled", "sigAltered", "encGarbled"}
  <2>1. \/ f = [s.file EXCEPT !.sigReadable = FALSE]
        \/ f = [s.file EXCEPT !.signer = NoSigner]
        \/ f = [s.file EXCEPT !.signer = NoSigner, !.readable = FALSE]
    BY <1>1, <1>7 DEF Received
  <2> QED BY <1>2, <2>1, ZenonT(60) DEF Files
<1>8. CASE c = "encTruncated"
  <2>1. f = [s.file EXCEPT !.signer = NoSigner, !.whole = FALSE, !.payload = Noise]
    BY <1>1, <1>8 DEF Received
  <2>2. Noise \in Payloads
    BY DEF Noise, Payloads
  <2> QED BY <1>2, <2>1, <2>2 DEF Files
<1>9. CASE c = "encAltered"
  <2> DEFINE p == [s.file.payload EXCEPT !.exp = NoExp]
  <2>1. f = [s.file EXCEPT !.signer = NoSigner, !.payload.exp = NoExp,
                           !.material = NoMaterial]
    BY <1>1, <1>9 DEF Received
  <2>2. f = [s.file EXCEPT !.signer = NoSigner, !.payload = p, !.material = NoMaterial]
    BY <1>2, <2>1 DEF Files, Payloads
  <2>3. p \in Payloads
    BY <1>2 DEF Payloads
  <2> HIDE DEF p
  <2> QED BY <1>2, <2>2, <2>3 DEF Files
<1> QED BY <1>1, <1>3, <1>4, <1>5, <1>6, <1>7, <1>8, <1>9 DEF Conditions

\* A verdict is one of the documented outcomes.
LEMMA VerdictOutcomes ==
  ASSUME Asked, NEW v, v = Verdict(run.call, run.file, run.ended)
  PROVE  v \in Outcomes
<1>1. \A set, d : Label(set, d) \in Outcomes
  BY LabelOutcomes DEF Outcomes
<1>2. \A payload, now : Finish(payload, now) \in Outcomes
  BY FinishOutcomes DEF Outcomes
<1>3. Gate(run.call, run.file) \in Outcomes \cup {Pass}
  BY GateOutcomes DEF Outcomes
<1>4. Decoded.error \in Outcomes \cup {Pass}
  BY DecodeOutcomes DEF Outcomes
<1>5. {SignatureFailure, StructuralFailure, "invalid-json"} \subseteq Outcomes
  BY DEF Outcomes
<1> QED BY VerdictStages, <1>1, <1>2, <1>3, <1>4, <1>5

LEMMA KeySetOfFit ==
  ASSUME NEW set, NEW known \in SUBSET Keys, NEW pinned, Fits(set, known, pinned),
         DOMAIN set \subseteq AllKeyIds, set = [id \in DOMAIN set |-> set[id]]
  PROVE  IsKeySet(set)
<1>1. \A id \in DOMAIN set : set[id] \in Keys
  BY DEF Fits
<1> QED BY <1>1 DEF IsKeySet

LEMMA NextHeld ==
  ASSUME KeysInv, HeldTypes, [Next]_vars
  PROVE  HeldTypes'
<1>1. ASSUME Refresh
      PROVE  HeldTypes'
  <2> DEFINE set == FromResources(rows)
             known == {rows[i].key : i \in {j \in DOMAIN rows :
                                              rows[j].algorithm = "ed25519"}}
  <2>1. held' = [set |-> set, known |-> known, pinned |-> FALSE, present |-> TRUE]
    BY <1>1 DEF Refresh
  <2>2. \A i \in DOMAIN rows : rows[i] \in Rows
    BY DEF KeysInv, RowsInv
  <2>3. known \in SUBSET Keys /\ UsableIds(rows) \subseteq AllKeyIds
    BY <2>2 DEF Rows, UsableIds, AllKeyIds
  <2>4. Fits(set, known, FALSE)
    BY FetchedSetFits DEF KeysInv
  <2>5. DOMAIN set = UsableIds(rows) /\ set = [id \in DOMAIN set |-> set[id]]
    BY DEF FromResources
  <2> HIDE DEF set, known
  <2>6. IsKeySet(set)
    BY <2>3, <2>4, <2>5, KeySetOfFit
  <2> QED BY <2>1, <2>3, <2>6 DEF HeldTypes
<1>2. ASSUME NEW publicKeys \in SUBSET Keys, Pin(publicKeys)
      PROVE  HeldTypes'
  <2> DEFINE set == FromPublicKeys(publicKeys)
  <2>1. held' = [set |-> set, known |-> publicKeys, pinned |-> TRUE, present |-> TRUE]
    BY <1>2 DEF Pin
  <2>2. Fits(set, publicKeys, TRUE)
    BY <1>2, PinnedSetFits DEF Pin
  <2>3. DOMAIN set \subseteq AllKeyIds /\ set = [id \in DOMAIN set |-> set[id]]
    BY DEF FromPublicKeys, AllKeyIds, KeyIds
  <2> HIDE DEF set
  <2>4. IsKeySet(set)
    BY <2>2, <2>3, KeySetOfFit
  <2> QED BY <2>1, <2>4 DEF HeldTypes
<1>3. ASSUME held' = held
      PROVE  HeldTypes'
  BY <1>3 DEF HeldTypes
<1> QED
  BY <1>1, <1>2, <1>3
  DEF Next, vars, Rotate, Repair, PublishOther, CheckOut, VerifyWithKeySet,
      VerifyWithClaims, Resume, Tick

LEMMA EnteredTypes ==
  ASSUME KeysInv, HeldTypes, NEW source \in issued, NEW condition \in Conditions,
         NEW via \in {"key", "set"}, NEW scheme \in Schemes, NEW key \in Keys \cup {NoKey},
         NEW set, IsKeySet(set), NEW material \in Materials \cup {NoMaterial},
         NEW now \in Nows, issued' = issued,
         Enter(source, condition,
               CallFor(source.file.format, via, scheme, key, set, material, now))
  PROVE  RunTypes'
<1> DEFINE call == CallFor(source.file.format, via, scheme, key, set, material, now)
           file == Received(source.file, condition)
           end  == Begin(call, file)
           pc   == IF end = Pass THEN "opening" ELSE "done"
<1>1. run' = [pc |-> pc, source |-> source, condition |-> condition, file |-> file,
              call |-> call, known |-> held.known, pinned |-> held.pinned,
              outcome |-> end, started |-> clock, ended |-> clock]
  BY DEF Enter
<1>2. Certified(source) /\ clock \in Nat
  BY DEF KeysInv
<1>3. file \in Files /\ source.file.format \in Formats
  BY <1>2, ReceivedType DEF Certified, Sources, Files
<1>4. now \in Nat \cup {OwnClock}
  BY <1>2 DEF Nows
<1>5. /\ call.set = set
      /\ call \in [format : Formats, via : {"key", "set"}, scheme : Schemes,
                    key : Keys \cup {NoKey}, set : {set},
                    material : Materials \cup {NoMaterial}, now : Nat \cup {OwnClock}]
  BY <1>3, <1>4 DEF CallFor
<1>6. held.known \in SUBSET Keys /\ held.pinned \in BOOLEAN
  BY DEF HeldTypes
<1>7. pc = "opening" => end = Pass
  OBVIOUS
<1> HIDE DEF call, file, end, pc
<1>8. run'.pc = pc /\ run'.outcome = end /\ run'.call = call
  BY <1>1
<1> QED BY <1>1, <1>2, <1>3, <1>5, <1>6, <1>7, <1>8 DEF RunTypes

LEMMA NextRuns ==
  ASSUME KeysInv, HeldTypes, RunTypes, [Next]_vars
  PROVE  RunTypes'
<1>1. ASSUME run' = run, issued \subseteq issued'
      PROVE  RunTypes'
  BY <1>1 DEF RunTypes
<1>2. ASSUME NEW source \in issued, NEW condition \in Conditions,
             NEW material \in Materials \cup {NoMaterial}, NEW now \in Nows,
             VerifyWithKeySet(source, condition, material, now)
      PROVE  RunTypes'
  <2>1. Ed25519 \in Schemes /\ IsKeySet(held.set)
    BY DEF Schemes, SchemeAlgSuffix, Ed25519, HeldTypes
  <2> QED BY <1>2, <2>1, EnteredTypes DEF VerifyWithKeySet
<1>3. ASSUME NEW source \in issued, NEW condition \in Conditions,
             NEW material \in Materials \cup {NoMaterial}, NEW now \in Nows,
             NEW scheme \in UsedSchemes, NEW key \in Keys,
             VerifyWithClaims(source, condition, scheme, key, material, now)
      PROVE  RunTypes'
  <2>1. scheme \in Schemes /\ IsKeySet(<<>>)
    BY ApplicationAssumption DEF IsKeySet
  <2> QED BY <1>3, <2>1, EnteredTypes DEF VerifyWithClaims
<1>4. ASSUME Resume
      PROVE  RunTypes'
  <2>1. run # Idle /\ clock \in Nat
    BY <1>4 DEF Resume, Idle, KeysInv
  <2>2. /\ run' = [run EXCEPT !.pc = "done",
                              !.outcome = Conclude(run.call, run.file, clock),
                              !.ended = clock]
        /\ issued' = issued
    BY <1>4 DEF Resume
  <2> DEFINE end == Conclude(run.call, run.file, clock)
  <2> HIDE DEF end
  <2>3. run' = [run EXCEPT !.pc = "done", !.outcome = end, !.ended = clock]
    BY <2>2 DEF end
  <2>4. run'.pc = "done" /\ run'.outcome = end /\ run'.call = run.call
    BY <2>1, <2>3 DEF RunTypes
  <2> QED BY <2>1, <2>2, <2>3, <2>4 DEF RunTypes
<1> QED
  BY <1>1, <1>2, <1>3, <1>4
  DEF Next, vars, Rotate, Repair, PublishOther, CheckOut, Refresh, Pin, Tick

\* Type correctness; in particular every verification that ends has one of
\* the outcomes the error classes document, and none before.
THEOREM TypeCorrect == Spec => []TypeOK
<1>1. Init => HeldTypes /\ RunTypes
  BY DEF Init, NoSet, HeldTypes, IsKeySet, RunTypes
<1>2. KeysInv /\ HeldTypes /\ RunTypes => TypeOK
  <2> SUFFICES ASSUME KeysInv, HeldTypes, RunTypes
               PROVE  TypeOK
    OBVIOUS
  <2>1. issued \subseteq Sources
    BY DEF KeysInv, Certified
  <2>2. ASSUME run # Idle
        PROVE  /\ IsKeySet(run.call.set)
               /\ \/ run \in Runs
                  \/ /\ run.outcome \in Outcomes
                     /\ [run EXCEPT !.pc = "opening", !.outcome = Pass] \in Runs
    <3>1. CASE run.pc = "opening"
      BY <2>2, <3>1 DEF RunTypes, Runs
    <3>2. CASE run.pc # "opening"
      <4>1. Asked /\ run.outcome = Verdict(run.call, run.file, run.ended)
        BY <2>2, <3>2 DEF KeysInv, RunInv
      <4>2. run.outcome \in Outcomes
        BY <4>1, VerdictOutcomes
      <4> DEFINE opened == [run EXCEPT !.pc = "opening", !.outcome = Pass]
      <4>3. opened.call = run.call
        BY <2>2 DEF RunTypes
      <4>4. opened \in Runs
        BY <2>2, <4>3 DEF RunTypes, Runs
      <4> QED BY <2>2, <4>2, <4>4 DEF RunTypes
    <3> QED BY <3>1, <3>2
  <2> QED BY <2>1, <2>2 DEF TypeOK, KeysInv, RowsInv, HeldTypes
<1>3. HeldTypes /\ RunTypes /\ KeysInv /\ [Next]_vars => HeldTypes' /\ RunTypes'
  BY NextHeld, NextRuns
<1> QED BY <1>1, <1>2, <1>3, KeysInvAlways, PTL DEF Spec
=============================================================================
