----------------------------- MODULE SigningKeys -----------------------------
(***************************************************************************)
(* An application that holds a signing key set, verifies checkout files    *)
(* with it and refreshes it now and then (src/client.ts getSigningKeySet,  *)
(* src/checkout), against a server that checks files out and rotates the   *)
(* key it signs them with.  A verification suspends once, between the      *)
(* signature and the payload; the set it was given stays its own.          *)
(***************************************************************************)
EXTENDS CheckoutFiles, FiniteSets

CONSTANTS
  LicenseKey,  \* the license's own key material
  FirstKey,    \* the Ed25519 key of a new account
  FixedKey,    \* names the account's one key of each scheme but Ed25519
  UsedSchemes, \* bound: the schemes tried
  Ttls,        \* values of opts.ttl
  NoTtl,       \* no opts.ttl
  MaxTtl,      \* MAX_TTL_SECS
  MaxRows,     \* bound on the keys published
  MaxIssued,   \* bound on the files checked out
  MaxClock     \* bound on time, in seconds

ASSUME ApplicationAssumption ==
  /\ LicenseKey \in Materials
  /\ FirstKey \in Keys
  /\ FixedKey \in Keys \ Undecodable
  /\ UsedSchemes \subseteq Schemes
  /\ Ed25519 \in UsedSchemes
  /\ NoTtl \notin Int
  /\ Ttls \subseteq Int \cup {NoTtl}
  /\ MaxTtl \in Nat \ {0}

VARIABLES
  clock,    \* the time, the same for everyone
  rows,     \* server: what GET /signing-keys answers, oldest first
  signing,  \* server: the key it signs with, and whether it is published
  issued,   \* files checked out; ghost: with a published key or not
  held,     \* the application's key set; ghosts: the keys it was given, and how
  run       \* one verification; verifications share nothing but the key set

vars == <<clock, rows, signing, issued, held, run>>

NoSet == [set |-> <<>>, known |-> {}, pinned |-> FALSE, present |-> FALSE]
Idle  == [pc |-> "idle"]

\* How a file can look when it is verified.
Conditions ==
  {"asIssued", "noMarkers", "notBase64", "notDocument", "relabelled", "preV2",
   "sigGarbled", "sigAltered", "encGarbled", "encTruncated", "encAltered"}
Altered == Conditions \ {"asIssued"}

Swapped(encoding) == IF encoding = Plain THEN Encrypted ELSE Plain

\* What a file issued by the server looks like in one of these conditions.  An
\* altered enc has no valid signature, and if it was sealed, no key opens it.
Received(file, condition) ==
  CASE condition = "asIssued"    -> file
    [] condition \in DOMAIN EnvelopeError -> [file EXCEPT !.envelope = condition]
    [] condition = "relabelled"  -> [file EXCEPT !.alg[1] = Swapped(@)]
    [] condition = "preV2"       -> [file EXCEPT !.alg = SubSeq(@, 1, 2),
                                       !.payload.meta = FALSE,
                                       !.payload.kid = NoKid, !.payload.exp = NoExp]
    [] condition = "sigGarbled"  -> [file EXCEPT !.sigReadable = FALSE]
    [] condition = "sigAltered"  -> [file EXCEPT !.signer = NoSigner]
    [] condition = "encGarbled"  -> [file EXCEPT !.signer = NoSigner, !.readable = FALSE]
    [] condition = "encTruncated" -> [file EXCEPT !.signer = NoSigner, !.whole = FALSE,
                                       !.payload = Noise]
    [] condition = "encAltered"  -> [file EXCEPT !.signer = NoSigner,
                                       !.payload.exp = NoExp, !.material = NoMaterial]

Init ==
  /\ clock = 0
  /\ signing \in [key : {FirstKey}, published : BOOLEAN]
  /\ rows = IF signing.published THEN <<Row(signing.key, "ed25519")>> ELSE <<>>
  /\ issued = {}
  /\ held = NoSet
  /\ run = Idle

-----------------------------------------------------------------------------
(* The server.                                                             *)

RowKeys(rs) == {rs[i].key : i \in DOMAIN rs}

\* A rotation mints a key and publishes it; the old rows stay.
Rotate(key) ==
  /\ Len(rows) < MaxRows
  /\ key \notin RowKeys(rows) \cup {signing.key}
  /\ signing' = [key |-> key, published |-> TRUE]
  /\ rows' = Append(rows, Row(key, "ed25519"))
  /\ UNCHANGED <<clock, issued, held, run>>

\* The start of a patched server publishes the key that was in use all along.
Repair ==
  /\ ~signing.published
  /\ Len(rows) < MaxRows
  /\ signing' = [signing EXCEPT !.published = TRUE]
  /\ rows' = Append(rows, Row(signing.key, "ed25519"))
  /\ UNCHANGED <<clock, issued, held, run>>

\* A key of an algorithm this client does not know.
PublishOther(key) ==
  /\ Len(rows) < MaxRows
  /\ key \notin RowKeys(rows) \cup {signing.key}
  /\ rows' = Append(rows, Row(key, "other"))
  /\ UNCHANGED <<clock, signing, issued, held, run>>

Alg(encrypt, scheme) ==
  <<IF encrypt THEN Encrypted ELSE Plain, SchemeAlgSuffix[scheme], "v2">>

\* The certificate the server makes.
Certificate(format, scheme, encrypt, ttl) ==
  [format |-> format, envelope |-> "ok", alg |-> Alg(encrypt, scheme),
   sigReadable |-> TRUE,
   signer |-> [scheme |-> scheme,
               key |-> IF scheme = Ed25519 THEN signing.key ELSE FixedKey],
   sealed |-> encrypt, readable |-> TRUE, whole |-> TRUE,
   material |-> IF encrypt THEN LicenseKey ELSE NoMaterial,
   payload |->
     [object |-> TRUE, data |-> TRUE, meta |-> TRUE,
      kid |-> IF scheme # Ed25519 THEN SigningKeyId(FixedKey)
              ELSE IF signing.published THEN ServedId(signing.key)
              ELSE UnbackfilledKeyId,
      exp |-> IF ttl = NoTtl THEN NoExp ELSE clock + ttl]]

\* checkTtl, which only the machine checkouts call; the server's own check is
\* the same for both.
TtlInRange(ttl) == ttl \in {NoTtl} \cup 1..MaxTtl

\* License files are always signed with Ed25519, and the server refuses the
\* JWT scheme for machine files.
CheckOut(format, scheme, encrypt, ttl) ==
  /\ Cardinality(issued) < MaxIssued
  /\ scheme # JWT
  /\ format = "license" => scheme = Ed25519
  /\ TtlInRange(ttl)
  /\ issued' = issued \cup
       {[file |-> Certificate(format, scheme, encrypt, ttl),
         published |-> signing.published]}
  /\ UNCHANGED <<clock, rows, signing, held, run>>

-----------------------------------------------------------------------------
(* The application's key set.                                              *)

\* getSigningKeySet: the answer is as old as the set then is; a fetch that fails
\* leaves the set held before.
Refresh ==
  /\ held' = [set |-> FromResources(rows),
              known |-> {rows[i].key : i \in {j \in DOMAIN rows :
                                                rows[j].algorithm = "ed25519"}},
              pinned |-> FALSE, present |-> TRUE]
  /\ UNCHANGED <<clock, rows, signing, issued, run>>

\* SigningKeySet.fromPublicKeys with keys shipped in the application; with one
\* that does not decode it throws, and there is no set.
Pin(publicKeys) ==
  /\ publicKeys \subseteq RowKeys(rows)
  /\ ~InvalidKey(publicKeys)
  /\ held' = [set |-> FromPublicKeys(publicKeys), known |-> publicKeys,
              pinned |-> TRUE, present |-> TRUE]
  /\ UNCHANGED <<clock, rows, signing, issued, run>>

-----------------------------------------------------------------------------
(* Its verifications.                                                      *)

\* A verification runs up to its await, or ends before it.
Enter(source, condition, call) ==
  LET file == Received(source.file, condition)
      end  == Begin(call, file)
  IN run' = [pc |-> IF end = Pass THEN "opening" ELSE "done",
             source |-> source, condition |-> condition, file |-> file,
             call |-> call, known |-> held.known, pinned |-> held.pinned,
             outcome |-> end, started |-> clock, ended |-> clock]

Nows == {OwnClock, clock}

VerifyWithKeySet(source, condition, material, now) ==
  /\ run = Idle
  /\ held.present
  /\ source \in issued
  /\ Enter(source, condition,
           CallFor(source.file.format, "set", Ed25519, NoKey, held.set, material, now))
  /\ UNCHANGED <<clock, rows, signing, issued, held>>

VerifyWithClaims(source, condition, scheme, key, material, now) ==
  /\ run = Idle
  /\ source \in issued
  /\ source.file.format = "license" => scheme = Ed25519
  /\ Enter(source, condition,
           CallFor(source.file.format, "key", scheme, key, <<>>, material, now))
  /\ UNCHANGED <<clock, rows, signing, issued, held>>

\* It resumes, opens the payload and ends.
Resume ==
  /\ run.pc = "opening"
  /\ run' = [run EXCEPT !.pc = "done",
                        !.outcome = Conclude(run.call, run.file, clock),
                        !.ended = clock]
  /\ UNCHANGED <<clock, rows, signing, issued, held>>

\* Time is counted from the first checkout.
Tick ==
  /\ issued # {}
  /\ clock < MaxClock
  /\ clock' = clock + 1
  /\ UNCHANGED <<rows, signing, issued, held, run>>

Next ==
  \/ \E key \in Keys : Rotate(key) \/ PublishOther(key)
  \/ Repair
  \/ \E format \in Formats, scheme \in UsedSchemes, encrypt \in BOOLEAN, ttl \in Ttls :
       CheckOut(format, scheme, encrypt, ttl)
  \/ Refresh
  \/ \E publicKeys \in SUBSET Keys : Pin(publicKeys)
  \/ \E source \in issued, condition \in Conditions,
        material \in Materials \cup {NoMaterial}, now \in Nows :
       \/ VerifyWithKeySet(source, condition, material, now)
       \/ \E scheme \in UsedSchemes, key \in Keys :
            VerifyWithClaims(source, condition, scheme, key, material, now)
  \/ Resume
  \/ Tick

Spec == Init /\ [][Next]_vars

-----------------------------------------------------------------------------
(* Properties.                                                             *)

Sources == [file : Files, published : BOOLEAN]
Runs ==
  [pc : {"opening"}, source : issued, condition : Conditions, file : Files,
   call : [format : Formats, via : {"key", "set"}, scheme : Schemes,
           key : Keys \cup {NoKey}, set : {run.call.set},
           material : Materials \cup {NoMaterial}, now : Nat \cup {OwnClock}],
   known : SUBSET Keys, pinned : BOOLEAN, outcome : {Pass},
   started : Nat, ended : Nat]

\* Types; a verification that awaits its payload has no outcome yet, one that
\* ended has one of those the documentation of CheckoutError and
\* SigningKeyError lists.
TypeOK ==
  /\ clock \in Nat
  /\ rows \in Seq(Rows)
  /\ signing \in [key : Keys, published : BOOLEAN]
  /\ issued \subseteq Sources
  /\ held \in [set : {held.set}, known : SUBSET Keys, pinned : BOOLEAN, present : BOOLEAN]
  /\ IsKeySet(held.set)
  /\ run # Idle =>
       /\ IsKeySet(run.call.set)
       /\ \/ run \in Runs
          \/ /\ run.outcome \in Outcomes
             /\ [run EXCEPT !.pc = "opening", !.outcome = Pass] \in Runs

Done == run.pc = "done"
Genuine == run.condition = "asIssued"
Signer == run.source.file.signer
RightMaterial ==
  run.source.file.sealed => run.call.material = run.source.file.material

\* The caller was given the key that signed the file.
GivenSigner ==
  IF run.call.via = "set"
  THEN Signer.scheme = Ed25519 /\ Signer.key \in run.known \ Undecodable
  ELSE /\ Signer = [scheme |-> run.call.scheme, key |-> run.call.key]
       /\ ~(Signer.scheme = Ed25519 /\ Signer.key \in Undecodable)

Exp == run.source.file.payload.exp
LateAt(time) == Exp # NoExp /\ time > Exp + Skew
NowUsed == IF run.call.now = OwnClock THEN run.ended ELSE run.call.now

\* No rotation strands a file: whatever was published, retired or fetched since
\* it was issued, a file as the server made it is accepted by every caller that
\* was given the key it was signed with, until it runs out.
GenuineAccepted ==
  Done /\ Genuine /\ RightMaterial /\ GivenSigner =>
    run.outcome = IF LateAt(NowUsed) THEN "expired" ELSE "accepted"

\* Nothing else is accepted: an accepted file is as the server made it, under a
\* key the caller was given, and had not run out when the call began.
AcceptedIsIssued ==
  Done /\ run.outcome = "accepted" =>
    Genuine /\ GivenSigner /\ RightMaterial /\ ~LateAt(run.started)

\* A SigningKeyError tells the truth: the set the caller passed lacks the key
\* the file was signed with (a file that was also altered may name it by another
\* id than the set does), and the account had no published key when the file
\* was issued exactly if the error says so.
StaleMeansNotHeld ==
  Done /\ run.outcome \in {"unknown-key-id", "no-published-signing-key"} =>
    /\ run.call.via = "set"
    /\ \/ ~GivenSigner
       \/ ~Genuine /\ (run.pinned \/ ~run.source.published)
    /\ (run.outcome = "no-published-signing-key") = ~run.source.published

\* A signature failure accuses no genuine file of a caller who passed the right
\* key material, however stale the key set is.
SignatureMeansAltered ==
  /\ Done /\ run.outcome = SignatureFailure
  /\ RightMaterial
  /\ run.call.via = "key" => GivenSigner
  => ~Genuine

\* After a verified signature, a decryption failure means the wrong key
\* material; for a license file it can also mean a changed alg, for a machine
\* file it cannot.
DecryptionNamesMaterial ==
  Done /\ run.outcome = DecryptionFailure =>
    \/ ~RightMaterial
    \/ run.source.file.format = "license" /\ run.condition = "relabelled"
=============================================================================
