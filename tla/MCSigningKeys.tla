---------------------------- MODULE MCSigningKeys ----------------------------
(* Instances of SigningKeys for TLC.                                       *)
EXTENDS SigningKeys

CONSTANTS k1, k2, k3, m1, m2, none

\* One scheme with keys in the set, one without, and the refused one.
SampleSchemes == {Ed25519, "RSA_2048_PKCS1_SIGN", JWT}

\* A verification that has ended stays as it is.
NotEnded == ~Done

\* Steps that do not see each other in one order only: nothing but an expiry
\* claim and the verification reads the clock; only the last key set is read,
\* and the server only until there is a file and a set; a suspended
\* verification reads neither, nor the clock if it was given the time, and one
\* with a key of its own reads no set at all.
OneOrder ==
  /\ run.pc = "opening" \/ clock > 0 => UNCHANGED <<rows, signing, issued, held>>
  /\ run.pc = "opening" /\ run.call.now # OwnClock => UNCHANGED clock
  /\ held.present => UNCHANGED held
  /\ held.present /\ issued # {} => UNCHANGED <<rows, signing>>
  /\ run = Idle /\ run' # Idle /\ run'.call.via = "key" => ~held.present
=============================================================================
