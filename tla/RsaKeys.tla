------------------------------- MODULE RsaKeys -------------------------------
(***************************************************************************)
(* src/crypto/rsa.ts: the account's RSA public key, in either DER encoding *)
(* an application can embed, on its way into WebCrypto, which reads only   *)
(* one of them.  Bytes are bytes; offsets count from 1.                    *)
(***************************************************************************)
EXTENDS Integers, Sequences

DER_TAG_INTEGER == 2
DER_TAG_BIT_STRING == 3
DER_TAG_SEQUENCE == 48

RSA_ENCRYPTION_ALGORITHM_ID ==
  <<48, 13, 6, 9, 42, 134, 72, 134, 247, 13, 1, 1, 1, 5, 0>>

\* The base-256 digits of a positive number of at most three of them, the most
\* significant first.
BytesOf(n) ==
  IF n < 256 THEN <<n>>
  ELSE IF n < 65536 THEN <<n \div 256, n % 256>>
  ELSE <<n \div 65536, (n \div 256) % 256, n % 256>>

\* Mutant: one length byte serves up to 255.
DerLengthShort(length) ==
  IF length < 256 THEN <<length>>
  ELSE <<128 + Len(BytesOf(length))>> \o BytesOf(length)

DerLength(length) ==
  IF length < 128 THEN <<length>>
  ELSE <<128 + Len(BytesOf(length))>> \o BytesOf(length)

DerTlv(tag, content) == <<tag>> \o DerLength(Len(content)) \o content

\* The offset after the length at `offset`, 0 if there is none.
AfterDerLength(bytes, offset) ==
  IF offset > Len(bytes) THEN 0
  ELSE LET first == bytes[offset]  count == first - 128 IN
       IF first < 128 THEN offset + 1
       ELSE IF count = 0 \/ offset + count > Len(bytes) THEN 0
       ELSE offset + 1 + count

IsPkcs1RsaPublicKey(bytes) ==
  /\ bytes # <<>>
  /\ bytes[1] = DER_TAG_SEQUENCE
  /\ LET contentStart == AfterDerLength(bytes, 2)
     IN contentStart \in 1..Len(bytes) /\ bytes[contentStart] = DER_TAG_INTEGER

ToRsaSpki(publicKey) ==
  IF ~IsPkcs1RsaPublicKey(publicKey) THEN publicKey
  ELSE DerTlv(DER_TAG_SEQUENCE,
         RSA_ENCRYPTION_ALGORITHM_ID
           \o DerTlv(DER_TAG_BIT_STRING, <<0>> \o publicKey))

-----------------------------------------------------------------------------
(* WebCrypto's side of importKey("spki"): no code of the repository.       *)

\* The value of the definite length at `offset`, of up to three bytes.
LengthAt(bytes, offset) ==
  IF bytes[offset] < 128 THEN bytes[offset]
  ELSE LET count == bytes[offset] - 128
           digit(i) == bytes[offset + i]
       IN IF count = 1 THEN digit(1)
          ELSE IF count = 2 THEN 256 * digit(1) + digit(2)
          ELSE IF count = 3 THEN 256 * (256 * digit(1) + digit(2)) + digit(3)
          ELSE 0

\* The content of the TLV that starts at `offset` and runs to the end of
\* `bytes`, or nothing.
ContentAt(bytes, offset, tag) ==
  IF offset >= Len(bytes) THEN <<>>
  ELSE LET start == AfterDerLength(bytes, offset + 1) IN
       IF /\ bytes[offset] = tag
          /\ start # 0
          /\ start + LengthAt(bytes, offset + 1) = Len(bytes) + 1
       THEN SubSeq(bytes, start, Len(bytes)) ELSE <<>>

\* The RSAPublicKey inside an SPKI, <<>> if it is none: importKey throws.
ImportSpki(bytes) ==
  LET body == ContentAt(bytes, 1, DER_TAG_SEQUENCE)
      bits == ContentAt(body, 16, DER_TAG_BIT_STRING)
  IN IF /\ Len(body) > 15
        /\ SubSeq(body, 1, 15) = RSA_ENCRYPTION_ALGORITHM_ID
        /\ bits # <<>>
        /\ bits[1] = 0
     THEN SubSeq(bits, 2, Len(bits)) ELSE <<>>

Tlv(tag, content) ==
  LET n == Len(content)
  IN <<tag>> \o (IF n < 128 THEN <<n>> ELSE <<128 + Len(BytesOf(n))>> \o BytesOf(n))
       \o content

\* An RSAPublicKey with a modulus of `size` bytes, and the SPKI around it.
Pkcs1Key(size) ==
  Tlv(DER_TAG_SEQUENCE,
      Tlv(DER_TAG_INTEGER, [i \in 1..size |-> 7]) \o Tlv(DER_TAG_INTEGER, <<1, 0, 1>>))

SpkiKey(size) ==
  Tlv(DER_TAG_SEQUENCE, RSA_ENCRYPTION_ALGORITHM_ID
                          \o Tlv(DER_TAG_BIT_STRING, <<0>> \o Pkcs1Key(size)))
=============================================================================
