------------------------------ MODULE X509Cert ------------------------------
(***************************************************************************)
(* Reading an X.509 certificate (cms/src/x509.rs): the outer SEQUENCE, the *)
(* tbsCertificate, its public key, and the check of one signature under a  *)
(* key.  A time holds one number; the digest of a value under an algorithm *)
(* is an OCTET STRING that wraps the value and names the algorithm.        *)
(***************************************************************************)
EXTENDS X509Ext

RSA_ENCRYPTION == <<21>>
EC_PUBLIC_KEY == <<22>>
RSASSA_PSS == <<23>>
SECP256R1 == <<24>>
SECP384R1 == <<25>>
RsaHashes == (<<31>> :> "sha256") @@ (<<32>> :> "sha384") @@ (<<33>> :> "sha512")
EcdsaHashes == (<<34>> :> "sha256") @@ (<<35>> :> "sha384") @@ (<<36>> :> "sha512")

IsTime(item) == item.tag \in {"UTCTime", "GeneralizedTime"} /\ Len(item.octets) = 1
IsName(item) == item.tag = "SEQUENCE"

Digest(algorithm, item) ==
    [tag |-> "OCTET STRING", octets |-> algorithm, list |-> <<item>>]

(* A signature BIT STRING: no unused bits, and at least one octet. *)
SignatureOctets(item) ==
    item.tag = "BIT STRING" /\ Len(item.octets) > 1 /\ item.octets[1] = 0

-----------------------------------------------------------------------------
(* Public keys. *)

(* A positive minimal INTEGER, the form of a modulus and of an exponent. *)
IsMagnitude(item) ==
    /\ item.tag = "INTEGER"
    /\ item.octets # <<>>
    /\ IF item.octets[1] = 0 THEN Len(item.octets) > 1 /\ item.octets[2] >= 128
       ELSE item.octets[1] < 128

(* The RSAPublicKey inside the key's BIT STRING: exactly modulus and exponent. *)
rsa_public_key_parts(list) ==
    /\ parse_exact(list, "SEQUENCE")
    /\ Len(list[1].list) = 2
    /\ IsMagnitude(list[1].list[1]) /\ IsMagnitude(list[1].list[2])

(* The external SubjectPublicKeyInfo decoder: an algorithm and an aligned key. *)
SubjectPublicKeyInfo(item) ==
    /\ item.tag = "SEQUENCE"
    /\ Whole(item.list, Walk(item.list, <<Must({"SEQUENCE"}), Must({"BIT STRING"})>>))
    /\ item.list[1].list # <<>> /\ Len(item.list[1].list) <= 2
    /\ item.list[1].list[1].tag = "OID"
    /\ AllReadable(item.list[1].list)
    /\ item.list[2].octets # <<>> /\ item.list[2].octets[1] = 0

KeyOid(spki) == spki.list[1].list[1].octets
KeyParameters(spki) == Tail(spki.list[1].list)
KeyBits(spki) == spki.list[2]

from_spki(spki) ==
    CASE KeyOid(spki) = RSA_ENCRYPTION ->
           IF rsa_public_key_parts(KeyBits(spki).list) THEN "rsa" ELSE "malformed"
      [] KeyOid(spki) = EC_PUBLIC_KEY ->
           IF ~parse_exact(KeyParameters(spki), "OID") THEN "malformed"
           ELSE IF KeyParameters(spki)[1].octets \in {SECP256R1, SECP384R1} THEN "ec"
           ELSE "other curve"
      [] OTHER -> "other"

SpkiReads(item) == SubjectPublicKeyInfo(item) /\ from_spki(item) # "malformed"

extract_rsa_public_key(spki) == from_spki(spki) = "rsa"

(* A PSS key may sign too, when its algorithm has no parameters. *)
extract_rsa_pss_public_key_with_absent_parameters(spki) ==
    KeyOid(spki) = RSASSA_PSS /\ KeyParameters(spki) = <<>>
      /\ rsa_public_key_parts(KeyBits(spki).list)

(* The curves the ECDSA code has, with their points' length in octets. *)
extract_ec_pubkey(spki) == from_spki(spki) = "ec" /\ Len(KeyBits(spki).octets) > 1

(***************************************************************************)
(* One signature under one key.  A genuine signature is a record of what   *)
(* was signed with which algorithm and key, and the octets that came out;  *)
(* the algorithm must be known and fit the kind of the key.                *)
(***************************************************************************)
verify_tbs_signature(genuine, tbs, algorithm, bits, spki) ==
    /\ \/ algorithm \in DOMAIN RsaHashes /\ extract_rsa_public_key(spki)
       \/ algorithm \in DOMAIN EcdsaHashes /\ extract_ec_pubkey(spki)
    /\ [over |-> tbs, algorithm |-> algorithm, bits |-> bits, key |-> spki] \in genuine

verify_message_signature(genuine, message, algorithm, signature, spki) ==
    /\ CASE algorithm = "pkcs1" -> extract_rsa_public_key(spki)
         [] algorithm = "pss" -> \/ extract_rsa_public_key(spki)
                                 \/ extract_rsa_pss_public_key_with_absent_parameters(spki)
         [] algorithm = "ecdsa raw" ->
              extract_ec_pubkey(spki) /\ Len(signature) = Len(KeyBits(spki).octets) - 1
    /\ [over |-> message, algorithm |-> algorithm, bits |-> signature, key |-> spki] \in genuine

-----------------------------------------------------------------------------
(* The certificate. *)

(* An optional version shifts every field of the tbsCertificate by one. *)
Shift(fields) == IF fields # <<>> /\ fields[1].tag = "[0]" THEN 1 ELSE 0

Trailing(fields) == {i \in Shift(fields) + 7 .. Len(fields) : fields[i].tag = "[3]"}

(* Every field is a TLV; the tail may hold anything, the last [3] gives the extensions. *)
TbsReads(tbs) ==
    LET s == Shift(tbs.list)
    IN  /\ tbs.tag = "SEQUENCE"
        /\ AllReadable(tbs.list)
        /\ Len(tbs.list) >= s + 6
        /\ tbs.list[s + 1].tag = "INTEGER"
        /\ tbs.list[s + 4].tag = "SEQUENCE" /\ Len(tbs.list[s + 4].list) = 2
        /\ IsTime(tbs.list[s + 4].list[1]) /\ IsTime(tbs.list[s + 4].list[2])
        /\ SpkiReads(tbs.list[s + 6])
        /\ \A i \in Trailing(tbs.list) : Len(tbs.list[i].list) = 1 /\ AllReadable(tbs.list[i].list)

parse_tbs(tbs) ==
    LET s == Shift(tbs.list)
    IN  [serial |-> tbs.list[s + 1].octets, algorithm |-> tbs.list[s + 2],
         issuer |-> tbs.list[s + 3],
         not_before |-> tbs.list[s + 4].list[1].octets[1],
         not_after |-> tbs.list[s + 4].list[2].octets[1],
         subject |-> tbs.list[s + 5], spki |-> tbs.list[s + 6],
         extensions |-> IF Trailing(tbs.list) = {} THEN <<>>
                        ELSE <<tbs.list[Max(Trailing(tbs.list))].list[1].list>>]

(* The first field of an AlgorithmIdentifier, which must hold an OID's octets. *)
AlgorithmOid(item) == item.list[1].octets
AlgorithmReads(item) ==
    item.tag # "unreadable" /\ item.list # <<>> /\ item.list[1].tag # "unreadable"
      /\ AlgorithmOid(item) # <<>>

(* tbsCertificate, signatureAlgorithm and signature; fields after them are not read. *)
CertificateReads(der) ==
    /\ der.tag = "SEQUENCE"
    /\ Len(der.list) >= 3
    /\ AllReadable(SubSeq(der.list, 1, 3))
    /\ AlgorithmReads(der.list[2])
    /\ SignatureOctets(der.list[3])
    /\ TbsReads(der.list[1])
    /\ parse_tbs(der.list[1]).algorithm = der.list[2]

from_der(der) ==
    LET tbs == parse_tbs(der.list[1])
    IN  [raw |-> der, tbs |-> der.list[1], serial |-> tbs.serial, issuer |-> tbs.issuer,
         subject |-> tbs.subject, not_before |-> tbs.not_before, not_after |-> tbs.not_after,
         spki |-> tbs.spki, extensions |-> tbs.extensions,
         algorithm |-> AlgorithmOid(der.list[2]), bits |-> der.list[3].octets]

verify_signed_by(genuine, certificate, issuer) ==
    verify_tbs_signature(genuine, certificate.tbs, certificate.algorithm, certificate.bits,
                         issuer.spki)

(* The extensions of a certificate that has some, when the strict profile takes them. *)
HasProfile(certificate) ==
    certificate.extensions # <<>> /\ PathExtensionsRead(certificate.extensions[1])
ProfileOf(certificate) == path_extension_profile(certificate.extensions[1])

valid_at(certificate, at) == certificate.not_before <= at /\ at <= certificate.not_after
=============================================================================
