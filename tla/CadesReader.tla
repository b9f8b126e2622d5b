----------------------------- MODULE CadesReader -----------------------------
(***************************************************************************)
(* A CAdES signature as this repository writes it (doc-sign/src/cades.rs)  *)
(* and as it reads it back (doc-sign/src/verification/cades.rs).  The      *)
(* writer sorts and deduplicates what goes into a SET: Canonical gives one *)
(* sequence to each set.  Octets joined before hashing are one Joined item.*)
(***************************************************************************)
EXTENDS TimestampToken

CONSTANT MAX_HASH_INDEX_ENTRIES

DATA == <<81>>
SIGNING_TIME == <<82>>
SIGNATURE_TIME_STAMP_TOKEN == <<83>>
ARCHIVE_TIME_STAMP_V3 == <<84>>
ARCHIVE_TIME_STAMP_V2 == <<85>>
ATS_HASH_INDEX_V3 == <<86>>

Canonical(set) == SetToSeq(set)
Joined(items) == Struct("joined", items)

-----------------------------------------------------------------------------
(* The writer.  parameters: certificate, digest_algorithm, algorithm, signing_time. *)

algorithm_identifier(digest) == Struct("SEQUENCE", <<Prim("OID", digest)>>)

attribute(oid, value) == Struct("SEQUENCE", <<Prim("OID", oid), Struct("SET", <<value>>)>>)

(* SHA-256 is the attribute's default algorithm and is left out. *)
signing_certificate_v2(parameters) ==
    Struct("SEQUENCE", <<Struct("SEQUENCE", <<Struct("SEQUENCE",
      (IF parameters.digest_algorithm = OID_SHA256 THEN <<>>
       ELSE <<algorithm_identifier(parameters.digest_algorithm)>>)
      \o <<Digest(parameters.digest_algorithm, parameters.certificate.raw)>>)>>)>>)

signed_attributes(parameters, content_digest) ==
    Struct("SET", Canonical(
      {attribute(CONTENT_TYPE, Prim("OID", DATA)),
       attribute(MESSAGE_DIGEST, content_digest),
       attribute(SIGNING_CERTIFICATE_V2, signing_certificate_v2(parameters))}
      \cup {attribute(SIGNING_TIME, Prim("UTCTime", <<parameters.signing_time>>)) :
              t \in {parameters.signing_time} \ {NoTime}}))

encapsulated_content(attached, content) ==
    Struct("SEQUENCE", <<Prim("OID", DATA)>>
                       \o (IF attached THEN <<Struct("[0]", <<content>>)>> ELSE <<>>))

issuer_and_serial(certificate) ==
    Struct("SEQUENCE", <<certificate.issuer, Prim("INTEGER", certificate.serial)>>)

signature_identifier(oid) ==
    Struct("SEQUENCE", <<Prim("OID", oid)>>
                       \o (IF oid \in DOMAIN RsaHashes THEN <<Prim("NULL", <<>>)>> ELSE <<>>))

signer_info(parameters, attributes, signature, timestamps) ==
    Struct("SEQUENCE",
      <<Prim("INTEGER", <<1>>), issuer_and_serial(parameters.certificate),
        algorithm_identifier(parameters.digest_algorithm), Struct("[0]", attributes.list),
        signature_identifier(parameters.algorithm), Prim("OCTET STRING", signature)>>
      \o (IF timestamps = {} THEN <<>>
          ELSE <<Struct("[1]", Canonical({attribute(SIGNATURE_TIME_STAMP_TOKEN, token) :
                                            token \in timestamps}))>>))

(* material: sets of certificates, crls and ocsp_responses. *)
signed_data(parameters, attributes, signature, attached, content, material, timestamps) ==
    Struct("SEQUENCE", <<Prim("OID", SIGNED_DATA), Struct("[0]", <<Struct("SEQUENCE",
      <<Prim("INTEGER", IF material.ocsp_responses = {} THEN <<1>> ELSE <<5>>),
        Struct("SET", <<algorithm_identifier(parameters.digest_algorithm)>>),
        encapsulated_content(attached, content),
        Struct("[0]", Canonical({parameters.certificate.raw} \cup material.certificates))>>
      \o (IF material.crls \cup material.ocsp_responses = {} THEN <<>>
          ELSE <<Struct("[1]", Canonical(material.crls \cup
                 {Struct("[1]", <<Prim("OID", ID_RI_OCSP_RESPONSE), response>>) :
                    response \in material.ocsp_responses}))>>)
      \o <<Struct("SET", <<signer_info(parameters, attributes, signature, timestamps)>>)>>)>>)>>)

-----------------------------------------------------------------------------
(* The reader. *)

(* Signed attributes, and one embedded certificate that the identifier selects. *)
CadesReads(der) ==
    /\ SignedDataReads(der)
    /\ SignedData(der).signer.signed # <<>>
    /\ Cardinality(select_signer_certificate(SignedData(der))) = 1

signer_certificate(sd) == CHOOSE certificate \in select_signer_certificate(sd) : TRUE

Crls(choices) == {choice \in choices : choice.tag = "SEQUENCE"}
OcspResponses(choices) ==
    {choice.list[2] : choice \in {c \in choices : c.tag = "[1]"
                                    /\ c.list[1].octets = ID_RI_OCSP_RESPONSE}}

OtherCertificates(ders, signer_der) == {der \in ders \ {signer_der} : CertificateReads(der)}

embedded_material(sd, signer_der) ==
    [certificates |-> OtherCertificates(ToSet(sd.certificates), signer_der),
     crls |-> Crls(ToSet(sd.revocation_info)),
     ocsp_responses |-> OcspResponses(ToSet(sd.revocation_info))]

attribute_values(attributes, oid) ==
    FlattenSeq([i \in DOMAIN Attributes(attributes, oid) |->
                  Values(Attributes(attributes, oid)[i])])

single_signing_time(attributes) ==
    IF /\ Len(Attributes(attributes, SIGNING_TIME)) = 1
       /\ Len(attribute_values(attributes, SIGNING_TIME)) = 1
       /\ IsTime(attribute_values(attributes, SIGNING_TIME)[1])
    THEN attribute_values(attributes, SIGNING_TIME)[1].octets[1] ELSE NoTime

document_intact(genuine, sd, content) ==
    judge(genuine, sd, signer_certificate(sd).spki, content).content_intact

signature_valid(genuine, sd, ess_required, content) ==
    /\ sd.econtent_type = DATA
    /\ ess_required => verify_signing_certificate_attribute(sd, signer_certificate(sd))
    /\ judge(genuine, sd, signer_certificate(sd).spki, content).signature

signature_timestamps(sd) == ToSet(attribute_values(sd.signer.unsigned, SIGNATURE_TIME_STAMP_TOKEN))
SignatureImprint(sd) == Prim("joined", sd.signer.signature)

-----------------------------------------------------------------------------
(* The archive timestamp, whose token carries an index of what it covers. *)

HashListReads(item, algorithm) ==
    /\ item.tag = "SEQUENCE"
    /\ Len(item.list) <= MAX_HASH_INDEX_ENTRIES
    /\ \A i \in DOMAIN item.list :
         item.list[i].tag = "OCTET STRING" /\ item.list[i].octets = algorithm

HashIndexReads(index) ==
    /\ index.tag = "SEQUENCE"
    /\ Len(index.list) = 4
    /\ AlgorithmIdentifierReads(index.list[1]) /\ check_parameters(index.list[1], TRUE)
    /\ AlgorithmOid(index.list[1]) \in HashAlgorithms
    /\ \A i \in 2 .. 4 : HashListReads(index.list[i], AlgorithmOid(index.list[1]))

IndexOf(token) == attribute_values(SignedData(token).signer.unsigned, ATS_HASH_INDEX_V3)

Hashed(algorithm, items) == {Digest(algorithm, item) : item \in items}

HashedAttributes(algorithm, attributes) ==
    UNION {{Digest(algorithm, Joined(<<attributes[i].list[1], value>>)) :
              value \in ToSet(Values(attributes[i]))} : i \in DOMAIN attributes}

(* Mutant: only the unsigned attributes are looked for. *)
AttributesPresent(sd, index, algorithm) ==
    ToSet(index.list[4].list) \subseteq HashedAttributes(algorithm, sd.signer.unsigned)

(* Whatever the index lists is still there. *)
IndexPresent(sd, index, algorithm) ==
    /\ ToSet(index.list[2].list) \subseteq Hashed(algorithm, ToSet(sd.certificates))
    /\ ToSet(index.list[3].list) \subseteq Hashed(algorithm, ToSet(sd.revocation_info))
    /\ ToSet(index.list[4].list) \subseteq HashedAttributes(algorithm, sd.signer.unsigned)

archive_timestamp_v3(sd, content, token) ==
    /\ content # <<>>
    /\ SignedDataReads(token)
    /\ Len(IndexOf(token)) = 1
    /\ HashIndexReads(IndexOf(token)[1])
    /\ IndexPresent(sd, IndexOf(token)[1], AlgorithmOid(IndexOf(token)[1].list[1]))

Listed(items, hashes, algorithm) == {item \in items : Digest(algorithm, item) \in ToSet(hashes)}

CoveredBy(sd, index, algorithm) ==
    [certificates |-> OtherCertificates(
       Listed(ToSet(sd.certificates), index.list[2].list, algorithm), signer_certificate(sd).raw),
     crls |-> Crls(Listed(ToSet(sd.revocation_info), index.list[3].list, algorithm)),
     ocsp_responses |-> OcspResponses(
       Listed(ToSet(sd.revocation_info), index.list[3].list, algorithm))]

ArchiveImprint(sd, content, index, algorithm) ==
    Joined(<<Prim("OID", sd.econtent_type), Digest(algorithm, content[1]),
             Joined(sd.signer.archive_fields), index>>)

SignedContent(sd, content) == IF content = <<>> THEN sd.econtent ELSE content

(* The attribute's one value, when the attribute has exactly one and it reads. *)
archive_tokens(sd, content) ==
    {Values(attr)[1] : attr \in {a \in ToSet(Attributes(sd.signer.unsigned, ARCHIVE_TIME_STAMP_V3)) :
       Len(Values(a)) = 1 /\ archive_timestamp_v3(sd, SignedContent(sd, content), Values(a)[1])}}

(* The imprint's hash must be the index's own; the token is then verified as any other. *)
archive_token_verifies(genuine, sd, content, token) ==
    LET index == IndexOf(token)[1]
        algorithm == AlgorithmOid(index.list[1])
    IN  /\ TokenReads(token)
        /\ parse_token(SignedData(token)).imprint_algorithm = algorithm
        /\ verify_token(genuine, token,
                        ArchiveImprint(sd, SignedContent(sd, content), index, algorithm))
=============================================================================
