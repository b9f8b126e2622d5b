------------------------------ MODULE CmsReader ------------------------------
(***************************************************************************)
(* Reading a CMS SignedData with one signer (cms/src/signed_data.rs) and   *)
(* judging its content and its signature under a key.                      *)
(***************************************************************************)
EXTENDS OcspReader

SIGNED_DATA == <<61>>
CONTENT_TYPE == <<62>>
MESSAGE_DIGEST == <<63>>
ID_RI_OCSP_RESPONSE == <<64>>
OID_SHA384 == <<65>>
OID_SHA512 == <<66>>

HashAlgorithms == {OID_SHA256, OID_SHA384, OID_SHA512}
NameOf(hash) == CASE hash = OID_SHA256 -> "sha256" [] hash = OID_SHA384 -> "sha384"
                  [] OTHER -> "sha512"
RSA_PKCS1 == 1
ECDSA == 2

Field(list, walk, k) == list[walk.at[k]]
Has(walk, k) == walk.at[k] # 0

-----------------------------------------------------------------------------
(* Algorithm identifiers: an OID and at most one parameter. *)

AlgorithmIdentifierReads(item) ==
    /\ item.tag = "SEQUENCE"
    /\ Len(item.list) \in 1 .. 2 /\ AllReadable(item.list)
    /\ item.list[1].tag = "OID" /\ item.list[1].octets # <<>>

IsNull(item) == item.tag = "NULL" /\ item.octets = <<>>

(* NULL or nothing; for an ECDSA algorithm nothing. *)
check_parameters(item, null_allowed) ==
    Len(item.list) = 1 \/ (null_allowed /\ IsNull(item.list[2]))

DigestAlgorithmsRead(list) ==
    list # <<>> /\ \A i \in DOMAIN list :
      AlgorithmIdentifierReads(list[i]) /\ check_parameters(list[i], TRUE)

(* The scheme an algorithm names; a hash it names must be the signer's. *)
signature_scheme(oid) ==
    IF oid \in DOMAIN RsaHashes \cup {RSA_ENCRYPTION} THEN RSA_PKCS1 ELSE ECDSA

SignatureAlgorithmReads(item, digest) ==
    /\ AlgorithmIdentifierReads(item)
    /\ LET oid == AlgorithmOid(item)
       IN  CASE oid \in DOMAIN RsaHashes -> check_parameters(item, TRUE) /\ RsaHashes[oid] = NameOf(digest)
             [] oid \in DOMAIN EcdsaHashes -> check_parameters(item, FALSE) /\ EcdsaHashes[oid] = NameOf(digest)
             [] oid = RSA_ENCRYPTION -> check_parameters(item, TRUE)
             [] oid = EC_PUBLIC_KEY -> check_parameters(item, FALSE)
             [] OTHER -> FALSE

-----------------------------------------------------------------------------
(* Attributes: a type and a non-empty set of values. *)

AttributeReads(item) ==
    /\ item.tag = "SEQUENCE"
    /\ Whole(item.list, Walk(item.list, <<Must({"OID"}), Must({"SET"})>>))
    /\ item.list[1].octets # <<>>
    /\ item.list[2].list # <<>> /\ AllReadable(item.list[2].list)

parse_attributes(list) == \A i \in DOMAIN list : AttributeReads(list[i])

Attributes(list, oid) == SelectSeq(list, LAMBDA attribute : attribute.list[1].octets = oid)
Values(attribute) == attribute.list[2].list

(* Signed attributes hold exactly one contentType and one messageDigest, of one value. *)
SignedAttributesRead(list, econtent_type) ==
    /\ parse_attributes(list)
    /\ Len(Attributes(list, CONTENT_TYPE)) = 1
    /\ Values(Attributes(list, CONTENT_TYPE)[1]) = <<Prim("OID", econtent_type)>>
    /\ Len(Attributes(list, MESSAGE_DIGEST)) = 1
    /\ parse_exact(Values(Attributes(list, MESSAGE_DIGEST)[1]), "OCTET STRING")

-----------------------------------------------------------------------------
(* The signer. *)

(* issuerAndSerialNumber with version 1, subjectKeyIdentifier with version 3. *)
SignerIdentifierReads(sid, version) ==
    IF sid.tag = "SEQUENCE"
    THEN /\ version = <<1>>
         /\ Whole(sid.list, Walk(sid.list, <<Must({"SEQUENCE"}), Must({"INTEGER"})>>))
         /\ sid.list[2].octets # <<>>
    ELSE version = <<3>> /\ sid.octets # <<>>

SignerFields(list) ==
    Walk(list, <<Must({"INTEGER"}), Must({"SEQUENCE", "[0]p"}), Must({"SEQUENCE"}), May({"[0]"}),
                 Must({"SEQUENCE"}), Must({"OCTET STRING"}), May({"[1]"})>>)

DigestLengthFits(value, digest) == value.octets = digest

SignerReads(list, walk, econtent_type) ==
    /\ Whole(list, walk)
    /\ SignerIdentifierReads(Field(list, walk, 2), Field(list, walk, 1).octets)
    /\ AlgorithmIdentifierReads(Field(list, walk, 3))
    /\ AlgorithmOid(Field(list, walk, 3)) \in HashAlgorithms
    /\ check_parameters(Field(list, walk, 3), TRUE)
    /\ SignatureAlgorithmReads(Field(list, walk, 5), AlgorithmOid(Field(list, walk, 3)))
    /\ Has(walk, 4) =>
         LET attributes == Field(list, walk, 4).list
         IN  /\ SignedAttributesRead(attributes, econtent_type)
             /\ DigestLengthFits(Values(Attributes(attributes, MESSAGE_DIGEST)[1])[1],
                                 AlgorithmOid(Field(list, walk, 3)))
    /\ Has(walk, 7) => Field(list, walk, 7).list # <<>>
                         /\ parse_attributes(Field(list, walk, 7).list)

(* What the signature is over: the attributes under a SET tag, or nothing but the content. *)
parse_signer_info(list, walk) ==
    [sid |-> Field(list, walk, 2),
     digest |-> AlgorithmOid(Field(list, walk, 3)),
     scheme |-> signature_scheme(AlgorithmOid(Field(list, walk, 5))),
     signature |-> Field(list, walk, 6).octets,
     signed |-> IF Has(walk, 4) THEN Field(list, walk, 4).list ELSE <<>>,
     unsigned |-> IF Has(walk, 7) THEN Field(list, walk, 7).list ELSE <<>>,
     archive_fields |-> SubSeq(list, 1, walk.at[6])]

-----------------------------------------------------------------------------
(* The whole. *)

parse_certificates(list) ==
    list # <<>> /\ \A i \in DOMAIN list : list[i].tag = "SEQUENCE"

(* A CRL, an OCSP response, or another format with one value. *)
RevocationInfoReads(item) ==
    \/ item.tag = "SEQUENCE"
    \/ /\ item.tag = "[1]"
       /\ Len(item.list) = 2 /\ AllReadable(item.list)
       /\ item.list[1].tag = "OID" /\ item.list[1].octets # <<>>
       /\ item.list[1].octets = ID_RI_OCSP_RESPONSE => item.list[2].tag = "SEQUENCE"

parse_revocation_info(list) ==
    list # <<>> /\ \A i \in DOMAIN list : RevocationInfoReads(list[i])

EncapFields(item) == Walk(item.list, <<Must({"OID"}), May({"[0]"})>>)

EncapReads(item) ==
    /\ Whole(item.list, EncapFields(item))
    /\ item.list[1].octets # <<>>
    /\ Len(item.list) = 2 => parse_exact(item.list[2].list, "OCTET STRING")

BodyFields(list) ==
    Walk(list, <<Must({"INTEGER"}), Must({"SET"}), Must({"SEQUENCE"}), May({"[0]"}), May({"[1]"}),
                 Must({"SET"})>>)

BodyReads(list, walk) ==
    /\ Whole(list, walk)
    /\ Field(list, walk, 1).octets # <<>>
    /\ DigestAlgorithmsRead(Field(list, walk, 2).list)
    /\ EncapReads(Field(list, walk, 3))
    /\ Has(walk, 4) => parse_certificates(Field(list, walk, 4).list)
    /\ Has(walk, 5) => parse_revocation_info(Field(list, walk, 5).list)
    /\ parse_exact(Field(list, walk, 6).list, "SEQUENCE")
    /\ LET signer == Field(list, walk, 6).list[1].list
           econtent_type == Field(list, walk, 3).list[1].octets
       IN  /\ SignerReads(signer, SignerFields(signer), econtent_type)
           /\ \E i \in DOMAIN Field(list, walk, 2).list :
                AlgorithmOid(Field(list, walk, 2).list[i])
                  = AlgorithmOid(Field(signer, SignerFields(signer), 3))

(* A ContentInfo, or the SignedData body itself. *)
IsContentInfo(der) == der.list[1].tag = "OID"
decode_content_info(der) ==
    /\ Whole(der.list, Walk(der.list, <<Must({"OID"}), Must({"[0]"})>>))
    /\ der.list[1].octets = SIGNED_DATA
    /\ parse_exact(der.list[2].list, "SEQUENCE")

SignedBody(der) == IF IsContentInfo(der) THEN der.list[2].list[1].list ELSE der.list

SignedDataReads(der) ==
    /\ der.tag = "SEQUENCE"
    /\ der.list # <<>> /\ der.list[1].tag # "unreadable"
    /\ IsContentInfo(der) => decode_content_info(der)
    /\ BodyReads(SignedBody(der), BodyFields(SignedBody(der)))

ReadBody(list, walk) ==
    [econtent_type |-> Field(list, walk, 3).list[1].octets,
     econtent |-> IF Len(Field(list, walk, 3).list) = 2 THEN Field(list, walk, 3).list[2].list
                  ELSE <<>>,
     certificates |-> IF Has(walk, 4) THEN Field(list, walk, 4).list ELSE <<>>,
     revocation_info |-> IF Has(walk, 5) THEN Field(list, walk, 5).list ELSE <<>>,
     signer |-> parse_signer_info(Field(list, walk, 6).list[1].list,
                                  SignerFields(Field(list, walk, 6).list[1].list))]

SignedData(der) == ReadBody(SignedBody(der), BodyFields(SignedBody(der)))

-----------------------------------------------------------------------------
(* Judging it: content is a sequence of one item, or <<>> for none. *)

verify_over(genuine, signer, payload, spki) ==
    /\ signer.scheme = RSA_PKCS1 => extract_rsa_public_key(spki)
    /\ signer.scheme = ECDSA => extract_ec_pubkey(spki)
    /\ [over |-> payload, algorithm |-> <<signer.scheme>> \o signer.digest,
        bits |-> signer.signature, key |-> spki] \in genuine

SignedSet(signer) == Struct("SET", signer.signed)
SignedDigest(signer) == Values(Attributes(signer.signed, MESSAGE_DIGEST)[1])[1]

(* Content given beside attached content, or missing from both, is no content. *)
JudgedContent(sd, content) ==
    IF content = <<>> THEN sd.econtent ELSE IF sd.econtent = <<>> THEN content ELSE <<>>

judge(genuine, sd, spki, content) ==
    LET judged == JudgedContent(sd, content)
        over == judged # <<>> /\ verify_over(genuine, sd.signer, judged[1], spki)
    IN  IF sd.signer.signed # <<>>
        THEN [content_intact |-> judged # <<>>
                /\ Digest(sd.signer.digest, judged[1]) = SignedDigest(sd.signer),
              signature |-> verify_over(genuine, sd.signer, SignedSet(sd.signer), spki)]
        ELSE [content_intact |-> over, signature |-> over]

verify(genuine, sd, spki) ==
    /\ sd.econtent # <<>>
    /\ sd.signer.signed # <<>> =>
         Digest(sd.signer.digest, sd.econtent[1]) = SignedDigest(sd.signer)
    /\ verify_over(genuine, sd.signer,
                   IF sd.signer.signed # <<>> THEN SignedSet(sd.signer) ELSE sd.econtent[1], spki)
=============================================================================
