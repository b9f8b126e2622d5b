---------------------------- MODULE TimestampToken ----------------------------
(***************************************************************************)
(* RFC 3161 timestamps (doc-sign/src/timestamp.rs): the request, the       *)
(* response around a token, the TSTInfo the token signs, the certificate   *)
(* that signed it, and the signed attribute that binds that certificate.   *)
(* A digest under an algorithm is the OCTET STRING Digest(algorithm, x).   *)
(***************************************************************************)
EXTENDS CmsReader

TST_INFO == <<71>>
SIGNING_CERTIFICATE == <<72>>
SIGNING_CERTIFICATE_V2 == <<73>>
SUBJECT_KEY_IDENTIFIER == <<74>>
SUBJECT_ALT_NAME == <<75>>
DIRECTORY_NAME == "[4]"
RFC822_NAME == "[1]p"
STATUS_GRANTED == 0
STATUS_GRANTED_WITH_MODS == 1
VERSION_V1 == 1
MAX_UNSIGNED_OCTETS == 8

EssHashes == {OID_SHA1, OID_SHA256, OID_SHA384, OID_SHA512}

(* A non-negative INTEGER in its shortest form. *)
nonnegative_der_integer(octets) ==
    /\ octets # <<>>
    /\ octets[1] < 128
    /\ Len(octets) > 1 /\ octets[1] = 0 => octets[2] >= 128

(* ... that fits 64 bits; its value matters only as zero, one or more. *)
unsigned_integer(octets) ==
    /\ nonnegative_der_integer(octets)
    /\ Len(octets) <= MAX_UNSIGNED_OCTETS + (IF octets[1] = 0 THEN 1 ELSE 0)

(* The shortest encoding of a nonce. *)
positive_integer(octets) ==
    LET nonzero == {i \in DOMAIN octets : octets[i] # 0}
        magnitude == SubSeq(octets, Min(nonzero), Len(octets))
    IN  IF nonzero = {} THEN <<0>>
        ELSE IF magnitude[1] >= 128 THEN <<0>> \o magnitude ELSE magnitude

(* The request for a digest under an algorithm. *)
request(algorithm, hashed, nonce, request_certificate) ==
    Struct("SEQUENCE",
      <<Prim("INTEGER", <<VERSION_V1>>),
        Struct("SEQUENCE", <<Struct("SEQUENCE", <<Prim("OID", algorithm), Prim("NULL", <<>>)>>), hashed>>)>>
      \o (IF nonce = NoNonce THEN <<>> ELSE <<Prim("INTEGER", positive_integer(nonce))>>)
      \o (IF request_certificate THEN <<Prim("BOOLEAN", <<255>>)>> ELSE <<>>))

-----------------------------------------------------------------------------
(***************************************************************************)
(* The extensions of a TSA certificate, and those of a TSTInfo, where a    *)
(* critical flag may be stated FALSE.                                      *)
(***************************************************************************)
IsMailbox(item) == item.tag = RFC822_NAME /\ item.octets # <<>>

parse_subject_alt_names(value, critical) ==
    /\ parse_exact(value, "SEQUENCE")
    /\ value[1].list # <<>> /\ AllReadable(value[1].list)
    /\ \A i \in DOMAIN value[1].list :
         IF value[1].list[i].tag = RFC822_NAME THEN IsMailbox(value[1].list[i]) ELSE ~critical

(* Here cA, when stated, must be TRUE. *)
parse_basic_constraints(value) ==
    /\ parse_exact(value, "SEQUENCE")
    /\ LET fields == value[1].list
       IN  /\ Whole(fields, BasicConstraintsFields(fields))
           /\ \A i \in DOMAIN fields :
                IF fields[i].tag = "BOOLEAN" THEN fields[i].octets = <<255>>
                ELSE i = 2 /\ unsigned_integer(fields[i].octets)

TsaExtensionAccepted(oid, value, critical) ==
    CASE oid = SUBJECT_KEY_IDENTIFIER -> parse_exact(value, "OCTET STRING") /\ value[1].octets # <<>>
      [] oid = BASIC_CONSTRAINTS -> parse_basic_constraints(value)
      [] oid = KEY_USAGE -> KeyUsageReads(value)
      [] oid = EXT_KEY_USAGE -> ExtendedKeyUsageReads(value)
      [] oid = SUBJECT_ALT_NAME -> parse_subject_alt_names(value, critical)
      [] OTHER -> ~critical

parse_extensions_with_policy(list, explicit_false) ==
    /\ list # <<>>
    /\ \A i \in DOMAIN list :
         /\ list[i].tag = "SEQUENCE"
         /\ Whole(list[i].list, ExtensionFields(list[i]))
         /\ ExtensionOid(list[i]) # <<>>
         /\ Len(list[i].list) = 3 =>
              list[i].list[2].octets \in {<<255>>} \cup (IF explicit_false THEN {<<0>>} ELSE {})
         /\ TsaExtensionAccepted(ExtensionOid(list[i]), ExtensionValue(list[i]), Critical(list[i]))
         /\ \A j \in 1 .. i - 1 : ExtensionOid(list[j]) # ExtensionOid(list[i])

TsaExtensionsRead(list) == parse_extensions_with_policy(list, FALSE)

ValuesOf(list, oid) == {ExtensionValue(list[i]) : i \in Holding(list, oid)}

(* What the reader of TSA certificates answers of an accepted list. *)
parse_extensions(list) ==
    [subject_key_identifier |-> {value[1].octets : value \in ValuesOf(list, SUBJECT_KEY_IDENTIFIER)},
     ca |-> \E value \in ValuesOf(list, BASIC_CONSTRAINTS) : value[1].list # <<>>,
     usage |-> {UsageBits(Tail(value[1].octets)) : value \in ValuesOf(list, KEY_USAGE)},
     purposes |-> {value[1].list : value \in ValuesOf(list, EXT_KEY_USAGE)},
     purposes_critical |-> \E i \in Holding(list, EXT_KEY_USAGE) : Critical(list[i]),
     mailboxes |-> UNION {{name \in ToSet(value[1].list) : name.tag = RFC822_NAME} :
                            value \in ValuesOf(list, SUBJECT_ALT_NAME)}]

(* Valid when the token was made, no CA, and for timestamping alone. *)
tsa_certificate_is_usable(certificate, gen_time) ==
    /\ valid_at(certificate, gen_time)
    /\ certificate.extensions # <<>>
    /\ TsaExtensionsRead(certificate.extensions[1])
    /\ LET read == parse_extensions(certificate.extensions[1])
       IN  /\ ~read.ca
           /\ read.purposes = {<<Prim("OID", KP_TIME_STAMPING)>>} /\ read.purposes_critical
           /\ \A bits \in read.usage : /\ bits \cap {digital_signature, non_repudiation} # {}
                                       /\ bits \cap {key_cert_sign, crl_sign} = {}

-----------------------------------------------------------------------------
(* TSTInfo. *)

parse_accuracy(list) ==
    LET walk == Walk(list, <<May({"INTEGER"}), May({"[0]p"}), May({"[1]p"})>>)
        MilliOrMicro(octets) == \/ Len(octets) = 1
                                \/ Len(octets) = 2 /\ octets[1] * 256 + octets[2] <= 999
    IN  /\ list # <<>> /\ Whole(list, walk)
        /\ \A i \in DOMAIN list : unsigned_integer(list[i].octets) /\ list[i].octets # <<0>>
        /\ \A k \in 2 .. 3 : Has(walk, k) => MilliOrMicro(Field(list, walk, k).octets)

TsaNameReads(list) ==
    /\ Len(list) = 1
    /\ \/ list[1].tag = DIRECTORY_NAME /\ parse_exact(list[1].list, "SEQUENCE")
       \/ IsMailbox(list[1])

TstFields(list) ==
    Walk(list, <<Must({"INTEGER"}), Must({"OID"}), Must({"SEQUENCE"}), Must({"INTEGER"}),
                 Must({"GeneralizedTime"}), May({"SEQUENCE"}), May({"BOOLEAN"}), May({"INTEGER"}),
                 May({"[0]"}), May({"[1]"})>>)

(* A hash algorithm without parameters or with NULL, and the hash. *)
parse_message_imprint(list) ==
    /\ Whole(list, Walk(list, <<Must({"SEQUENCE"}), Must({"OCTET STRING"})>>))
    /\ AlgorithmIdentifierReads(list[1]) /\ check_parameters(list[1], TRUE)

TstInfoReads(content, walk) ==
    /\ Whole(content, walk)
    /\ content[1].octets = <<VERSION_V1>>
    /\ content[2].octets # <<>>
    /\ parse_message_imprint(content[3].list)
    /\ nonnegative_der_integer(content[4].octets)
    /\ Len(content[5].octets) = 1
    /\ Has(walk, 6) => parse_accuracy(Field(content, walk, 6).list)
    /\ Has(walk, 7) => Field(content, walk, 7).octets = <<255>>
    /\ Has(walk, 8) => nonnegative_der_integer(Field(content, walk, 8).octets)
    /\ Has(walk, 9) => TsaNameReads(Field(content, walk, 9).list)
    /\ Has(walk, 10) => parse_extensions_with_policy(Field(content, walk, 10).list, TRUE)

parse_tst_info(content, walk) ==
    [imprint_algorithm |-> AlgorithmOid(content[3].list[1]),
     message_imprint |-> content[3].list[2], gen_time |-> content[5].octets[1],
     nonce |-> IF Has(walk, 8) THEN Field(content, walk, 8).octets ELSE NoNonce,
     tsa |-> IF Has(walk, 9) THEN Field(content, walk, 9).list ELSE <<>>]

(* A token is a SignedData over a TSTInfo, with signed attributes. *)
TokenReads(der) ==
    /\ SignedDataReads(der)
    /\ LET sd == SignedData(der)
       IN  /\ sd.econtent_type = TST_INFO
           /\ sd.signer.signed # <<>>
           /\ sd.econtent # <<>> /\ parse_exact(sd.econtent[1].list, "SEQUENCE")
           /\ TstInfoReads(sd.econtent[1].list[1].list, TstFields(sd.econtent[1].list[1].list))

parse_token(sd) ==
    parse_tst_info(sd.econtent[1].list[1].list, TstFields(sd.econtent[1].list[1].list))

claimed_generation_time(der) ==
    IF TokenReads(der) THEN parse_token(SignedData(der)).gen_time ELSE NoTime

-----------------------------------------------------------------------------
(* The signer's certificate. *)

(* By key identifier the extensions must be readable: a refusal refuses the token. *)
SidReads(certificate, sid) ==
    sid.tag = "SEQUENCE" \/ certificate.extensions = <<>> \/ TsaExtensionsRead(certificate.extensions[1])

certificate_matches_sid(certificate, sid) ==
    IF sid.tag = "SEQUENCE"
    THEN certificate.issuer = sid.list[1] /\ certificate.serial = sid.list[2].octets
    ELSE /\ certificate.extensions # <<>>
         /\ sid.octets \in parse_extensions(certificate.extensions[1]).subject_key_identifier

parseable_embedded_certificates(sd) ==
    {from_der(der) : der \in {d \in ToSet(sd.certificates) : CertificateReads(d)}}

(* The certificates the identifier selects: usable only when there is exactly one. *)
select_signer_certificate(sd) ==
    LET parsed == parseable_embedded_certificates(sd)
    IN  IF \E certificate \in parsed : ~SidReads(certificate, sd.signer.sid) THEN {}
        ELSE {certificate \in parsed : certificate_matches_sid(certificate, sd.signer.sid)}

tsa_name_matches_certificate(name, certificate) ==
    IF name.tag = DIRECTORY_NAME THEN name.list[1] = certificate.subject
    ELSE /\ certificate.extensions # <<>>
         /\ TsaExtensionsRead(certificate.extensions[1])
         /\ name \in parse_extensions(certificate.extensions[1]).mailboxes

-----------------------------------------------------------------------------
(* The ESS attribute, version 1 (SHA-1) or 2: its first reference is the signer's. *)

validate_issuer_serial(item) ==
    /\ Whole(item.list, Walk(item.list, <<Must({"SEQUENCE"}), Must({"INTEGER"})>>))
    /\ item.list[1].list # <<>> /\ AllReadable(item.list[1].list)
    /\ \A name \in ToSet(item.list[1].list) :
         name.tag = DIRECTORY_NAME => parse_exact(name.list, "SEQUENCE")
    /\ nonnegative_der_integer(item.list[2].octets)

issuer_serial_matches(item, certificate) ==
    /\ Struct(DIRECTORY_NAME, <<certificate.issuer>>) \in ToSet(item.list[1].list)
    /\ item.list[2].octets = certificate.serial

EssFields(list, v2) ==
    Walk(list, <<IF v2 THEN May({"SEQUENCE"}) ELSE May({}), Must({"OCTET STRING"}), May({"SEQUENCE"})>>)

EssReferenceReads(item, v2) ==
    LET walk == EssFields(item.list, v2)
    IN  /\ item.tag = "SEQUENCE"
        /\ Whole(item.list, walk)
        /\ Has(walk, 1) => /\ AlgorithmIdentifierReads(item.list[1])
                           /\ check_parameters(item.list[1], TRUE)
                           /\ AlgorithmOid(item.list[1]) \in EssHashes
        /\ Field(item.list, walk, 2) # Prim("OCTET STRING", <<>>)
        /\ Has(walk, 3) => validate_issuer_serial(Field(item.list, walk, 3))

(* Mutant: only the optional issuer and serial number are compared. *)
EssIssuerMatches(item, v2, certificate) ==
    LET walk == EssFields(item.list, v2)
    IN  Has(walk, 3) => issuer_serial_matches(Field(item.list, walk, 3), certificate)

EssReferenceMatches(item, v2, certificate) ==
    LET walk == EssFields(item.list, v2)
        hash == IF Has(walk, 1) THEN AlgorithmOid(item.list[1])
                ELSE IF v2 THEN OID_SHA256 ELSE OID_SHA1
    IN  /\ Field(item.list, walk, 2) = Digest(hash, certificate.raw)
        /\ Has(walk, 3) => issuer_serial_matches(Field(item.list, walk, 3), certificate)

EssValueBinds(value, v2, certificate) ==
    /\ Whole(value.list, Walk(value.list, <<Must({"SEQUENCE"}), May({"SEQUENCE"})>>))
    /\ value.list[1].list # <<>>
    /\ \A i \in DOMAIN value.list[1].list : EssReferenceReads(value.list[1].list[i], v2)
    /\ EssReferenceMatches(value.list[1].list[1], v2, certificate)
    /\ Len(value.list) = 2 =>
         value.list[2].list # <<>> /\ \A policy \in ToSet(value.list[2].list) : policy.tag = "SEQUENCE"

verify_signing_certificate_attribute(sd, certificate) ==
    LET v1 == Attributes(sd.signer.signed, SIGNING_CERTIFICATE)
        v2 == Attributes(sd.signer.signed, SIGNING_CERTIFICATE_V2)
    IN  /\ Len(v1) + Len(v2) = 1
        /\ parse_exact(Values((v1 \o v2)[1]), "SEQUENCE")
        /\ EssValueBinds(Values((v1 \o v2)[1])[1], v1 = <<>>, certificate)

-----------------------------------------------------------------------------
(* Accepting a token, and a response that carries one. *)

authenticate_signer(genuine, sd, tst) ==
    LET selected == select_signer_certificate(sd)
    IN  /\ Cardinality(selected) = 1
        /\ \A certificate \in selected :
             /\ tst.tsa # <<>> => tsa_name_matches_certificate(tst.tsa[1], certificate)
             /\ verify(genuine, sd, certificate.spki)
             /\ verify_signing_certificate_attribute(sd, certificate)
             /\ tsa_certificate_is_usable(certificate, tst.gen_time)

(* A stored token, against the digest its own algorithm gives. *)
verify_token(genuine, der, attested) ==
    /\ TokenReads(der)
    /\ LET tst == parse_token(SignedData(der))
       IN  /\ tst.imprint_algorithm \in HashAlgorithms
           /\ tst.message_imprint = Digest(tst.imprint_algorithm, attested)
           /\ authenticate_signer(genuine, SignedData(der), tst)

(* A fresh token, against the digest and the nonce of the request. *)
check_binding(genuine, der, algorithm, hashed, nonce) ==
    /\ TokenReads(der)
    /\ LET tst == parse_token(SignedData(der))
       IN  /\ tst.imprint_algorithm = algorithm /\ tst.message_imprint = hashed
           /\ nonce # NoNonce => tst.nonce = positive_integer(nonce)
           /\ authenticate_signer(genuine, SignedData(der), tst)

(* Whole octets, and zeros where the first octet says bits are unused. *)
validate_bit_string(octets) ==
    /\ octets # <<>>
    /\ octets[1] <= 7
    /\ IF Len(octets) = 1 THEN octets[1] = 0
       ELSE \A k \in 0 .. octets[1] - 1 : ~BitSet(Last(octets), k)

(* A status, optional texts, optional failure bits. *)
parse_status_info(item) ==
    /\ item.tag = "SEQUENCE"
    /\ Whole(item.list, Walk(item.list, <<Must({"INTEGER"}), May({"SEQUENCE"}), May({"BIT STRING"})>>))
    /\ unsigned_integer(item.list[1].octets)
    /\ \A i \in 2 .. Len(item.list) :
         IF item.list[i].tag = "SEQUENCE"
         THEN item.list[i].list # <<>> /\ \A text \in ToSet(item.list[i].list) : text.tag = "UTF8String"
         ELSE validate_bit_string(item.list[i].octets)

verified_token(genuine, response, algorithm, hashed, nonce) ==
    /\ response.tag = "SEQUENCE"
    /\ Len(response.list) = 2 /\ AllReadable(response.list)
    /\ parse_status_info(response.list[1])
    /\ response.list[1].list[1].octets \in {<<STATUS_GRANTED>>, <<STATUS_GRANTED_WITH_MODS>>}
    /\ check_binding(genuine, response.list[2], algorithm, hashed, nonce)
=============================================================================
