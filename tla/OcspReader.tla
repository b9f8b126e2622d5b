----------------------------- MODULE OcspReader -----------------------------
(***************************************************************************)
(* Reading an OCSP response (doc-sign/src/ocsp.rs), authorizing the one    *)
(* who signed it, and looking a certificate up in it                       *)
(* (doc-sign/src/revocation.rs, check_against_ocsp_response).              *)
(***************************************************************************)
EXTENDS CrlReader

OID_SHA1 == <<51>>
OID_SHA256 == <<52>>
BASIC_OCSP_RESPONSE == <<53>>
OID_OCSP_NONCE == <<54>>
MAX_NONCE_LEN == 32
NoNonce == <<>>

IsGeneralizedTime(list) ==
    parse_exact(list, "GeneralizedTime") /\ Len(list[1].octets) = 1

-----------------------------------------------------------------------------
(* One response: a CertID, a status and its time; the tail is searched for [0]. *)

CertIdReads(item) ==
    /\ item.tag = "SEQUENCE"
    /\ Len(item.list) >= 4 /\ AllReadable(SubSeq(item.list, 1, 4))
    /\ item.list[1].tag = "SEQUENCE"
    /\ item.list[1].list # <<>> /\ item.list[1].list[1].tag = "OID"
    /\ item.list[2].tag = "OCTET STRING" /\ item.list[3].tag = "OCTET STRING"
    /\ item.list[4].tag = "INTEGER"

parse_cert_id(item) ==
    [hash |-> item.list[1].list[1].octets, issuer_name_hash |-> item.list[2],
     issuer_key_hash |-> item.list[3], serial |-> item.list[4].octets]

(* A revocation has its time first and may carry a reason; the last one counts. *)
ReasonFields(list) == {i \in 2 .. Len(list) : list[i].tag = "[0]"}

CertStatusReads(item) ==
    CASE item.tag = "[1]" ->
           /\ item.list # <<>> /\ IsGeneralizedTime(<<item.list[1]>>)
           /\ AllReadable(item.list)
           /\ \A i \in ReasonFields(item.list) :
                Len(item.list[i].list) = 1 /\ AllReadable(item.list[i].list)
      [] OTHER -> item.tag # "unreadable"

ReasonOf(list) ==
    IF ReasonFields(list) = {} THEN NoReason
    ELSE LET code == list[Max(ReasonFields(list))].list[1].octets
         IN  IF code = <<>> THEN NoReason ELSE CrlReason(code[1])

parse_cert_status(item) ==
    CASE item.tag = "[0]p" -> Says("good")
      [] item.tag = "[1]" -> Revoked(item.list[1].octets[1], ReasonOf(item.list))
      [] OTHER -> Says("unknown")

NextUpdates(list) == {i \in 4 .. Len(list) : list[i].tag = "[0]"}

SingleResponseReads(item) ==
    /\ item.tag = "SEQUENCE"
    /\ Len(item.list) >= 3 /\ AllReadable(item.list)
    /\ CertIdReads(item.list[1])
    /\ CertStatusReads(item.list[2])
    /\ IsGeneralizedTime(<<item.list[3]>>)
    /\ \A i \in NextUpdates(item.list) : IsGeneralizedTime(item.list[i].list)

parse_single_response(item) ==
    [cert_id |-> parse_cert_id(item.list[1]), status |-> parse_cert_status(item.list[2]),
     this_update |-> item.list[3].octets[1],
     next_update |-> IF NextUpdates(item.list) = {} THEN NoTime
                     ELSE item.list[Max(NextUpdates(item.list))].list[1].octets[1]]

-----------------------------------------------------------------------------
(* The signed part of a basic response. *)

parse_version(item) ==
    parse_exact(item.list, "INTEGER") /\ item.list[1].octets = <<0>>

ResponderIdReads(item) ==
    CASE item.tag = "[1]" -> Len(item.list) = 1 /\ IsName(item.list[1])
      [] item.tag = "[2]" -> parse_exact(item.list, "OCTET STRING")
                               /\ item.list[1].octets = OID_SHA1
      [] OTHER -> FALSE

(* An inner OCTET STRING is unwrapped; a bare value is the nonce itself. *)
NonceOctets(value) ==
    IF value.list # <<>> THEN value.list[1].octets ELSE value.octets

NonceReads(value) ==
    /\ value.list # <<>> => parse_exact(value.list, "OCTET STRING")
    /\ Len(NonceOctets(value)) \in 1 .. MAX_NONCE_LEN

NonceExtensions(list) == {i \in DOMAIN list : ExtensionOid(list[i]) = OID_OCSP_NONCE}

ResponseExtensionsRead(value) ==
    /\ parse_exact(value, "SEQUENCE")
    /\ \A i \in DOMAIN value[1].list :
         LET ext == value[1].list[i]
         IN  /\ ext.tag = "SEQUENCE"
             /\ Whole(ext.list, ExtensionFields(ext))
             /\ Len(ext.list) = 3 => ext.list[2].octets = <<255>>
             /\ IF ExtensionOid(ext) = OID_OCSP_NONCE THEN NonceReads(Last(ext.list))
                ELSE ~ExtensionCritical(ext)
    /\ Cardinality(NonceExtensions(value[1].list)) <= 1

nonce_from_extensions(list) ==
    IF NonceExtensions(list) = {} THEN NoNonce
    ELSE NonceOctets(Last(list[Min(NonceExtensions(list))].list))

(* responderID, producedAt, responses and optional extensions, after an optional version. *)
Versioned(fields) ==
    IF fields # <<>> /\ fields[1].tag = "[0]" THEN Tail(fields) ELSE fields

ResponseDataReads(tbs) ==
    LET fields == Versioned(tbs.list)
    IN  /\ tbs.tag = "SEQUENCE"
        /\ fields # tbs.list => parse_version(tbs.list[1])
        /\ Len(fields) \in 3 .. 4 /\ AllReadable(fields)
        /\ ResponderIdReads(fields[1])
        /\ IsGeneralizedTime(<<fields[2]>>)
        /\ fields[3].tag = "SEQUENCE" /\ fields[3].list # <<>>
        /\ \A i \in DOMAIN fields[3].list :
             /\ SingleResponseReads(fields[3].list[i])
             /\ parse_cert_status(fields[3].list[i].list[2]).at <= fields[2].octets[1]
             /\ \A j \in 1 .. i - 1 : fields[3].list[j].list[1] # fields[3].list[i].list[1]
        /\ Len(fields) = 4 => fields[4].tag = "[1]" /\ ResponseExtensionsRead(fields[4].list)

parse_response_data(tbs) ==
    LET fields == Versioned(tbs.list)
    IN  [responder_id |-> fields[1], produced_at |-> fields[2].octets[1],
         responses |-> [i \in DOMAIN fields[3].list |-> parse_single_response(fields[3].list[i])],
         nonce |-> IF Len(fields) = 4 THEN nonce_from_extensions(fields[4].list[1].list)
                   ELSE NoNonce]

(* What may follow the signature: certificates in [0]; any other field is passed over. *)
EmbeddedRead(list) ==
    Len(list) > 3 =>
      /\ list[4].tag # "unreadable"
      /\ list[4].tag = "[0]" => Len(list[4].list) = 1 /\ AllReadable(list[4].list)
                                  /\ AllReadable(list[4].list[1].list)
Embedded(list) ==
    IF Len(list) > 3 /\ list[4].tag = "[0]" THEN list[4].list[1].list ELSE <<>>

BasicReads(value) ==
    /\ parse_exact(value, "SEQUENCE")
    /\ Len(value[1].list) >= 3 /\ AllReadable(SubSeq(value[1].list, 1, 3))
    /\ AlgorithmReads(value[1].list[2]) /\ value[1].list[2].list[1].tag = "OID"
    /\ SignatureOctets(value[1].list[3])
    /\ EmbeddedRead(value[1].list)
    /\ ResponseDataReads(value[1].list[1])

BasicOcspResponse(list) ==
    LET data == parse_response_data(list[1])
    IN  [responder_id |-> data.responder_id, produced_at |-> data.produced_at,
         responses |-> data.responses, nonce |-> data.nonce, tbs |-> list[1],
         algorithm |-> AlgorithmOid(list[2]), bits |-> list[3].octets,
         embedded |-> Embedded(list)]

-----------------------------------------------------------------------------
(* The response around it: a status, and for a successful one the bytes. *)

IsBasic(bytes) ==
    bytes.list # <<>> /\ bytes.list[1].tag = "OID"
      /\ bytes.list[1].octets = BASIC_OCSP_RESPONSE

Successful(der) == der.list[1].octets = <<0>>
HasBytes(der) == Successful(der) /\ Len(der.list) > 1 /\ der.list[2].tag = "[0]"

OcspResponseReads(der) ==
    /\ der.tag = "SEQUENCE"
    /\ der.list # <<>> /\ der.list[1].tag = "ENUMERATED" /\ Len(der.list[1].octets) = 1
    /\ Successful(der) /\ Len(der.list) > 1 => der.list[2].tag # "unreadable"
    /\ HasBytes(der) =>
         /\ Len(der.list[2].list) = 1 /\ AllReadable(der.list[2].list)
         /\ LET bytes == der.list[2].list[1]
            IN  /\ bytes.list # <<>> /\ bytes.list[1].tag # "unreadable"
                /\ IsBasic(bytes) => /\ Len(bytes.list) > 1
                                     /\ bytes.list[2].tag = "OCTET STRING"
                                     /\ BasicReads(bytes.list[2].list)

HasBasic(der) == HasBytes(der) /\ IsBasic(der.list[2].list[1])
Basic(der) == BasicOcspResponse(der.list[2].list[1].list[2].list[1].list)

-----------------------------------------------------------------------------
(* Who may sign it. *)

matches_certificate(responder_id, certificate) ==
    IF responder_id.tag = "[1]" THEN responder_id.list[1] = certificate.subject
    ELSE responder_id.list[1] = Digest(OID_SHA1, KeyBits(certificate.spki))

authorize_responder_extensions(profile) ==
    /\ ~profile.constraints.ca
    /\ ~profile.name_constraints_present
    /\ KP_OCSP_SIGNING \in profile.purposes
    /\ profile.usage.present => digital_signature \in profile.usage.bits
    /\ profile.ocsp_no_check_present

authorize_signer(genuine, signer, issuer, produced_at) ==
    /\ valid_at(signer, produced_at)
    /\ \/ signer.raw = issuer.raw
       \/ /\ signer.issuer = issuer.subject
          /\ verify_signed_by(genuine, signer, issuer)
          /\ HasProfile(signer)
          /\ authorize_responder_extensions(ProfileOf(signer))

VerifiedOcspResponse(genuine, basic, signer, issuer) ==
    /\ matches_certificate(basic.responder_id, signer)
    /\ verify_tbs_signature(genuine, basic.tbs, basic.algorithm, basic.bits, signer.spki)
    /\ authorize_signer(genuine, signer, issuer, basic.produced_at)

(* The entry whose CertID names this certificate under its issuer. *)
Names(cert_id, certificate, issuer) ==
    /\ cert_id.hash \in {OID_SHA1, OID_SHA256}
    /\ certificate.issuer = issuer.subject
    /\ cert_id.issuer_name_hash = Digest(cert_id.hash, issuer.subject)
    /\ cert_id.issuer_key_hash = Digest(cert_id.hash, KeyBits(issuer.spki))
    /\ cert_id.serial = certificate.serial

response_for(basic, certificate, issuer) ==
    {i \in DOMAIN basic.responses :
       /\ Names(basic.responses[i].cert_id, certificate, issuer)
       /\ \A j \in 1 .. i - 1 : ~Names(basic.responses[j].cert_id, certificate, issuer)}

check_single(single, now) ==
    IF now < single.this_update THEN Says("not yet valid")
    ELSE IF single.next_update # NoTime /\ now > single.next_update THEN Says("stale")
    ELSE single.status

check_against_ocsp_response(certificate, basic, issuer, now) ==
    LET found == response_for(basic, certificate, issuer)
    IN  IF found = {} THEN Says("inapplicable")
        ELSE check_single(basic.responses[Min(found)], now)

-----------------------------------------------------------------------------
(* The request, whose CertID uses SHA-1, and the answer a responder owes it. *)
CertIdOf(certificate, issuer) ==
    Struct("SEQUENCE",
      <<Struct("SEQUENCE", <<Prim("OID", OID_SHA1), Prim("NULL", <<>>)>>),
        Digest(OID_SHA1, certificate.issuer), Digest(OID_SHA1, KeyBits(issuer.spki)),
        Prim("INTEGER", certificate.serial)>>)

NonceExtension(nonce) ==
    Struct("SEQUENCE", <<Prim("OID", OID_OCSP_NONCE),
                         Struct("OCTET STRING", <<Prim("OCTET STRING", nonce)>>)>>)

encode_request(certificate, issuer, nonce) ==
    Struct("SEQUENCE", <<Struct("SEQUENCE",
      <<Struct("SEQUENCE", <<Struct("SEQUENCE", <<CertIdOf(certificate, issuer)>>)>>)>>
      \o (IF nonce = NoNonce THEN <<>>
          ELSE <<Struct("[2]", <<Struct("SEQUENCE", <<NonceExtension(nonce)>>)>>)>>))>>)
=============================================================================
