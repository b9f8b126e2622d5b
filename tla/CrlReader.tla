------------------------------ MODULE CrlReader ------------------------------
(***************************************************************************)
(* Reading a certificate revocation list (doc-sign/src/crl.rs), proving    *)
(* who signed it, and looking a certificate up in it                       *)
(* (doc-sign/src/revocation.rs, check_against_crl).  The lists' entries    *)
(* and extensions are decoded by an external library, whose results are    *)
(* RevokedCert and Extensions below.                                       *)
(***************************************************************************)
EXTENDS X509Cert

CRL_VERSION_2 == 1
DELTA_CRL_INDICATOR == <<41>>
ISSUING_DISTRIBUTION_POINT == <<42>>
OID_CRL_REASONS == <<43>>
KEY_COMPROMISE == 1
REMOVE_FROM_CRL == 8

NoTime == -1
NoReason == -1

(* The reason codes that exist; 7 is not assigned. *)
CrlReason(code) == IF code \in (0 .. 10) \ {7} THEN code ELSE NoReason

-----------------------------------------------------------------------------
(* The external decoder of extensions and of the entries of a list. *)

Extension(ext) ==
    /\ ext.tag = "SEQUENCE"
    /\ Whole(ext.list, ExtensionFields(ext))
    /\ Len(ext.list) = 3 => ext.list[2].octets \in {<<0>>, <<255>>}

Extensions(list) ==
    parse_exact(list, "SEQUENCE") /\ \A i \in DOMAIN list[1].list : Extension(list[1].list[i])

Critical(ext) == Len(ext.list) = 3 /\ ext.list[2].octets = <<255>>

RevokedCert(entry) ==
    /\ entry.tag = "SEQUENCE"
    /\ Len(entry.list) \in 2 .. 3
    /\ entry.list[1].tag = "INTEGER"
    /\ IsTime(entry.list[2])
    /\ Len(entry.list) = 3 => Extensions(<<entry.list[3]>>)

EntryExtensions(entry) == IF Len(entry.list) = 3 THEN entry.list[3].list ELSE <<>>

-----------------------------------------------------------------------------
(* No list that is partial (a delta) or scoped, and nothing critical that is unknown. *)
check_crl_extensions(field) ==
    /\ Extensions(field.list)
    /\ \A i \in DOMAIN field.list[1].list :
         LET ext == field.list[1].list[i]
         IN  ExtensionOid(ext) \notin {DELTA_CRL_INDICATOR, ISSUING_DISTRIBUTION_POINT}
               /\ ~Critical(ext)

check_revoked_entries(entries, is_v2) ==
    \A i \in DOMAIN entries :
      /\ RevokedCert(entries[i])
      /\ is_v2 \/ Len(entries[i].list) = 2
      /\ \A j \in DOMAIN EntryExtensions(entries[i]) :
           LET ext == EntryExtensions(entries[i])[j]
           IN  ~Critical(ext) \/ ExtensionOid(ext) = OID_CRL_REASONS

(* The trailing fields in their order; each at most once. *)
TrailingField(field) ==
    CASE field.tag \in {"UTCTime", "GeneralizedTime"} -> 1
      [] field.tag = "SEQUENCE" -> 2
      [] field.tag = "[0]" -> 3
      [] OTHER -> 0

TrailingReads(field, is_v2) ==
    CASE TrailingField(field) = 1 -> IsTime(field)
      [] TrailingField(field) = 2 -> check_revoked_entries(field.list, is_v2)
      [] TrailingField(field) = 3 -> is_v2 /\ check_crl_extensions(field)
      [] OTHER -> FALSE

IsV2(fields) == fields # <<>> /\ fields[1].tag = "INTEGER"
(* The fields after an optional version. *)
Numbered(fields) == IF IsV2(fields) THEN Tail(fields) ELSE fields

TbsCertListReads(tbs) ==
    LET fields == Numbered(tbs.list)
    IN  /\ tbs.tag = "SEQUENCE"
        /\ AllReadable(tbs.list)
        /\ IsV2(tbs.list) => tbs.list[1].octets = <<CRL_VERSION_2>>
        /\ Len(fields) >= 3
        /\ IsName(fields[2])
        /\ IsTime(fields[3])
        /\ \A i \in 4 .. Len(fields) :
             /\ TrailingReads(fields[i], IsV2(tbs.list))
             /\ \A j \in 4 .. i - 1 : TrailingField(fields[j]) < TrailingField(fields[i])

Trail(fields, kind) == {i \in 4 .. Len(fields) : TrailingField(fields[i]) = kind}

parse_tbs_cert_list(tbs) ==
    LET fields == Numbered(tbs.list)
    IN  [algorithm |-> fields[1], issuer |-> fields[2], this_update |-> fields[3].octets[1],
         next_update |-> IF Trail(fields, 1) = {} THEN NoTime
                         ELSE fields[Max(Trail(fields, 1))].octets[1],
         revoked |-> IF Trail(fields, 2) = {} THEN <<>> ELSE fields[Max(Trail(fields, 2))].list]

(* As for a certificate: the outer algorithm must be the signed one. *)
CrlReads(der) ==
    /\ der.tag = "SEQUENCE"
    /\ Len(der.list) >= 3
    /\ AllReadable(SubSeq(der.list, 1, 3))
    /\ AlgorithmReads(der.list[2]) /\ der.list[2].list[1].tag = "OID"
    /\ SignatureOctets(der.list[3])
    /\ TbsCertListReads(der.list[1])
    /\ parse_tbs_cert_list(der.list[1]).algorithm = der.list[2]

Crl(der) ==
    LET tbs == parse_tbs_cert_list(der.list[1])
    IN  [tbs |-> der.list[1], issuer |-> tbs.issuer, this_update |-> tbs.this_update,
         next_update |-> tbs.next_update, revoked |-> tbs.revoked,
         algorithm |-> AlgorithmOid(der.list[2]), bits |-> der.list[3].octets]

(* A list is proved by a CA certificate of its issuer that may sign lists. *)
VerifiedCrl(genuine, crl, issuer) ==
    /\ crl.issuer = issuer.subject
    /\ HasProfile(issuer)
    /\ ProfileOf(issuer).constraints.ca
    /\ ProfileOf(issuer).usage.present => crl_sign \in ProfileOf(issuer).usage.bits
    /\ verify_tbs_signature(genuine, crl.tbs, crl.algorithm, crl.bits, issuer.spki)

find_reason_code(extensions) ==
    LET reasons == {i \in DOMAIN extensions : ExtensionOid(extensions[i]) = OID_CRL_REASONS}
        value == ExtensionValue(extensions[Min(reasons)])
    IN  IF reasons = {} THEN NoReason
        ELSE IF parse_exact(value, "ENUMERATED") /\ Len(value[1].octets) = 1
        THEN CrlReason(value[1].octets[1])
        ELSE NoReason

(* The first entry of the serial number. *)
find_serial(crl, serial) ==
    {i \in DOMAIN crl.revoked : crl.revoked[i].list[1].octets = serial
       /\ \A j \in 1 .. i - 1 : crl.revoked[j].list[1].octets # serial}

-----------------------------------------------------------------------------
(* What an evidence says of a certificate at a time. *)
Says(status) == [status |-> status, at |-> NoTime, reason |-> NoReason]
Revoked(at, reason) == [status |-> "revoked", at |-> at, reason |-> reason]

RevokedBy(entry) ==
    Revoked(entry.list[2].octets[1], find_reason_code(EntryExtensions(entry)))

check_against_crl(certificate, crl, now) ==
    IF crl.issuer # certificate.issuer THEN Says("inapplicable")
    ELSE IF now < crl.this_update THEN Says("not yet valid")
    ELSE IF crl.next_update # NoTime /\ now > crl.next_update THEN Says("stale")
    ELSE IF find_serial(crl, certificate.serial) = {} THEN Says("good")
    ELSE RevokedBy(crl.revoked[Min(find_serial(crl, certificate.serial))])
=============================================================================
