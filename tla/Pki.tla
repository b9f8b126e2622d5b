--------------------------------- MODULE Pki ---------------------------------
(***************************************************************************)
(* The parties the evidence comes from, as their protocols describe them:  *)
(* two certification authorities, a delegated OCSP responder, a time       *)
(* stamping authority, the holder of a card and another subscriber.  They  *)
(* are outside the repository; what they sign is built here, and signing   *)
(* adds a record to the genuine signatures.                                *)
(***************************************************************************)
EXTENDS CadesReader, StatusCheck

SHA256_WITH_RSA == <<31>>
Seq1(list) == Struct("SEQUENCE", list)
Oid(octets) == Prim("OID", octets)
Null == Prim("NULL", <<>>)
Time(t) == Prim("GeneralizedTime", <<t>>)
RsaSha256 == Seq1(<<Oid(SHA256_WITH_RSA), Null>>)

NameNumber(n) == Seq1(<<Prim("UTF8String", <<n>>)>>)
Key(k) == Seq1(<<Seq1(<<Oid(RSA_ENCRYPTION), Null>>),
                 [tag |-> "BIT STRING", octets |-> <<0>>,
                  list |-> <<Seq1(<<Prim("INTEGER", <<k>>), Prim("INTEGER", <<3>>)>>)>>]>>)

Flagged(oid, value) == Seq1(<<Oid(oid), Prim("BOOLEAN", <<255>>), Struct("OCTET STRING", <<value>>)>>)
Plain(oid, value) == Seq1(<<Oid(oid), Struct("OCTET STRING", <<value>>)>>)
Usage(octet, unused) == Flagged(KEY_USAGE, Prim("BIT STRING", <<unused, octet>>))

CaExtensions == <<Flagged(BASIC_CONSTRAINTS, Seq1(<<Prim("BOOLEAN", <<255>>)>>)), Usage(6, 1)>>
SubjectExtensions == <<Usage(64, 6)>>
ResponderExtensions ==
    <<Usage(128, 7), Plain(EXT_KEY_USAGE, Seq1(<<Oid(KP_OCSP_SIGNING)>>)), Plain(OCSP_NO_CHECK, Null)>>
TsaExtensions ==
    <<Usage(128, 7), Flagged(EXT_KEY_USAGE, Seq1(<<Oid(KP_TIME_STAMPING)>>)),
      Plain(SUBJECT_KEY_IDENTIFIER, Prim("OCTET STRING", <<9>>))>>

Tbs(serial, issuer, subject, key, not_after, extensions) ==
    Seq1(<<Struct("[0]", <<Prim("INTEGER", <<2>>)>>), Prim("INTEGER", <<serial>>), RsaSha256,
           NameNumber(issuer), Seq1(<<Time(0), Time(not_after)>>), NameNumber(subject), Key(key),
           Struct("[3]", <<Seq1(extensions)>>)>>)

(* A SEQUENCE of what is signed, how, and the signature, numbered to be unlike others. *)
Signed(tbs, number) == Seq1(<<tbs, RsaSha256, Prim("BIT STRING", <<0, number>>)>>)
SignatureOn(tbs, number, key) ==
    [over |-> tbs, algorithm |-> SHA256_WITH_RSA, bits |-> <<0, number>>, key |-> Key(key)]

FAR == 9
CaTbs == Tbs(1, 1, 1, 11, FAR, CaExtensions)
OtherCaTbs == Tbs(1, 2, 2, 12, FAR, CaExtensions)
SubjectTbs == Tbs(5, 1, 3, 13, FAR, SubjectExtensions)
NeighbourTbs == Tbs(6, 1, 4, 14, FAR, SubjectExtensions)
ResponderTbs == Tbs(7, 1, 5, 15, FAR, ResponderExtensions)
TsaTbs == Tbs(8, 1, 6, 16, FAR, TsaExtensions)

CaDer == Signed(CaTbs, 1)
SubjectDer == Signed(SubjectTbs, 3)
NeighbourDer == Signed(NeighbourTbs, 4)
ResponderDer == Signed(ResponderTbs, 5)
TsaDer == Signed(TsaTbs, 6)
OtherCaDer == Signed(OtherCaTbs, 2)

Standing == {SignatureOn(CaTbs, 1, 11), SignatureOn(OtherCaTbs, 2, 12), SignatureOn(SubjectTbs, 3, 11),
             SignatureOn(NeighbourTbs, 4, 11), SignatureOn(ResponderTbs, 5, 11), SignatureOn(TsaTbs, 6, 11)}

Ca == from_der(CaDer)
Subject == from_der(SubjectDer)
Neighbour == from_der(NeighbourDer)
Tsa == from_der(TsaDer)

-----------------------------------------------------------------------------
(* What they issue.  since: when the subject was revoked, NoTime when it was not. *)

StatusItem(since, at) ==
    IF since = NoTime \/ since > at THEN Prim("[0]p", <<>>) ELSE Struct("[1]", <<Time(since)>>)

SingleResponse(certificate, since, this_update, next_update) ==
    Seq1(<<CertIdOf(certificate, Ca), StatusItem(since, this_update), Time(this_update)>>
         \o (IF next_update = NoTime THEN <<>> ELSE <<Struct("[0]", <<Time(next_update)>>)>>))

(* An answer about the subject, beside one about its neighbour. *)
OcspTbs(since, this_update, next_update, produced_at, nonce) ==
    Seq1(<<Struct("[1]", <<NameNumber(5)>>), Time(produced_at),
           Seq1(<<SingleResponse(Neighbour, NoTime, this_update, next_update),
                  SingleResponse(Subject, since, this_update, next_update)>>)>>
         \o (IF nonce = NoNonce THEN <<>> ELSE <<Struct("[1]", <<Seq1(<<NonceExtension(nonce)>>)>>)>>))

OcspDer(tbs, number) ==
    Seq1(<<Prim("ENUMERATED", <<0>>), Struct("[0]", <<Seq1(<<Oid(BASIC_OCSP_RESPONSE),
      Struct("OCTET STRING", <<Seq1(<<tbs, RsaSha256, Prim("BIT STRING", <<0, number>>),
                                      Struct("[0]", <<Seq1(<<ResponderDer>>)>>)>>)>>)>>)>>)>>)

CrlTbs(since, this_update, next_update) ==
    Seq1(<<Prim("INTEGER", <<1>>), RsaSha256, NameNumber(1), Time(this_update), Time(next_update)>>
         \o (IF since = NoTime \/ since > this_update THEN <<>>
             ELSE <<Seq1(<<Seq1(<<Prim("INTEGER", <<5>>), Time(since)>>)>>)>>))

(* A token over a hash, with the attribute that binds the authority's certificate. *)
TstInfo(hashed, gen_time, nonce) ==
    Seq1(<<Prim("INTEGER", <<1>>), Oid(<<70>>), Seq1(<<Seq1(<<Oid(OID_SHA256)>>), hashed>>),
           Prim("INTEGER", <<1>>), Time(gen_time)>>
         \o (IF nonce = NoNonce THEN <<>> ELSE <<Prim("INTEGER", positive_integer(nonce))>>))

TokenContent(tst) == Struct("OCTET STRING", <<tst>>)
TokenAttributes(tst) ==
    <<attribute(CONTENT_TYPE, Oid(TST_INFO)),
      attribute(MESSAGE_DIGEST, Digest(OID_SHA256, TokenContent(tst))),
      attribute(SIGNING_CERTIFICATE_V2,
                Seq1(<<Seq1(<<Seq1(<<Digest(OID_SHA256, TsaDer)>>)>>)>>))>>

(* unsigned: the attributes added to the token afterwards. *)
Token(tst, number, unsigned) ==
    Seq1(<<Oid(SIGNED_DATA), Struct("[0]", <<Seq1(
      <<Prim("INTEGER", <<3>>), Struct("SET", <<Seq1(<<Oid(OID_SHA256)>>)>>),
        Seq1(<<Oid(TST_INFO), Struct("[0]", <<TokenContent(tst)>>)>>),
        Struct("[0]", <<TsaDer>>),
        Struct("SET", <<Seq1(<<Prim("INTEGER", <<3>>), Prim("[0]p", <<9>>), Seq1(<<Oid(OID_SHA256)>>),
                               Struct("[0]", TokenAttributes(tst)), RsaSha256,
                               Prim("OCTET STRING", <<number>>)>>
                             \o (IF unsigned = <<>> THEN <<>> ELSE <<Struct("[1]", unsigned)>>))>>)>>)>>)>>)

CmsSignatureOn(list, number, key) ==
    [over |-> Struct("SET", list), algorithm |-> <<RSA_PKCS1>> \o OID_SHA256,
     bits |-> <<number>>, key |-> Key(key)]

TimestampResponse(token) == Seq1(<<Seq1(<<Prim("INTEGER", <<0>>)>>), token>>)
=============================================================================
