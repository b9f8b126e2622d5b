-------------------------- MODULE EvidenceExchange --------------------------
(***************************************************************************)
(* Evidence on its way to the program.  The program collects the           *)
(* revocation status of a certificate (doc-sign/src/material.rs,           *)
(* collect_status), asks for a timestamp (doc-sign/src/timestamp.rs), or   *)
(* reads a stored certificate or CAdES signature.  Responders, authorities *)
(* and signers issue; a cache or a proxy may deliver anything issued       *)
(* before, and an answer may be damaged on the way: a part of it lost,     *)
(* repeated, cut short, overwritten, or taken from another answer.         *)
(***************************************************************************)
EXTENDS Pki

CONSTANTS Worlds,      (* the instances, one of them chosen in Init *)
          MaxTime

VARIABLES world, now,
          since,       (* when the authority revoked the subject, NoTime before *)
          client, issued, flight

vars == <<world, now, since, client, issued, flight>>

Contents == {Prim("OCTET STRING", <<101>>), Prim("OCTET STRING", <<102>>)}
Nothing == Prim("nothing", <<>>)
NoFlight == [der |-> Nothing, path |-> <<>>, faults |-> 0]
NonceOf(count) == <<200 + count>>

Idle == [state |-> "idle", source |-> "ocsp", tried |-> 0, nonce |-> NoNonce, asked_at |-> 0,
         reference |-> 0, content |-> Nothing, random_failed |-> FALSE, failures |-> 0,
         answer |-> Nothing]

-----------------------------------------------------------------------------
(* Parts of a DER tree. *)

ItemAt(der, path) == FoldLeft(LAMBDA item, i : item.list[i], der, path)

Spliced(list, i, items) == SubSeq(list, 1, i - 1) \o items \o SubSeq(list, i + 1, Len(list))

(* der with the item at path replaced by items. *)
Replaced(der, path, items) ==
    LET rebuilt[k \in 0 .. Len(path) - 1] ==
          LET item == ItemAt(der, SubSeq(path, 1, k))
          IN  [item EXCEPT !.list = Spliced(@, path[k + 1],
                 IF k = Len(path) - 1 THEN items ELSE <<rebuilt[k + 1]>>)]
    IN  rebuilt[0]

-----------------------------------------------------------------------------
Init ==
    /\ world \in Worlds
    /\ now = 1
    /\ since = NoTime
    /\ client = Idle
    /\ issued = {}
    /\ flight = NoFlight

(* The answer as it reaches the reader, not while its damage is being chosen. *)
Arrived == flight # NoFlight /\ flight.path = world.base

Genuine == Standing \cup {a.signature : a \in issued}
Number == 20 + Cardinality(issued)
Issue(kind, der, signature, says) ==
    issued' = issued \cup {[kind |-> kind, der |-> der, signature |-> signature, since |-> since] @@ says}

-----------------------------------------------------------------------------
(* Collecting a status: every OCSP address with a nonce of its own, then every list. *)

OcspUrls == bounded_certificate_addresses(world.ocsp_urls)
CrlUrls == bounded_certificate_addresses(world.crl_urls)

(* The request after c.tried addresses of its source, or the failure after the last. *)
collect_crl_status(c) ==
    IF c.tried < Len(CrlUrls)
    THEN [c EXCEPT !.state = "asking", !.source = "crl", !.nonce = NoNonce, !.asked_at = now]
    ELSE [c EXCEPT !.state = IF c.random_failed THEN "rng" ELSE "failed"]

collect_ocsp_status(c, random) ==
    IF c.source = "crl" THEN collect_crl_status(c)
    ELSE IF c.tried = Len(OcspUrls) THEN collect_crl_status([c EXCEPT !.source = "crl", !.tried = 0])
    ELSE IF ~random
    THEN collect_crl_status([c EXCEPT !.source = "crl", !.tried = 0, !.random_failed = TRUE])
    ELSE [c EXCEPT !.state = "asking", !.nonce = NonceOf(c.tried), !.asked_at = now]

Random == IF world.random_fails THEN BOOLEAN ELSE {TRUE}

collect_status(reference) ==
    /\ world.goal = "status" /\ client.state = "idle"
    /\ \E random \in Random :
         client' = collect_ocsp_status([client EXCEPT !.reference = reference], random)
    /\ UNCHANGED <<world, now, since, issued, flight>>

NextAddress(c, random) ==
    collect_ocsp_status([c EXCEPT !.tried = @ + 1, !.failures = @ + 1], random)

TransportFails ==
    /\ world.goal = "status" /\ client.state = "asking" /\ world.transport_fails
    /\ flight = NoFlight
    /\ \E random \in Random : client' = NextAddress(client, random)
    /\ UNCHANGED <<world, now, since, issued, flight>>

StatusOf(der) ==
    IF client.source = "ocsp"
    THEN check_response(Genuine, world.policy, der, Subject, Ca, client.nonce, client.reference)
    ELSE check_crl(Genuine, der, Subject, Ca, client.reference)

(* Revoked ends the collection; an unusable answer moves on to the next address. *)
ReceiveStatus ==
    /\ world.goal = "status" /\ client.state = "asking" /\ Arrived
    /\ LET status == StatusOf(flight.der)
       IN  IF status.status = "unusable"
           THEN \E random \in Random : client' = NextAddress(client, random)
           ELSE client' = [client EXCEPT !.state = status.status, !.answer = flight.der]
    /\ flight' = NoFlight
    /\ UNCHANGED <<world, now, since, issued>>

-----------------------------------------------------------------------------
(* Asking for a timestamp over a content. *)

RequestToken(content) ==
    /\ world.goal = "token" /\ client.state = "idle"
    /\ client' = [client EXCEPT !.state = "asking", !.asked_at = now, !.content = content,
                                !.nonce = NonceOf(client.tried), !.tried = @ + 1]
    /\ UNCHANGED <<world, now, since, issued, flight>>

ReceiveToken ==
    /\ world.goal = "token" /\ client.state = "asking" /\ Arrived
    /\ IF verified_token(Genuine, flight.der, OID_SHA256, Digest(OID_SHA256, client.content), client.nonce)
       THEN client' = [client EXCEPT !.state = "token", !.answer = flight.der]
       ELSE client' = [client EXCEPT !.state = IF client.tried < world.requests THEN "idle" ELSE "refused"]
    /\ flight' = NoFlight
    /\ UNCHANGED <<world, now, since, issued>>

-----------------------------------------------------------------------------
(* The other parties. *)

MayIssue == Cardinality(issued) < world.issues /\ flight = NoFlight

Tick ==
    /\ now < MaxTime /\ world.clock /\ flight = NoFlight
    /\ now' = now + 1
    /\ UNCHANGED <<world, since, client, issued, flight>>

Revoke ==
    /\ world.goal = "status" /\ since = NoTime /\ world.revokes
    /\ since' = now
    /\ UNCHANGED <<world, now, client, issued, flight>>

(* The responder answers the request, or without its nonce (an answer made in advance). *)
IssueOcsp(nonce, next_update) ==
    /\ world.goal = "status" /\ MayIssue
    /\ client.state = "asking" /\ client.source = "ocsp"
    /\ LET tbs == OcspTbs(since, now, next_update, now, nonce)
       IN  Issue("ocsp", OcspDer(tbs, Number), SignatureOn(tbs, Number, 15),
                 [nonce |-> nonce, this |-> now, next |-> next_update, content |-> Nothing])
    /\ UNCHANGED <<world, now, since, client, flight>>

IssueCrl(next_update) ==
    /\ world.goal = "status" /\ MayIssue /\ client.state \in {"idle", "asking"}
    /\ LET tbs == CrlTbs(since, now, next_update)
       IN  Issue("crl", Signed(tbs, Number), SignatureOn(tbs, Number, 11),
                 [nonce |-> NoNonce, this |-> now, next |-> next_update, content |-> Nothing])
    /\ UNCHANGED <<world, now, since, client, flight>>

IssueToken ==
    /\ world.goal = "token" /\ MayIssue /\ client.state = "asking"
    /\ LET tst == TstInfo(Digest(OID_SHA256, client.content), now, client.nonce)
       IN  Issue("token", TimestampResponse(Token(tst, Number, <<>>)),
                 CmsSignatureOn(TokenAttributes(tst), Number, 16),
                 [nonce |-> client.nonce, this |-> now, next |-> NoTime, content |-> client.content])
    /\ UNCHANGED <<world, now, since, client, flight>>

Deliver(a) ==
    /\ client.state = "asking" /\ flight = NoFlight
    /\ flight' = [der |-> a.der, path |-> world.base, faults |-> 0]
    /\ UNCHANGED <<world, now, since, client, issued>>

-----------------------------------------------------------------------------
(* Stored things that are read later: certificates, and signatures with what was added. *)

Material == [certificates |-> {CaDer}, crls |-> {Signed(CrlTbs(NoTime, 0, FAR), 9)}, ocsp_responses |-> {}]

Parameters(signer) ==
    [certificate |-> signer, digest_algorithm |-> OID_SHA256, algorithm |-> SHA256_WITH_RSA,
     signing_time |-> now]

SignDocument(signer, key, content) ==
    /\ world.goal = "signature" /\ MayIssue /\ key \in world.signers
    /\ \A a \in issued : a.signature.key = Key(key) => a.content # content
    /\ LET attributes == signed_attributes(Parameters(signer), Digest(OID_SHA256, content))
       IN  Issue("signed", signed_data(Parameters(signer), attributes, <<Number>>, world.attached,
                                       content, Material, {}),
                 CmsSignatureOn(attributes.list, Number, key),
                 [nonce |-> NoNonce, this |-> now, next |-> NoTime, content |-> content])
    /\ UNCHANGED <<world, now, since, client, flight>>

(* A token added to the unsigned attributes of the signer. *)
SignerPath(der) == <<2, 1, Len(der.list[2].list[1].list), 1>>
WithUnsigned(der, added) ==
    LET signer == ItemAt(der, SignerPath(der))
    IN  Replaced(der, SignerPath(der), <<
          IF Last(signer.list).tag = "[1]"
          THEN [signer EXCEPT !.list[Len(signer.list)].list = Append(@, added)]
          ELSE [signer EXCEPT !.list = Append(@, Struct("[1]", <<added>>))]>>)

AddToken(a, kind, imprint, oid, unsigned) ==
    LET tst == TstInfo(Digest(OID_SHA256, imprint), now, NoNonce)
    IN  Issue(kind, WithUnsigned(a.der, attribute(oid, Token(tst, Number, unsigned))),
              CmsSignatureOn(TokenAttributes(tst), Number, 16),
              [nonce |-> NoNonce, this |-> a.this, next |-> now, content |-> a.content])

StampDocument(a) ==
    /\ a.kind = "signed" /\ MayIssue /\ \A b \in issued : b.kind # "stamped"
    /\ AddToken(a, "stamped", SignatureImprint(SignedData(a.der)), SIGNATURE_TIME_STAMP_TOKEN, <<>>)
    /\ UNCHANGED <<world, now, since, client, flight>>

HashIndexOf(sd) ==
    Seq1(<<Seq1(<<Oid(OID_SHA256)>>), Seq1(Canonical(Hashed(OID_SHA256, ToSet(sd.certificates)))),
           Seq1(Canonical(Hashed(OID_SHA256, ToSet(sd.revocation_info)))),
           Seq1(Canonical(HashedAttributes(OID_SHA256, sd.signer.unsigned)))>>)

ArchiveDocument(a) ==
    /\ a.kind \in {"signed", "stamped"} /\ MayIssue /\ \A b \in issued : b.kind # "archived"
    /\ LET sd == SignedData(a.der)
       IN  AddToken(a, "archived", ArchiveImprint(sd, <<a.content>>, HashIndexOf(sd), OID_SHA256),
                    ARCHIVE_TIME_STAMP_V3, <<attribute(ATS_HASH_INDEX_V3, HashIndexOf(sd))>>)
    /\ UNCHANGED <<world, now, since, client, flight>>

ReadStored(der) ==
    /\ world.goal \in {"signature", "certificate"} /\ flight = NoFlight
    /\ flight' = [der |-> der, path |-> world.base, faults |-> 0]
    /\ UNCHANGED <<world, now, since, client, issued>>

-----------------------------------------------------------------------------
(* Damage: a walk down to a part of the answer, and one change of that part. *)

(* A digest is damaged as a whole. *)
IsDigest(item) == item.tag = "OCTET STRING" /\ item.octets # <<>> /\ item.list # <<>>

Descend(i) ==
    /\ flight # NoFlight /\ flight.faults < world.faults
    /\ ~IsDigest(ItemAt(flight.der, flight.path))
    /\ flight' = [flight EXCEPT !.path = Append(@, i)]
    /\ UNCHANGED <<world, now, since, client, issued>>

(* The same place of another answer, where it has one. *)
ReachesIn(der, path) ==
    \A k \in DOMAIN path : path[k] \in DOMAIN ItemAt(der, SubSeq(path, 1, k - 1)).list

Grafts ==
    {<<ItemAt(a.der, flight.path)>> : a \in {b \in issued : ReachesIn(b.der, flight.path)}}

Alterations(item) ==
    (IF world.tags = {} THEN {}
     ELSE {<<>>, <<item, item>>, <<Unreadable>>, <<[item EXCEPT !.octets = <<>>, !.list = <<>>]>>})
      \cup {<<[item EXCEPT !.octets = octets]>> : octets \in world.octets}
      \cup {<<[item EXCEPT !.tag = tag]>> : tag \in world.tags}
      \cup {<<item, Prim(tag, <<255>>)>> : tag \in world.tags}

Damage(items) ==
    /\ flight # NoFlight /\ flight.path # world.base /\ flight.faults < world.faults
    /\ flight' = [der |-> Replaced(flight.der, flight.path, items), path |-> world.base,
                  faults |-> flight.faults + 1]
    /\ UNCHANGED <<world, now, since, client, issued>>

References == {now - 1, now}
Expiries == {NoTime, now + 1}
Stored == IF world.goal = "certificate" THEN {CaDer, SubjectDer, ResponderDer, TsaDer}
          ELSE {a.der : a \in {b \in issued : b.kind \in world.reads}}
Children == DOMAIN ItemAt(flight.der, flight.path).list

Next ==
    \/ \E reference \in References : collect_status(reference)
    \/ TransportFails
    \/ ReceiveStatus
    \/ \E content \in world.contents : RequestToken(content)
    \/ ReceiveToken
    \/ Tick
    \/ Revoke
    \/ \E nonce \in {client.nonce, NoNonce}, next_update \in Expiries : IssueOcsp(nonce, next_update)
    \/ IssueCrl(now + 1)
    \/ IssueToken
    \/ \E a \in issued : Deliver(a)
    \/ \E content \in world.contents : SignDocument(Subject, 13, content)
    \/ \E content \in world.contents : SignDocument(Neighbour, 14, content)
    \/ \E a \in issued : StampDocument(a)
    \/ \E a \in issued : ArchiveDocument(a)
    \/ \E der \in Stored : ReadStored(der)
    \/ \E i \in Children : Descend(i)
    \/ \E items \in Alterations(ItemAt(flight.der, flight.path)) : Damage(items)
    \/ \E items \in Grafts : Damage(items)

Spec == Init /\ [][Next]_vars

-----------------------------------------------------------------------------
(* Whether an issued answer is current at the reference time, what it states, and what its signature stands over. *)
Current(a) ==
    /\ a.this <= client.reference + MAX_CLOCK_SKEW
    /\ client.reference <= MAX_CLOCK_SKEW + (IF a.next = NoTime
         THEN a.this + MAX_OCSP_AGE_WITHOUT_NEXT_UPDATE ELSE a.next)

StatusAt(a) == IF a.since = NoTime THEN "good" ELSE "revoked"

SignedPart(kind, der) == ItemAt(der, IF kind = "ocsp" THEN <<2, 1, 2, 1, 1>> ELSE <<1>>)

(***************************************************************************)
(* A status the collection accepts is what the authority stated of this    *)
(* very certificate, in the answer that is kept for it; that answer was    *)
(* current at the reference time and, where an echo is required or a nonce *)
(* came back, made for this request (check_response, check_crl).           *)
(***************************************************************************)
StatusIsTrue ==
    client.state \in {"good", "revoked"} =>
      \E a \in issued :
        /\ a.kind = client.source
        /\ SignedPart(a.kind, client.answer) = a.signature.over
        /\ StatusAt(a) = client.state
        /\ Current(a)
        /\ a.kind = "ocsp" =>
             IF world.policy = "RequireEcho" THEN a.nonce = client.nonce /\ a.this >= client.asked_at
             ELSE a.nonce \in {client.nonce, NoNonce}

(***************************************************************************)
(* An undamaged answer to this request that is current without leaning on  *)
(* the clock skew is never passed over.                                    *)
(***************************************************************************)
Timely(a) ==
    /\ a.this <= client.reference
    /\ a.next # NoTime => client.reference <= a.next
    /\ a.next = NoTime => client.reference <= a.this + MAX_OCSP_AGE_WITHOUT_NEXT_UPDATE

TimelyAnswerSuffices ==
    [][\A a \in issued :
         (/\ ReceiveStatus
          /\ flight.der = a.der /\ a.kind = client.source /\ a.nonce = client.nonce
          /\ Timely(a)) => client'.state = StatusAt(a)]_vars

(***************************************************************************)
(* Where the strict reader of path validation accepts the extensions of a  *)
(* certificate, the lenient extractors read the same constraints, usages   *)
(* and purposes, and so does the reader of TSA certificates.               *)
(***************************************************************************)
AgreeOn(list, profile) ==
    /\ profile.constraints = extract_basic_constraints(find_extension_with_meta(list, BASIC_CONSTRAINTS))
    /\ profile.usage = extract_key_usage_meta(find_extension_with_meta(list, KEY_USAGE))
    /\ profile.purposes = extract_extended_key_usage_meta(find_extension_with_meta(list, EXT_KEY_USAGE))
    /\ TsaExtensionsRead(list) =>
         /\ parse_extensions(list).ca = profile.constraints.ca
         /\ parse_extensions(list).usage = (IF profile.usage.present THEN {profile.usage.bits} ELSE {})
         /\ \A purposes \in parse_extensions(list).purposes :
              {purpose.octets : purpose \in ToSet(purposes)} = profile.purposes

ReadersAgree ==
    world.goal = "certificate" /\ Arrived /\ CertificateReads(flight.der) /\ HasProfile(from_der(flight.der))
      => AgreeOn(from_der(flight.der).extensions[1], ProfileOf(from_der(flight.der)))

(***************************************************************************)
(* A CAdES signature that reads as intact and valid is one that was made:  *)
(* its content, its signer's certificate and its signing time are those    *)
(* signed, and a timestamp that verifies over it was made over it.         *)
(***************************************************************************)
Given(sd) == IF world.attached THEN {<<>>} ELSE {<<content>> : content \in Contents}

MadeAs(sd, content) ==
    \E a \in issued :
      /\ a.kind = "signed" /\ a.this = single_signing_time(sd.signer.signed)
      /\ <<a.content>> = SignedContent(sd, content)
      /\ signer_certificate(sd) = signer_certificate(SignedData(a.der))

StampedAs(sd) ==
    \A token \in signature_timestamps(sd) :
      verify_token(Genuine, token, SignatureImprint(sd)) =>
        \E a \in issued : /\ a.kind = "stamped" /\ a.next = claimed_generation_time(token)
                          /\ SignedData(a.der).signer.signature = sd.signer.signature

SignedAsRead ==
    world.goal = "signature" /\ Arrived /\ CadesReads(flight.der) =>
      LET sd == SignedData(flight.der)
      IN  /\ \A content \in Given(sd) :
               document_intact(Genuine, sd, content) /\ signature_valid(Genuine, sd, TRUE, content)
                 => MadeAs(sd, content)
          /\ StampedAs(sd)

(***************************************************************************)
(* The material an archive timestamp covers, once its token verifies, is   *)
(* the material that was in the signature when it was made, whatever was   *)
(* lost or added since.                                                    *)
(***************************************************************************)
CoveredWhenMade(sd, content, token) ==
    \E a \in issued :
      /\ a.kind = "archived" /\ a.next = claimed_generation_time(token)
      /\ <<a.content>> = SignedContent(sd, content)
      /\ CoveredBy(sd, IndexOf(token)[1], OID_SHA256)
           = embedded_material(SignedData(a.der), signer_certificate(SignedData(a.der)).raw)

ArchiveCovers ==
    world.goal = "signature" /\ Arrived /\ CadesReads(flight.der) =>
      \A content \in Given(SignedData(flight.der)) :
        \A token \in archive_tokens(SignedData(flight.der), content) :
          archive_token_verifies(Genuine, SignedData(flight.der), content, token)
            => CoveredWhenMade(SignedData(flight.der), content, token)
=============================================================================
