----------------------------- MODULE StatusCheck -----------------------------
(***************************************************************************)
(* Whether a fetched revocation status may be kept                         *)
(* (doc-sign/src/material.rs, check_response and check_crl): an answer is  *)
(* "good", "revoked" (which ends the collection) or "unusable" (the next   *)
(* address is tried).                                                      *)
(***************************************************************************)
EXTENDS OcspReader

CONSTANTS MAX_CLOCK_SKEW,                     (* in ticks *)
          MAX_OCSP_AGE_WITHOUT_NEXT_UPDATE,
          MAX_CERTIFICATE_ADDRESSES

Unusable == Says("unusable")

(* Distinct addresses, the first few of them. *)
bounded_certificate_addresses(addresses) ==
    LET distinct == SelectSeq([i \in DOMAIN addresses |-> i],
                              LAMBDA i : \A j \in 1 .. i - 1 : addresses[j] # addresses[i])
    IN  [k \in 1 .. Min({Len(distinct), MAX_CERTIFICATE_ADDRESSES}) |-> addresses[distinct[k]]]

check_crl_times(crl, reference_time) ==
    /\ crl.this_update <= reference_time + MAX_CLOCK_SKEW
    /\ crl.next_update # NoTime
    /\ crl.next_update > crl.this_update
    /\ reference_time <= crl.next_update + MAX_CLOCK_SKEW

check_crl(genuine, der, subject, issuer, reference_time) ==
    IF CrlReads(der) /\ check_crl_times(Crl(der), reference_time)
         /\ VerifiedCrl(genuine, Crl(der), issuer)
    THEN LET status == check_against_crl(subject, Crl(der), reference_time)
         IN  IF status.status \in {"good", "revoked"} THEN status ELSE Unusable
    ELSE Unusable

(* Mutant: an answer without nextUpdate is never recent enough. *)
NextUpdateRequired(produced_at, single, now) ==
    /\ produced_at <= now + MAX_CLOCK_SKEW
    /\ single.this_update <= now + MAX_CLOCK_SKEW
    /\ single.next_update > single.this_update
    /\ now <= single.next_update + MAX_CLOCK_SKEW

check_ocsp_times(produced_at, single, now) ==
    /\ produced_at <= now + MAX_CLOCK_SKEW
    /\ single.this_update <= now + MAX_CLOCK_SKEW
    /\ single.this_update <= produced_at + MAX_CLOCK_SKEW
    /\ IF single.next_update # NoTime
       THEN /\ single.next_update > single.this_update
            /\ now <= single.next_update + MAX_CLOCK_SKEW
       ELSE now <= single.this_update + MAX_OCSP_AGE_WITHOUT_NEXT_UPDATE + MAX_CLOCK_SKEW

(* The issuer itself, or one of the certificates the response brings along. *)
SignedBySome(genuine, basic, issuer) ==
    \/ VerifiedOcspResponse(genuine, basic, issuer, issuer)
    \/ \E i \in DOMAIN basic.embedded :
         /\ CertificateReads(basic.embedded[i])
         /\ VerifiedOcspResponse(genuine, basic, from_der(basic.embedded[i]), issuer)

(* Mutant: a nonce that came back is not compared with the one sent. *)
NonceEchoedAtAll(nonce_policy, echoed, nonce) ==
    echoed # NoNonce \/ nonce_policy # "RequireEcho"

NonceAccepted(nonce_policy, echoed, nonce) ==
    IF echoed = NoNonce THEN nonce_policy # "RequireEcho" ELSE echoed = nonce

check_response(genuine, nonce_policy, der, subject, issuer, nonce, now) ==
    IF OcspResponseReads(der) /\ HasBasic(der)
         /\ SignedBySome(genuine, Basic(der), issuer)
         /\ NonceAccepted(nonce_policy, Basic(der).nonce, nonce)
         /\ response_for(Basic(der), subject, issuer) # {}
    THEN LET single == Basic(der).responses[Min(response_for(Basic(der), subject, issuer))]
         IN  IF check_ocsp_times(Basic(der).produced_at, single, now)
                  /\ single.status.status \in {"good", "revoked"}
             THEN single.status ELSE Unusable
    ELSE Unusable
=============================================================================
