----------------------------- MODULE LtMaterial -----------------------------
(***************************************************************************)
(* The validation material a level-LT signature embeds, as the writer      *)
(* collects it (doc-sign/src/material.rs): one greedy walk from each leaf   *)
(* to an anchor, asking for the status of every certificate below it.       *)
(*                                                                         *)
(* The network is a record: net.issuers[id] is what the CA Issuers         *)
(* addresses of a certificate return that parses, net.answers[id] what its  *)
(* status server answers, and net.time the time the answers are held to.    *)
(***************************************************************************)
EXTENDS TrustJudge

CONSTANTS MAX_DEPTH, MAX_OCSP_AGE_WITHOUT_NEXT_UPDATE

-----------------------------------------------------------------------------
(* The checks of one link. *)

self_issued(certificate) == certificate.issuer = certificate.subject

(* A non-anchor certificate the path builder can enforce. *)
validate_path_extensions(profile) ==
    /\ profile.reads /\ ~profile.name_constraints
    /\ profile.ca /\ profile.purposes # {} => profile.purposes = {"time_stamping"}

enforce_path_length(profile, subordinate_ca_count) ==
    subordinate_ca_count <= profile.path_len

validate_issuing_certificate(issuer, reference_time, subordinate_ca_count) ==
    /\ valid_at(issuer, reference_time)
    /\ validate_path_extensions(issuer.profile)
    /\ issuer.profile.ca /\ issuer.profile.critical
    /\ enforce_path_length(issuer.profile, subordinate_ca_count)
    /\ issuer.profile.usage_present /\ "key_cert_sign" \in issuer.profile.usage

(* An issuer restricted to time stamping issues only such certificates. *)
PurposePassesOn(subject, issuer) ==
    "time_stamping" \in issuer.profile.purposes =>
      /\ validate_path_extensions(subject.profile)
      /\ "time_stamping" \in subject.profile.purposes

validate_direct_issuer_for_path(subject, issuer, reference_time, count, issuer_is_anchor) ==
    /\ subject.issuer = issuer.subject
    /\ IF issuer_is_anchor THEN valid_at(issuer, reference_time)
       ELSE /\ validate_issuing_certificate(issuer, reference_time, count)
            /\ PurposePassesOn(subject, issuer)
    /\ subject.by = issuer.key

Holds(certificates, certificate) ==
    \E i \in DOMAIN certificates : certificates[i].id = certificate.id

(* push_candidate, push_certificate: each certificate is kept once. *)
PushOnce(certificates, certificate) ==
    IF Holds(certificates, certificate) THEN certificates
    ELSE Append(certificates, certificate)

is_approved_anchor(certificate, anchors) == Holds(anchors, certificate)

(* The first anchor, candidate or fetched certificate that issued the subject; the
   subject itself is passed over except among the fetched ones. *)
find_issuer(subject, reference_time, count, anchors, offered, fetched, above_anchor) ==
    SelectSeq(SelectSeq(offered, LAMBDA c : c.id # subject.id) \o fetched, LAMBDA c :
      validate_direct_issuer_for_path(subject, c, reference_time, count,
                                      above_anchor \/ is_approved_anchor(c, anchors)))

-----------------------------------------------------------------------------
(* The walk. *)

(* The trust boundary of a chain: the approved roots, or what the signer of a
   configured authority presented, self-issued certificates first. *)
anchor_ders(start) ==
    LET roots == SelectSeq(start.anchors, self_issued)
        above == SelectSeq(start.anchors, LAMBDA c : c.id # start.leaf.id)
    IN  IF ~start.configured THEN start.anchors
        ELSE IF roots # <<>> THEN roots
        ELSE IF above # <<>> THEN above ELSE start.anchors

(* Whether an answer of the issuer is one to keep at an instant: an OCSP answer echoes the
   nonce where the policy wants it, and both kinds stand inside their windows.  A CRL is
   held to its window twice, the second time without an allowance for clock skew. *)
check_ocsp_times(answer, time) ==
    /\ answer.produced <= time + MAX_CLOCK_SKEW
    /\ answer.this <= time + MAX_CLOCK_SKEW
    /\ answer.this <= answer.produced + MAX_CLOCK_SKEW
    /\ IF answer.next = Never
       THEN time <= answer.this + MAX_OCSP_AGE_WITHOUT_NEXT_UPDATE + MAX_CLOCK_SKEW
       ELSE answer.this < answer.next /\ time <= answer.next + MAX_CLOCK_SKEW

check_crl_times(answer, time) ==
    /\ answer.this <= time + MAX_CLOCK_SKEW
    /\ answer.next # Never /\ answer.this < answer.next
    /\ time <= answer.next + MAX_CLOCK_SKEW

check_crl(answer, time) ==
    check_crl_times(answer, time) /\ answer.this <= time /\ time <= answer.next

check_response(policy, answer, time) ==
    /\ answer.echoes \/ policy # "RequireEcho"
    /\ check_ocsp_times(answer, time)

usable(policy, answer, time) ==
    IF answer.crl THEN check_crl(answer, time) ELSE check_response(policy, answer, time)

(* What the walk gets for a certificate: an answer, a revocation, or nothing. *)
collect_status(policy, certificate, answer, time) ==
    LET says == answer.says[certificate.id]
    IN  IF ~certificate.profile.extensions \/ ~usable(policy, answer, time)
        THEN [outcome |-> "none", answer |-> answer]
        ELSE IF says.status = "revoked" THEN [outcome |-> "revoked", answer |-> says]
        ELSE [outcome |-> "answer", answer |-> answer]

StatusOf(start, certificate, net) ==
    collect_status(start.nonce_policy, certificate, net.answers[certificate.id], net.time)

keeps_anchor(start) == start.include_anchor \/ start.configured

(* A collection: the material, the candidates, the revocations met. *)
NoCollection == [certificates |-> <<>>, answers |-> {}, candidates |-> <<>>, revoked |-> {}]

push_status(collection, answer) == [collection EXCEPT !.answers = @ \cup {answer}]
keep_graver(collection, found) == [collection EXCEPT !.revoked = {graver(@ \cup {found})}]

KeepStatus(collection, status) ==
    CASE status.outcome = "answer"  -> push_status(collection, status.answer)
      [] status.outcome = "revoked" -> keep_graver(collection, status.answer)
      [] OTHER                      -> collection

(* Mutant: the issuers found on the way are not embedded. *)
CandidateOnly(collection, issuer, keep) ==
    [collection EXCEPT !.candidates = PushOnce(@, issuer)]

KeepIssuer(collection, issuer, keep) ==
    [collection EXCEPT !.candidates = PushOnce(@, issuer),
                       !.certificates = IF keep THEN PushOnce(@, issuer) ELSE @]

(* What an intermediate configured as anchor has above it, as far as it is found. *)
Enriched(climb, found, status) ==
    IF found = <<>> THEN [climb EXCEPT !.ended = TRUE]
    ELSE [visited |-> Append(climb.visited, climb.current),
          current |-> found[1], ended |-> FALSE,
          collection |-> KeepIssuer(KeepStatus(climb.collection, status), found[1], TRUE)]

EnrichOn(climb, start, net) ==
    IF climb.ended \/ Holds(climb.visited, climb.current) \/ self_issued(climb.current)
    THEN [climb EXCEPT !.ended = TRUE]
    ELSE Enriched(climb, find_issuer(climb.current, start.reference_time, 0, <<>>,
                                     climb.collection.candidates,
                                     net.issuers[climb.current.id], TRUE),
                  StatusOf(start, climb.current, net))

enrich_above_anchor(anchor, start, net, collection) ==
    LET after[n \in 0 .. MAX_DEPTH] ==
          IF n = 0 THEN [visited |-> <<>>, current |-> anchor, ended |-> FALSE,
                         collection |-> collection]
          ELSE EnrichOn(after[n - 1], start, net)
    IN  after[MAX_DEPTH].collection

End(walk, outcome) == [walk EXCEPT !.outcome = outcome]

ReachAnchor(walk, start, net) ==
    [walk EXCEPT !.outcome = "ok",
       !.collection =
          LET kept == IF keeps_anchor(start)
                      THEN [@ EXCEPT !.certificates = PushOnce(@, walk.current)] ELSE @
          IN  IF start.configured
              THEN enrich_above_anchor(walk.current, start, net, kept) ELSE kept]

(* The certificate's own CA counts against the path lengths above it. *)
Count(walk) ==
    walk.count + (IF walk.current.profile.ca /\ ~self_issued(walk.current) THEN 1 ELSE 0)

Ascend(walk, start, anchors, found, status) ==
    IF found = <<>> THEN End(walk, "NoIssuer")
    ELSE IF status.outcome = "none" THEN End(walk, "Status")
    ELSE [walk EXCEPT
            !.visited = Append(@, walk.current), !.current = found[1], !.count = Count(walk),
            !.collection = KeepIssuer(KeepStatus(@, status), found[1],
                             ~is_approved_anchor(found[1], anchors) \/ keeps_anchor(start))]

WalkOn(walk, start, anchors, net) ==
    IF walk.outcome # "walking" THEN walk
    ELSE IF ~valid_at(walk.current, start.reference_time) THEN End(walk, "Certificate")
    ELSE IF Holds(walk.visited, walk.current) THEN End(walk, "ChainCycle")
    ELSE IF Len(walk.visited) >= MAX_DEPTH THEN End(walk, "ChainTooDeep")
    ELSE IF is_approved_anchor(walk.current, anchors) THEN ReachAnchor(walk, start, net)
    ELSE IF ~validate_path_extensions(walk.current.profile) THEN End(walk, "Certificate")
    ELSE Ascend(walk, start, anchors,
                find_issuer(walk.current, start.reference_time, Count(walk), anchors,
                            anchors \o walk.collection.candidates,
                            net.issuers[walk.current.id], FALSE),
                StatusOf(start, walk.current, net))

Begin(start, anchors, collection) ==
    [current |-> start.leaf, visited |-> <<>>, count |-> 0,
     outcome |-> IF anchors = <<>> THEN "NoTrustAnchor" ELSE "walking",
     collection |-> [collection EXCEPT !.certificates =
                       IF start.include_leaf THEN PushOnce(@, start.leaf) ELSE @]]

WalkFrom(start, anchors, net, collection) ==
    LET after[n \in 0 .. MAX_DEPTH + 1] ==
          IF n = 0 THEN Begin(start, anchors, collection)
          ELSE WalkOn(after[n - 1], start, anchors, net)
    IN  after[MAX_DEPTH + 1]

(* All chains, the candidates shared; a revocation met on any of them fails the
   collection only once every chain was walked. *)
collect_chains(starts, seeds, net) ==
    LET seeded == [NoCollection EXCEPT !.candidates =
                     FoldLeft(PushOnce, <<>>, [i \in DOMAIN starts |-> starts[i].leaf] \o seeds)]
        walked == FoldLeft(LAMBDA done, start :
                             IF done.outcome # "ok" THEN done
                             ELSE WalkFrom(start, anchor_ders(start), net, done.collection),
                           [outcome |-> "ok", collection |-> seeded], starts)
    IN  IF walked.outcome = "ok" /\ walked.collection.revoked # {}
        THEN [walked EXCEPT !.outcome = "Revoked"] ELSE walked
=============================================================================
