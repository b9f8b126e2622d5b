----------------------------- MODULE TrustJudge -----------------------------
(***************************************************************************)
(* What a pool of certificates and revocation answers says about one       *)
(* certificate (doc-sign/src/verification/trust.rs): the bounded search    *)
(* for paths to an anchor, and the revocation status of the best of them.  *)
(*                                                                         *)
(* A certificate is a record of the fields the judgement reads: its id (its *)
(* DER), subject, issuer, own key, the key that signed it, its validity and *)
(* its extension profile.  An answer is a verified OCSP response or CRL:    *)
(* the name and key of the authority it speaks for, its window, and what it *)
(* says of the certificates it answers for.                                 *)
(***************************************************************************)
EXTENDS TrustedLists

CONSTANTS
    MAX_PATH_DEPTH, MAX_ANCHORED_PATHS, MAX_PATH_SEARCH_VERIFICATIONS,
    MAX_CLOCK_SKEW

Unlimited == 99   \* no pathLen

-----------------------------------------------------------------------------
(* Who may issue, who may sign. *)

valid_at(certificate, at) == certificate.from <= at /\ at <= certificate.to

may_issue(certificate, intermediates_below) ==
    /\ certificate.profile.extensions /\ certificate.profile.reads
    /\ certificate.profile.ca
    /\ ~certificate.profile.name_constraints
    /\ certificate.profile.usage_present => "key_cert_sign" \in certificate.profile.usage
    /\ intermediates_below <= certificate.profile.path_len

fit_to_sign(certificate) ==
    certificate.profile.extensions =>
      /\ certificate.profile.reads
      /\ ~certificate.profile.ca
      /\ certificate.profile.usage_present =>
           certificate.profile.usage \cap {"digital_signature", "non_repudiation"} # {}

-----------------------------------------------------------------------------
(* Revocation answers. *)

Good(at) == [status |-> "good", at |-> at, compromise |-> FALSE]
Revoked(at, compromise) == [status |-> "revoked", at |-> at, compromise |-> compromise]
Unavailable == [status |-> "unavailable", at |-> Never, compromise |-> FALSE]

(* Mutant: a revocation counts whenever it happened. *)
RevokedAtAll(revocation, proof) == revocation.status = "revoked"

revoked_before(revocation, proof) ==
    /\ revocation.status = "revoked"
    /\ revocation.compromise \/ proof = Never \/ revocation.at <= proof

(* A compromise outweighs any other revocation, then the earliest. *)
graver(revocations) ==
    LET worst == IF \E r \in revocations : r.compromise
                 THEN {r \in revocations : r.compromise} ELSE revocations
    IN  CHOOSE r \in worst : \A q \in worst : r.at <= q.at

(* Whether a good answer speaks for the certificate at the instant at. *)
accepted_window(certificate, answer, at, now) ==
    /\ answer.this <= now + MAX_CLOCK_SKEW
    /\ \/ answer.this <= at /\ at <= (IF answer.next = Never THEN answer.this ELSE answer.next)
       \/ at <= answer.this /\ answer.this <= certificate.to

(* The answers about a certificate from its issuer: a revocation counts whatever
   its window, a good answer only inside its own. *)
Speaks(answer, certificate, issuer) ==
    /\ answer.name = issuer.subject /\ answer.key = issuer.key
    /\ certificate.id \in DOMAIN answer.says

AnswersOf(answers, certificate, issuer, at, now) ==
    LET speaking == {a \in answers : Speaks(a, certificate, issuer)}
    IN  {a.says[certificate.id] : a \in {a \in speaking :
                                          a.says[certificate.id].status = "revoked"}}
          \cup {Good(a.produced) : a \in {a \in speaking :
                  /\ a.says[certificate.id].status = "good"
                  /\ accepted_window(certificate, a, at, now)}}

(* Any revocation outweighs any good answer; the latest good one is reported. *)
strongest(found) ==
    LET revoked == {f \in found : f.status = "revoked"}
    IN  IF revoked # {} THEN graver(revoked)
        ELSE IF found = {} THEN Unavailable
        ELSE CHOOSE f \in found : \A g \in found : g.at <= f.at

revocation_of(pool, certificate, issuer, at, now) ==
    strongest(AnswersOf(pool.answers, certificate, issuer, at, now))

(* Every link of a path: a revocation anywhere, else unavailable anywhere, else the
   status of the first link. *)
path_revocation(pool, path, at, now) ==
    LET links == [i \in 1 .. Len(path) - 1 |->
                    revocation_of(pool, path[i], path[i + 1], at, now)]
        revoked == {links[i] : i \in {i \in DOMAIN links : links[i].status = "revoked"}}
    IN  IF revoked # {} THEN graver(revoked)
        ELSE IF links = <<>> \/ \E i \in DOMAIN links : links[i] = Unavailable
        THEN Unavailable
        ELSE links[1]

(* The order in which paths are preferred: good, unavailable, revoked; then no
   compromise; then the later time. *)
Rank(revocation) ==
    CASE revocation.status = "good"        -> 2
      [] revocation.status = "unavailable" -> 1
      [] revocation.status = "revoked"     -> 0

preference_at_most(r, q) ==
    \/ Rank(r) < Rank(q)
    \/ Rank(r) = Rank(q) /\ r.compromise /\ ~q.compromise
    \/ Rank(r) = Rank(q) /\ r.compromise = q.compromise /\ r.at <= q.at

-----------------------------------------------------------------------------
(* The path search. *)


(* The pool certificates worth a signature verification, in pool order. *)
Candidates(pool, child, anchors, role, at, intermediates_below) ==
    SelectSeq(pool.certificates, LAMBDA c :
      /\ c.id # child.id /\ c.subject = child.issuer
      /\ \/ is_anchor(anchors, c, role, at)
         \/ valid_at(c, at) /\ may_issue(c, intermediates_below))

(* Those the budget pays for and whose key verifies the child's signature. *)
issuers_of(candidates, child, budget) ==
    SelectSeq(SubSeq(candidates, 1, Min({budget, Len(candidates)})),
              LAMBDA c : child.by = c.key)

Spend(candidates, budget) == budget - Min({budget, Len(candidates)})

Push(search, path, candidates) ==
    [search EXCEPT !.budget = Spend(candidates, @),
                   !.stack = Append(@, [path |-> path,
                                        issuers |-> issuers_of(candidates, Last(path),
                                                               search.budget)])]

(* One call of anchored_paths: too deep, enough found, anchored, spent, or expanded. *)
Enter(search, path, pool, anchors, role, at) ==
    IF Len(path) > MAX_PATH_DEPTH \/ Len(search.found) >= MAX_ANCHORED_PATHS THEN search
    ELSE IF Len(path) > 1 /\ is_anchor(anchors, Last(path), role, at)
    THEN [search EXCEPT !.found = Append(@, path)]
    ELSE IF search.budget = 0 THEN search
    ELSE Push(search, path, Candidates(pool, Last(path), anchors, role, at, Len(path) - 1))

OnPath(path, certificate) == \E i \in DOMAIN path : path[i].id = certificate.id

(* The call on top of the stack goes on to its next issuer, or returns. *)
Resume(search, frame, pool, anchors, role, at) ==
    IF frame.issuers = <<>> THEN [search EXCEPT !.stack = Front(@)]
    ELSE LET rest == [search EXCEPT !.stack[Len(search.stack)].issuers = Tail(@)]
         IN  IF OnPath(frame.path, Head(frame.issuers)) THEN rest
             ELSE Enter(rest, Append(frame.path, Head(frame.issuers)), pool, anchors, role, at)

(* Every issuer on the stack was paid for from the budget, so the search ends. *)
RECURSIVE Searched(_, _, _, _, _)
Searched(search, pool, anchors, role, at) ==
    IF search.stack = <<>> THEN search
    ELSE Searched(Resume(search, Last(search.stack), pool, anchors, role, at),
                  pool, anchors, role, at)

NewSearch == [stack |-> <<>>, found |-> <<>>, budget |-> MAX_PATH_SEARCH_VERIFICATIONS]

anchored_paths(certificate, pool, anchors, role, at) ==
    Searched(Enter(NewSearch, <<certificate>>, pool, anchors, role, at),
             pool, anchors, role, at)

(* Without an anchor: the first issuer not yet on the path, step by step. *)
Climb(climb, candidates) ==
    LET fresh == SelectSeq(issuers_of(candidates, Last(climb.path), climb.budget),
                           LAMBDA c : ~OnPath(climb.path, c))
    IN  [path |-> IF fresh = <<>> THEN climb.path ELSE Append(climb.path, fresh[1]),
         budget |-> Spend(candidates, climb.budget),
         ended |-> fresh = <<>>]

ClimbOn(climb, pool, anchors, role, at) ==
    IF climb.ended THEN climb
    ELSE Climb(climb, Candidates(pool, Last(climb.path), anchors, role, at, Len(climb.path) - 1))

partial_path(certificate, pool, anchors, role, at) ==
    LET after[n \in 0 .. MAX_PATH_DEPTH] ==
          IF n = 0
          THEN [path |-> <<certificate>>, budget |-> MAX_PATH_SEARCH_VERIFICATIONS,
                ended |-> FALSE]
          ELSE ClimbOn(after[n - 1], pool, anchors, role, at)
    IN  Tail(after[MAX_PATH_DEPTH].path)

-----------------------------------------------------------------------------
(* The verdict on a certificate. *)

(* The last of the paths no other is preferred to. *)
Best(found, statuses) ==
    Max({i \in DOMAIN found : \A j \in DOMAIN found :
                                preference_at_most(statuses[j], statuses[i])})

Chain(anchored, path, revocation, exhausted) ==
    [anchored |-> anchored, path |-> path, revocation |-> revocation,
     search_exhausted |-> exhausted]

JudgePaths(fit, found, statuses, exhausted) ==
    Chain(fit, Tail(found[Best(found, statuses)]), statuses[Best(found, statuses)], exhausted)

JudgePartial(certificate, path, pool, at, now, exhausted) ==
    Chain(FALSE, path,
          IF path = <<>> THEN Unavailable
          ELSE revocation_of(pool, certificate, path[1], at, now),
          exhausted)

JudgeSearched(certificate, pool, anchors, role, at, now, search) ==
    IF search.found = <<>>
    THEN JudgePartial(certificate, partial_path(certificate, pool, anchors, role, at),
                      pool, at, now, search.budget = 0)
    ELSE JudgePaths(/\ valid_at(certificate, at)
                    /\ role = "CertificateIssuing" => fit_to_sign(certificate),
                    search.found,
                    [i \in DOMAIN search.found |->
                       path_revocation(pool, search.found[i], at, now)],
                    search.budget = 0)

judge(certificate, pool, anchors, role, at, now) ==
    IF is_anchor(anchors, certificate, role, at)
    THEN Chain(TRUE, <<>>, Unavailable, FALSE)
    ELSE JudgeSearched(certificate, pool, anchors, role, at, now,
                       anchored_paths(certificate, pool, anchors, role, at))

-----------------------------------------------------------------------------
(* Pools. *)

(* Certificates are held once, in the order they were added. *)
add_certificates(pool, certificates) ==
    [pool EXCEPT !.certificates =
       FoldLeft(LAMBDA held, c : IF \E i \in DOMAIN held : held[i].id = c.id THEN held
                                 ELSE Append(held, c), @, certificates)]

add_material(pool, material) ==
    [add_certificates(pool, material.certificates) EXCEPT
       !.answers = @ \cup material.answers]

anchor_pool(anchors) ==
    add_certificates([certificates |-> <<>>, answers |-> {}],
                     [i \in DOMAIN anchors |-> anchors[i].certificate])
=============================================================================
