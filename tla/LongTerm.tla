------------------------------ MODULE LongTerm ------------------------------
(***************************************************************************)
(* A signed document over its lifetime: it is signed, stamped and given     *)
(* validation material, evidence and archive timestamps are added, its      *)
(* certificates expire or are revoked, trusted lists change under it, and   *)
(* at every instant it may be verified (doc-sign/src/verification.rs over   *)
(* trust.rs and live.rs).                                                   *)
(***************************************************************************)
EXTENDS LtMaterial, TLC

CONSTANTS
    Worlds,     \* the certificates, authorities and lists of one behaviour
    MaxTime     \* the last instant

VARIABLES
    world,      \* the member of Worlds this behaviour is about
    now,
    register,   \* what the authorities have revoked: id -> when and why
    services,   \* the status histories the national lists publish
    cached,     \* the trusted lists the verifier last read, and when
    document,   \* the signature, its timestamps, material and archive timestamps
    proven,     \* the existence a verification has proven since the lists were read
    report      \* what the last verification said, until something changes

vars == <<world, now, register, services, cached, document, proven, report>>

-----------------------------------------------------------------------------
(* The outside world: authorities that answer truthfully, perhaps with a list or an
   answer produced a while ago, which then echoes no nonce. *)

CertificateOf(id) == CHOOSE c \in world.certificates : c.id = id
IssuerOf(c) == CHOOSE i \in world.certificates : i.subject = c.issuer /\ i.key = c.by

StatusAt(id, time) ==
    IF id \in DOMAIN register /\ register[id].at <= time
    THEN Revoked(register[id].at, register[id].compromise) ELSE Good(time)

Answer(c, time) ==
    [name |-> c.issuer, key |-> c.by, crl |-> world.crl, echoes |-> world.echo,
     this |-> time, produced |-> IF world.crl \/ ~world.echo THEN time ELSE now,
     next |-> IF world.window = Never THEN Never ELSE time + world.window,
     says |-> [id \in {d.id : d \in {d \in world.certificates :
                                       IF world.crl THEN d.issuer = c.issuer /\ d.by = c.by
                                       ELSE d.id = c.id}} |-> StatusAt(id, time)]]

Signed(time) == IF time >= world.lag THEN time - world.lag ELSE 0

Net == [issuers |-> [id \in {c.id : c \in world.certificates} |->
                       LET c == CertificateOf(id) IN
                       IF self_issued(c) \/ id \notin world.addressed THEN <<>>
                       ELSE <<IssuerOf(c)>>],
        answers |-> [id \in {c.id : c \in world.certificates} |->
                       Answer(CertificateOf(id), Signed(now))],
        time |-> now]

-----------------------------------------------------------------------------
(* Verification of the document as it is, with the lists read last. *)

Pinned == pinned(world.roots, "CertificateIssuing") \o pinned(world.tsa_roots, "TimeStamping")

NoLists == [read |-> FALSE, anchors |-> <<>>, fetched_at |-> Never, until |-> Never]

Anchors(lists) == IF lists.read THEN lists.anchors ELSE Pinned

(* judge_token for a token whose imprint matches: its time is proven when the authority
   is anchored, with what the token itself carries, and not revoked before it. *)
ProvenBy(token, pool, anchors, time) ==
    LET chain == judge(world.tsa, add_material(pool, token.embedded), anchors,
                       "TimeStamping", token.time, time)
    IN  chain.anchored /\ ~revoked_before(chain.revocation, token.time)

Earliest(times) == IF times = {} THEN Never ELSE Min(times)

(* Which proof of existence counts, and which material goes with it. *)
Proof(primary, archived) ==
    IF archived # Never /\ (primary = Never \/ archived < primary)
    THEN [at |-> archived, pool |-> "archive"]
    ELSE [at |-> primary, pool |-> "document"]

SignatureReport(chain, proof, at, intact) ==
    [chain |-> chain, revocation |-> chain.revocation, proof_of_existence |-> proof,
     validation_time |-> at, document_intact |-> intact]

(* Mutant: without a revocation answer the signature still counts as valid. *)
UnknownAccepted(rep) ==
    IF ~rep.document_intact \/ revoked_before(rep.revocation, rep.proof_of_existence) THEN "NotValid"
    ELSE IF ~rep.chain.anchored
    THEN (IF rep.chain.search_exhausted THEN "ChainSearchExhausted" ELSE "NoCertificateChain")
    ELSE "Valid"

verdict(rep) ==
    IF ~rep.document_intact \/ revoked_before(rep.revocation, rep.proof_of_existence) THEN "NotValid"
    ELSE IF ~rep.chain.anchored
    THEN (IF rep.chain.search_exhausted THEN "ChainSearchExhausted" ELSE "NoCertificateChain")
    ELSE IF rep.revocation = Unavailable THEN "RevocationUnknown" ELSE "Valid"

JudgeSignerAt(doc, proof, pool, anchors, at, time) ==
    SignatureReport(judge(world.signer, pool, anchors, "CertificateIssuing", at, time),
                    proof.at, at, doc.intact)

JudgeSigner(doc, proof, pools, anchors, time) ==
    JudgeSignerAt(doc, proof, pools[proof.pool], anchors,
                  IF proof.at = Never THEN time ELSE proof.at, time)

(* The report on the signature: its timestamps and the document timestamps of a PDF that
   cover it judged with the document's material, each archive timestamp with what it covers
   and what was placed for it alone, then the signer at the time that is proven. *)
Times(tokens, proven_ones) == {tokens[i].time : i \in proven_ones}

ProvenStamps(tokens, pool, anchors, time) ==
    {i \in DOMAIN tokens : ProvenBy(tokens[i], pool, anchors, time)}

ProvenArchives(doc, base, anchors, time) ==
    {i \in DOMAIN doc.archive :
       ProvenBy(doc.archive[i],
                add_material(add_material(base, doc.archive[i].covered),
                             doc.archive[i].authority), anchors, time)}

ArchivePool(doc, base, archives) ==
    FoldLeft(LAMBDA pool, i : IF i \in archives
                              THEN add_material(pool, doc.archive[i].covered) ELSE pool,
             base, [i \in DOMAIN doc.archive |-> i])

ReportOver(doc, anchors, base, pool, archives, primary, time) ==
    JudgeSigner(doc, Proof(Earliest(primary), Earliest(Times(doc.archive, archives))),
                [document |-> pool, archive |-> ArchivePool(doc, base, archives)],
                anchors, time)

ReportWith(doc, anchors, base, pool, time) ==
    ReportOver(doc, anchors, base, pool, ProvenArchives(doc, base, anchors, time),
               Times(doc.stamps, ProvenStamps(doc.stamps, pool, anchors, time))
                 \cup Times(doc.covering, ProvenStamps(doc.covering, pool, anchors, time)),
               time)

ReportOn(doc, anchors, base, time) ==
    ReportWith(doc, anchors, base, add_material(base, doc.material), time)

(* live_revocation: the usable answer for every link of the reported path. *)
LivePool(base, links, net) ==
    [add_certificates(base, Tail(links)) EXCEPT !.answers =
       {a \in {net.answers[links[i].id] : i \in 1 .. Len(links) - 1} :
          usable("AllowMissingEcho", a, net.time)}]

live_revocation(rep, anchors, base, net) ==
    LET chain == judge(world.signer, LivePool(base, <<world.signer>> \o rep.chain.path, net),
                       anchors, "CertificateIssuing", rep.validation_time, now)
    IN  IF chain.anchored THEN chain.revocation ELSE Unavailable

(* Only a report that lacks nothing but a revocation status takes the live answer. *)
with_live_revocation(rep, answer) ==
    IF rep.chain.anchored /\ rep.revocation = Unavailable
    THEN [rep EXCEPT !.revocation = answer] ELSE rep

(* The whole document: counter-signatures do not count, one bad row decides. *)
document_verdict(rows) ==
    LET verdicts == SelectSeq(rows, LAMBDA r : ~r.counter_signs)
        unsure == SelectSeq(verdicts, LAMBDA r : r.verdict # "Valid")
    IN  IF verdicts = <<>> \/ \E i \in DOMAIN verdicts : verdicts[i].verdict = "NotValid"
        THEN "NotValid"
        ELSE IF unsure # <<>> THEN unsure[1].verdict ELSE "Valid"

Unasked == [verdict |-> "unasked", offline |-> "unasked", proof |-> Never,
            at |-> Never, path |-> <<>>, revocation |-> Unavailable, exhausted |-> FALSE,
            document |-> "unasked", stale |-> FALSE]

Reported(rep, live, until) ==
    [verdict |-> verdict(live), offline |-> verdict(rep), proof |-> rep.proof_of_existence,
     at |-> rep.validation_time, path |-> rep.chain.path, revocation |-> live.revocation,
     exhausted |-> rep.chain.search_exhausted,
     document |-> document_verdict(<<[counter_signs |-> FALSE, verdict |-> verdict(live)]>>
                                     \o world.other_rows),
     stale |-> anchors_stale(until, now)]

WithLive(rep, anchors, base, net) ==
    IF world.online /\ rep.chain.anchored /\ rep.revocation = Unavailable
    THEN with_live_revocation(rep, live_revocation(rep, anchors, base, net)) ELSE rep

ReportLive(rep, anchors, base, until, net) ==
    Reported(rep, WithLive(rep, anchors, base, net), until)

VerifyAgainst(doc, anchors, base, until, net) ==
    ReportLive(ReportOn(doc, anchors, base, now), anchors, base, until, net)

verify(doc, lists) ==
    VerifyAgainst(doc, Anchors(lists), anchor_pool(Anchors(lists)), lists.until, Net)

-----------------------------------------------------------------------------
(* The lists as they are published and read. *)

PublishedList(i) ==
    [list_type |-> "generic", pointers |-> <<>>, next_update |-> now + world.list_window,
     signature |-> [signer |-> world.lists[i].signer, value_verifies |-> TRUE,
                    references |-> <<[covers |-> "list", matches |-> TRUE],
                                     [covers |-> "properties", matches |-> TRUE]>>],
     services |-> <<services[i]>>]

ListOfTheLists ==
    [list_type |-> "lotl", services |-> <<>>, next_update |-> now + world.list_window,
     signature |-> [signer |-> "lotl signer", value_verifies |-> TRUE,
                    references |-> <<[covers |-> "properties", matches |-> TRUE],
                                     [covers |-> "list", matches |-> TRUE]>>],
     pointers |-> [i \in DOMAIN world.lists |->
                     [location |-> i, list_type |-> "generic", xml |-> TRUE,
                      signers |-> {world.lists[i].signer}]]
                   \o <<[location |-> NoLocation, list_type |-> "generic", xml |-> TRUE,
                        signers |-> {}]>>]

(* A list whose body was changed on the way, every service granted. *)
Changed(list) ==
    [list EXCEPT !.signature.references =
                   [i \in DOMAIN @ |-> IF @[i].covers = "list" THEN [@[i] EXCEPT !.matches = FALSE]
                                       ELSE @[i]],
                 !.services = [i \in DOMAIN @ |->
                                 [@[i] EXCEPT !.current.status = "granted", !.current.since = 0]]]

ReadLists(lotl, national) ==
    [read |-> TRUE, anchors |-> from_trusted_lists(Pinned, national), fetched_at |-> now,
     until |-> valid_until(lotl, national)]

-----------------------------------------------------------------------------
NoMaterial == [certificates |-> <<>>, answers |-> {}]

Unwritten == [signed |-> Never, intact |-> TRUE, stamps |-> <<>>, covering |-> <<>>,
              archive |-> <<>>, material |-> NoMaterial,
              collected |-> FALSE, added |-> 0]

NewService(list) ==
    [certificates |-> list.certificates, unreadable |-> 0, history |-> <<>>,
     current |-> [status |-> list.status, since |-> 0, service_type |-> list.service_type]]

Init ==
    /\ world \in Worlds
    /\ now = 0
    /\ register = [id \in {} |-> Never]
    /\ services = [i \in DOMAIN world.lists |-> NewService(world.lists[i])]
    /\ cached = NoLists
    /\ document = Unwritten
    /\ proven = Never
    /\ report = Unasked

Tick ==
    /\ now < MaxTime
    /\ now' = now + 1
    /\ UNCHANGED <<world, register, services, cached, document, proven>>
    /\ report' = Unasked

(* An authority revokes a certificate, dated after every answer it has given. *)
Revoke(id, compromise) ==
    /\ id \notin DOMAIN register
    /\ register' = register @@ (id :> [at |-> now + 1, compromise |-> compromise])
    /\ UNCHANGED <<world, now, services, cached, document, proven>>
    /\ report' = Unasked

(* A supervisory body gives a service a new status or type, perhaps back-dated. *)
ChangeStatus(i, status, service_type, since) ==
    /\ <<status, service_type>> # <<services[i].current.status, services[i].current.service_type>>
    /\ Len(services[i].history) < world.changes
    /\ services' = [services EXCEPT ![i].history = <<services[i].current>> \o @,
                                    ![i].current = [status |-> status, since |-> since,
                                                    service_type |-> service_type]]
    /\ UNCHANGED <<world, now, register, cached, document, proven>>
    /\ report' = Unasked

(* The verifier fetches the lists; some national lists do not arrive, or not as signed. *)
FetchLists(arrived, changed) ==
    /\ world.lists # <<>> /\ TrustedListsRead(ListOfTheLists, {"lotl signer"})
    /\ cached' = ReadLists(ListOfTheLists,
                           National(ListOfTheLists,
                                    [i \in arrived |-> IF i \in changed
                                                       THEN Changed(PublishedList(i))
                                                       ELSE PublishedList(i)]))
    /\ UNCHANGED <<world, now, register, services, document>>
    /\ proven' = Never
    /\ report' = Unasked

(* The holder signs. *)
Sign ==
    /\ document.signed = Never /\ now <= world.sign_by
    /\ document' = [document EXCEPT !.signed = now]
    /\ UNCHANGED <<world, now, register, services, cached, proven>>
    /\ report' = Unasked

(* What the time-stamping authority answers: its certificates and, perhaps, its status. *)
Token ==
    [time |-> now,
     embedded |-> [certificates |-> <<world.tsa>> \o world.tsa_chain,
                   answers |-> IF world.embeds THEN {Answer(world.tsa, Signed(now))} ELSE {}]]

(* The time-stamping authority stamps the signature. *)
Stamp ==
    /\ document.signed # Never /\ document.stamps = <<>>
    /\ valid_at(world.tsa, now)
    /\ document' = [document EXCEPT !.stamps = <<Token>>]
    /\ UNCHANGED <<world, now, register, services, cached, proven>>
    /\ report' = Unasked

TsaMaterial ==
    collect_chains(<<[leaf |-> world.tsa, reference_time |-> document.stamps[1].time,
                      anchors |-> <<world.tsa>> \o world.tsa_chain, configured |-> TRUE,
                      nonce_policy |-> "AllowMissingEcho",
                      include_leaf |-> TRUE, include_anchor |-> TRUE]>>,
                   <<world.tsa>> \o world.tsa_chain, Net)

SignerMaterial ==
    collect_chains(<<[leaf |-> world.signer, reference_time |-> document.stamps[1].time,
                      anchors |-> world.roots, configured |-> FALSE,
                      nonce_policy |-> "RequireEcho",
                      include_leaf |-> FALSE, include_anchor |-> TRUE]>>, <<>>, Net)

merge_material(a, b) ==
    [certificates |-> FoldLeft(PushOnce, a.certificates, b.certificates),
     answers |-> a.answers \cup b.answers]

(* The writer completes level LT: the authority's material and the signer's. *)
Collect ==
    /\ document.stamps # <<>> /\ ~document.collected /\ document.added = 0
    /\ document.archive = <<>>
    /\ TsaMaterial.outcome = "ok" /\ SignerMaterial.outcome = "ok"
    /\ document' = [document EXCEPT
                      !.material = merge_material(TsaMaterial.collection,
                                                  SignerMaterial.collection),
                      !.collected = TRUE]
    /\ UNCHANGED <<world, now, register, services, cached, proven>>
    /\ report' = Unasked

(* Another tool adds what an authority answers now, with the certificates it knows. *)
AddAnswer(c) ==
    /\ document.signed # Never /\ document.added < world.adds
    /\ document' = [document EXCEPT
                      !.added = @ + 1,
                      !.material = [certificates |->
                                      FoldLeft(PushOnce, @.certificates, world.others),
                                    answers |-> @.answers \cup {Answer(c, Signed(now))}]]
    /\ UNCHANGED <<world, now, register, services, cached, proven>>
    /\ report' = Unasked

(* An archive timestamp over the signature and the material it has. *)
Archive ==
    /\ document.signed # Never /\ Len(document.archive) < world.archives
    /\ valid_at(world.tsa, now)
    /\ document' = [document EXCEPT !.archive =
                      Append(@, Token @@ [covered |-> document.material,
                                          authority |-> NoMaterial])]
    /\ UNCHANGED <<world, now, register, services, cached, proven>>
    /\ report' = Unasked

(* Another tool places the authority's status for an archive timestamp alone, after it. *)
AddForArchive(i) ==
    /\ document.added < world.adds
    /\ document' = [document EXCEPT
                      !.added = @ + 1,
                      !.archive[i].authority.answers = @ \cup {Answer(world.tsa, Signed(now))}]
    /\ UNCHANGED <<world, now, register, services, cached, proven>>
    /\ report' = Unasked

(* A document timestamp over a signed PDF. *)
Cover ==
    /\ document.signed # Never /\ Len(document.covering) < world.covers
    /\ valid_at(world.tsa, now)
    /\ document' = [document EXCEPT !.covering = Append(@, Token)]
    /\ UNCHANGED <<world, now, register, services, cached, proven>>
    /\ report' = Unasked

(* The document is changed after signing. *)
Alter ==
    /\ world.alterable /\ document.signed # Never /\ document.intact
    /\ document' = [document EXCEPT !.intact = FALSE]
    /\ UNCHANGED <<world, now, register, services, cached, proven>>
    /\ report' = Unasked

(* The document is verified. *)
Verify ==
    /\ document.signed # Never /\ report = Unasked
    /\ report' = verify(document, cached)
    /\ proven' = IF report'.offline = "Valid" /\ report'.proof # Never
                 THEN report'.proof ELSE proven
    /\ UNCHANGED <<world, now, register, services, cached, document>>

Next ==
    \/ Tick
    \/ \E id \in world.revocable, compromise \in BOOLEAN : Revoke(id, compromise)
    \/ \E i \in DOMAIN world.lists, status \in world.statuses, service_type \in world.types,
         since \in {0, now} : ChangeStatus(i, status, service_type, since)
    \/ \E arrived \in SUBSET DOMAIN world.lists : \E changed \in SUBSET arrived :
         FetchLists(arrived, changed)
    \/ Sign
    \/ Stamp
    \/ Collect
    \/ \E c \in world.answered : AddAnswer(c)
    \/ Archive
    \/ \E i \in DOMAIN document.archive : AddForArchive(i)
    \/ Cover
    \/ Alter
    \/ Verify

Spec == Init /\ [][Next]_vars

-----------------------------------------------------------------------------
(* Properties. *)

RevokedBy(id, time) == id \in DOMAIN register /\ register[id].at <= time

(***************************************************************************)
(* A signature reported valid stands on certificates that were in force:   *)
(* none of its path was revoked by the time it is judged at, except inside *)
(* the window of an answer given before the revocation.                     *)
(***************************************************************************)
ValidIsJustified ==
    report.verdict = "Valid" =>
      LET path == <<world.signer>> \o report.path
      IN  \A i \in 1 .. Len(path) - 1 :
            RevokedBy(path[i].id, report.at) =>
              /\ world.window # Never
              /\ report.at - register[path[i].id].at < world.window

(***************************************************************************)
(* What was proven stays proven: once a document with a timestamp verifies  *)
(* from its own material, time, expiry, revocations and more evidence do    *)
(* not take it back, unless the document is changed, the added evidence     *)
(* names a compromise or an earlier revocation, or the search gives up.     *)
(***************************************************************************)
AllAnswers(doc) ==
    doc.material.answers \cup UNION {doc.archive[i].authority.answers : i \in DOMAIN doc.archive}

Condemns(doc, proof) ==
    \E a \in AllAnswers(doc) : \E id \in DOMAIN a.says :
      a.says[id].status = "revoked" /\ (a.says[id].compromise \/ a.says[id].at <= proof)

ProvenStaysValid ==
    proven # Never /\ report # Unasked =>
      \/ report.offline = "Valid"
      \/ report.exhausted
      \/ ~document.intact
      \/ Condemns(document, proven)

(***************************************************************************)
(* The writer's material is enough for the verifier: a document whose LT    *)
(* collection succeeded, with answers that speak for the stamped time,      *)
(* verifies offline as long as its timestamp is proven.                     *)
(***************************************************************************)
TimelyAnswers ==
    \A a \in document.material.answers : \A id \in DOMAIN a.says :
      accepted_window(CertificateOf(id), a, document.stamps[1].time, now)

CollectedSuffices ==
    document.collected /\ document.intact /\ document.added = 0 /\ report.proof # Never
      /\ TimelyAnswers =>
        report.offline = "Valid"

(***************************************************************************)
(* The bounded search misses nothing it does not own up to: unless it spent *)
(* its budget or kept the most paths it may, it found exactly the chains of *)
(* allowed issuers from the signer to an anchor.                            *)
(***************************************************************************)
Longer(paths, pool, anchors, at) ==
    {Append(q.path, q.issuer) : q \in
       {q \in [path : paths, issuer : {pool.certificates[i] : i \in DOMAIN pool.certificates}] :
          /\ Len(q.path) = 1 \/ ~is_anchor(anchors, Last(q.path), "CertificateIssuing", at)
          /\ ~OnPath(q.path, q.issuer)
          /\ Last(q.path).issuer = q.issuer.subject /\ Last(q.path).by = q.issuer.key
          /\ \/ is_anchor(anchors, q.issuer, "CertificateIssuing", at)
             \/ valid_at(q.issuer, at) /\ may_issue(q.issuer, Len(q.path) - 1)}}

AllPaths(pool, anchors, at) ==
    LET grown[n \in 1 .. MAX_PATH_DEPTH] ==
          IF n = 1 THEN {<<world.signer>>} ELSE Longer(grown[n - 1], pool, anchors, at)
    IN  {p \in UNION {grown[n] : n \in 2 .. MAX_PATH_DEPTH} :
           is_anchor(anchors, Last(p), "CertificateIssuing", at)}

Complete(search, all) ==
    /\ {search.found[i] : i \in DOMAIN search.found} \subseteq all
    /\ search.budget > 0 /\ Len(search.found) < MAX_ANCHORED_PATHS =>
         {search.found[i] : i \in DOMAIN search.found} = all


(***************************************************************************)
(* The periods an anchor is granted for are those its status history        *)
(* gives, in whatever order it is listed: an instant is inside one exactly  *)
(* when the entry in force then, or just before it, grants the service.     *)
(***************************************************************************)
InForce(service, since, at) ==
    LET all == Append(Reverse(service.history), service.current)
        begun == {i \in DOMAIN all : all[i].since <= since}
        latest == {i \in begun : \A j \in begun : all[j].since <= all[i].since}
    IN  /\ begun # {}
        /\ LET g == grant(all[Max(latest)], service.current.service_type)
           IN  g.grants /\ (g.until = Never \/ at <= g.until)

GrantedAsListed ==
    \A i \in DOMAIN services : \A at \in 0 .. MaxTime :
      (\E n \in DOMAIN granted_periods(services[i]) : covers(granted_periods(services[i])[n], at))
        <=> \/ InForce(services[i], at, at)
            \/ at > 0 /\ InForce(services[i], at - 1, at)
=============================================================================
