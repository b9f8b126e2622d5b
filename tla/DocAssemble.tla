---------------------------- MODULE DocAssemble ----------------------------
(***************************************************************************)
(* Finishing one signed document: service.rs of the doc-sign crate from    *)
(* finish_document on, with the containers of document.rs and asic.rs.     *)
(*                                                                         *)
(* The card has signed and its session is closed.  The requested timestamp *)
(* authorities are asked one after another for a token over the signature; *)
(* for level LT the certificates and status answers of every token kept    *)
(* and of the signer go into the validation store; for level LTA one more  *)
(* token is taken over everything, and only from an authority whose        *)
(* certificate path is already in that store.                              *)
(*                                                                         *)
(* A certificate is a pair <<owner, n>>: <<a, 0>> is the issuer of owner a *)
(* and <<a, n>> its n-th own certificate.  Owners are the authorities and  *)
(* the signers.  Byte strings are the records they encode, and a digest is *)
(* tagged with what it was taken over.                                     *)
(***************************************************************************)
EXTENDS Naturals, Sequences, FiniteSets

CONSTANTS
    Authorities,      \* the timestamp authorities
    None,
    MaxAttempts,      \* TIMESTAMP_RETRY_MAX_ATTEMPTS
    InitialDelay,     \* TIMESTAMP_RETRY_INITIAL_DELAY
    MaxDelay,         \* TIMESTAMP_RETRY_MAX_DELAY
    Budget,           \* TIMESTAMP_RETRY_TOTAL_BUDGET
    MaxRotations      \* bound: certificate changes of the authorities

VARIABLES
    asm,              \* the document being finished
    gen               \* the certificate each authority signs with now

asmVars == <<asm, gen>>

\* The certificates of a verified path of owner a with own certificate n.
Path(a, n) == {<<a, 0>>, <<a, n>>}

\* Nothing is being finished.
IdleAsm == [stage |-> "Idle"]

InitAssemble ==
    /\ asm = IdleAsm
    /\ gen = [a \in Authorities |-> 1]

-----------------------------------------------------------------------------
\* requires_long_term_material: an archive is long term as well.
requires_long_term_material(req) == req.long_term \/ req.archive

\* validate_signing_policy, with the credentials left to the transport.
validate_signing_policy(req) ==
    /\ requires_long_term_material(req) => req.authorities # <<>>
    /\ req.archive => req.format \in {"Pades", "AsicECades"}

\* sole_authority and retry_transient_authority_failures.
sole_authority(req) == Len(req.authorities) = 1

\* The total wait after n failed attempts: the delay doubles up to its
\* ceiling.
Waited[n \in Nat] ==
    IF n = 0 THEN 0
    ELSE LET delay == InitialDelay * 2^(n - 1)
         IN  Waited[n - 1] + (IF delay < MaxDelay THEN delay ELSE MaxDelay)

\* retry_timestamp_query asks again after its n-th transient failure.
retries(req, n) ==
    sole_authority(req) /\ n < MaxAttempts /\ Waited[n] <= Budget

-----------------------------------------------------------------------------
(* The containers. *)

\* for_cms: the signature value as CMS stores it.
for_cms(sig) == [value |-> sig]

\* The signature value as the format stores it: XAdES keeps the card's own
\* encoding inside its ds:SignatureValue element.
stored_value(a) ==
    IF a.req.format = "AsicEXades" THEN [element |-> a.sig] ELSE for_cms(a.sig)

\* signed_data, and the XML signature in its place: the structure around the
\* signature.
signed_data(a, material) ==
    [sig |-> stored_value(a), tokens |-> a.tokens, material |-> material]

Digest(bytes) == [digest |-> bytes]

\* timestamp_digest: the token is over what the format will store.
timestamp_digest(a) == Digest(stored_value(a))

\* The first manifest of an ASiC-E container, made when it was planned.
Manifest(doc) == [manifest |-> Digest([object |-> doc])]

\* ContainerPlan::archive_manifest over the signature it is handed.
container_archive_manifest(doc, signature_der) ==
    [object    |-> Digest([object |-> doc]),
     manifest  |-> Digest(Manifest(doc)),
     signature |-> Digest(signature_der)]

\* DocumentPlan::archive_manifest.
archive_manifest(a) == container_archive_manifest(a.doc, for_cms(a.sig))

\* DocumentPlan::finish: PAdES keeps the material beside the signature, the
\* other formats inside it.
finish(a) ==
    LET inside == IF a.req.format = "Pades" THEN {} ELSE a.store
    IN  [format  |-> a.req.format,
         entries |-> [object    |-> [object |-> a.doc],
                      manifest  |-> Manifest(a.doc),
                      signature |-> signed_data(a, inside)],
         dss     |-> a.store \ inside,
         archive |-> None]

\* finish_archived for ASiC-E with CAdES, and the document timestamp revision
\* of PAdES: the token names what it covers.
finish_archived(a, token) ==
    [finish(a) EXCEPT !.archive = token]

\* What the archive token is requested over.
archive_digest(a) ==
    Digest(IF a.req.format = "AsicECades" THEN archive_manifest(a) ELSE finish(a))

-----------------------------------------------------------------------------
(* The steps of assemble_document. *)

\* finish_document is called with a verified signature.
begin(req, doc, sig) ==
    asm' = [stage |-> "Signature", req |-> req, doc |-> doc, sig |-> sig,
            urls |-> req.authorities, attempts |-> 0, token |-> None,
            tokens |-> {}, store |-> {}, out |-> None]

Fail(why) == asm' = [asm EXCEPT !.stage = "Failed", !.out = [error |-> why]]

\* The loop goes on to the next authority.
NextUrl(a) == [a EXCEPT !.urls = Tail(a.urls), !.attempts = 0, !.token = None]

Asking(stages) == asm.stage \in stages /\ asm.urls # <<>> /\ asm.token = None

\* One POST to the authority at hand: its answer is a token made with the
\* certificate it uses now, a transient failure that a sole authority is asked
\* again for, or a refusal: a final failure, an answer that does not verify,
\* or a time outside the exchange.
post_timestamp_query ==
    /\ Asking({"Signature", "Archive"})
    /\ LET a == Head(asm.urls)
       IN  \/ asm' = [asm EXCEPT !.token = [by |-> a, cert |-> gen[a], over |->
                        IF asm.stage = "Signature" THEN timestamp_digest(asm)
                                                   ELSE archive_digest(asm)]]
           \/ /\ retries(asm.req, asm.attempts + 1)
              /\ asm' = [asm EXCEPT !.attempts = @ + 1]
           \/ asm' = NextUrl(asm)
    /\ UNCHANGED gen

\* timestamp_validation_material for the token just obtained; level T keeps
\* the token without it.  Evidence that cannot be collected for the only
\* authority ends the signing, otherwise the token is dropped.
collect_evidence ==
    /\ asm.stage = "Signature" /\ asm.token # None
    /\ LET kept == [asm EXCEPT !.tokens = @ \cup {asm.token}]
       IN  \/ /\ ~requires_long_term_material(asm.req)
              /\ asm' = NextUrl(kept)
           \/ /\ requires_long_term_material(asm.req)
              /\ \/ asm' = NextUrl([kept EXCEPT
                        !.store = @ \cup Path(asm.token.by, asm.token.cert)])
                 \/ /\ sole_authority(asm.req)
                    /\ Fail("Material")
                 \/ asm' = NextUrl(asm)
    /\ UNCHANGED gen

\* The end of collect_document_timestamps, and the signer's own chain, which
\* starts above the signer's certificate and includes the anchor.  An archived
\* PDF is finished before its archive token is asked for and may fail there.
collect_signer ==
    /\ asm.stage = "Signature" /\ asm.urls = <<>>
    /\ \/ /\ asm.tokens = {}
          /\ asm.req.authorities # <<>> \/ requires_long_term_material(asm.req)
          /\ Fail("Timestamp")
       \/ /\ asm.tokens # {} \/ asm.req.authorities = <<>>
          /\ requires_long_term_material(asm.req)
          /\ Fail("SignerMaterial")
       \/ /\ asm.tokens # {}
          /\ asm.req.archive
          /\ Fail("Document")
       \/ /\ asm.tokens # {} \/ asm.req.authorities = <<>>
          /\ asm' = [asm EXCEPT
                !.stage = IF asm.req.archive THEN "Archive" ELSE "Finish",
                !.urls = IF asm.req.archive THEN asm.req.authorities ELSE <<>>,
                !.store = IF requires_long_term_material(asm.req)
                          THEN @ \cup {<<asm.sig.by, 0>>} ELSE @]
    /\ UNCHANGED gen

\* Mutation: the archive token's path is not compared with the store.
require_archive_path_covered_Skip(token, store) == TRUE

\* require_archive_path_covered.
require_archive_path_covered(token, store) ==
    Path(token.by, token.cert) \subseteq store

\* first_answering_token and authenticate_archive_timestamp: the first token
\* whose path is covered and whose evidence is current is taken.
authenticate_archive_timestamp ==
    /\ asm.stage = "Archive" /\ asm.token # None
    /\ \/ /\ require_archive_path_covered(asm.token, asm.store)
          /\ \/ asm' = [asm EXCEPT !.stage = "Finished", !.out =
                            finish_archived(asm, asm.token)]
             \/ Fail("Document")
             \/ /\ sole_authority(asm.req)
                /\ Fail("Material")
       \/ asm' = NextUrl(asm)
    /\ UNCHANGED gen

\* No authority is left for the archive token.
no_archive_timestamp ==
    /\ asm.stage = "Archive" /\ asm.urls = <<>>
    /\ Fail("Timestamp")
    /\ UNCHANGED gen

\* The document without an archive token; a PDF whose signature outgrew its
\* reserved space, or a container too large, fails here.
finish_plain ==
    /\ asm.stage = "Finish"
    /\ \/ asm' = [asm EXCEPT !.stage = "Finished", !.out = finish(asm)]
       \/ Fail("Document")
    /\ UNCHANGED gen

\* An authority changes the certificate it signs with (external).
rotate(a) ==
    /\ asm.stage \in {"Signature", "Archive"}
    /\ gen[a] <= MaxRotations
    /\ gen' = [gen EXCEPT ![a] = @ + 1]
    /\ UNCHANGED asm

Assemble ==
    \/ post_timestamp_query
    \/ collect_evidence
    \/ collect_signer
    \/ authenticate_archive_timestamp
    \/ no_archive_timestamp
    \/ finish_plain

-----------------------------------------------------------------------------
(* Properties *)

\* A document finished at level LT or LTA carries the evidence for everything
\* that attests it: the signer's chain, the path of every timestamp token in
\* it, and the path of the archive token, even if an authority changed its
\* certificate between its two tokens (require_archive_path_covered).
LtIsComplete ==
    asm.stage = "Finished" /\ requires_long_term_material(asm.req) =>
        LET doc == asm.out
            cms == doc.entries.signature
            store == cms.material \cup doc.dss
        IN  /\ cms.tokens # {}
            /\ <<asm.sig.by, 0>> \in store
            /\ \A t \in cms.tokens : t.over = Digest(cms.sig)
            /\ \A t \in cms.tokens \cup ({doc.archive} \ {None}) :
                   Path(t.by, t.cert) \subseteq store
            /\ asm.req.archive => doc.archive # None

\* The archive manifest records what the container holds: "a second manifest
\* lists the data objects, the first manifest and the signature, each with a
\* digest, and a timestamp over that manifest attests the lot" (asic.rs,
\* ContainerPlan::archive_manifest).
ArchiveAttestsContainer ==
    (asm.stage = "Finished" /\ asm.req.archive /\ asm.req.format = "AsicECades") =>
        \A name \in DOMAIN asm.out.entries :
            asm.out.archive.over.digest[name] = Digest(asm.out.entries[name])
=============================================================================
