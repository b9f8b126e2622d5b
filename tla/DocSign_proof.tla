--------------------------- MODULE DocSign_proof ---------------------------
(***************************************************************************)
(* The properties of DocSign and of DocAssemble inside it hold for every   *)
(* run of requests, every set of cards and authorities, and every bound.   *)
(***************************************************************************)
EXTENDS DocSign, FiniteSetTheorems, TLAPS

-----------------------------------------------------------------------------
(* The inductive invariant. *)

Stages == {"Idle", "Opened", "Prepared", "Entered", "Batch", "Verified", "Finishing"}
AsmStages == {"Signature", "Archive", "Finish", "Finished", "Failed"}
AsmFields == {"stage", "req", "doc", "sig", "urls", "attempts", "token", "tokens",
              "store", "out"}

\* Every token kept is over the signature as the format stores it, and at the
\* long-term levels its path is in the store.
TokensOK(a) ==
    \A t \in a.tokens :
        /\ t.over = timestamp_digest(a)
        /\ requires_long_term_material(a.req) => Path(t.by, t.cert) \subseteq a.store

\* What collect_signer leaves for the stages after it.
SignerCollected(a) ==
    requires_long_term_material(a.req) => a.tokens # {} /\ <<a.sig.by, 0>> \in a.store

\* The document being finished.
AsmOK(a) ==
    /\ DOMAIN a = AsmFields
    /\ a.stage \in AsmStages
    /\ validate_signing_policy(a.req)
    /\ TokensOK(a)
    /\ a.stage = "Signature" /\ a.token # None => a.token.over = timestamp_digest(a)
    /\ a.stage \in {"Archive", "Finish"} => SignerCollected(a)
    /\ a.stage = "Finish" => ~a.req.archive

AsmInv == (asm = IdleAsm \/ AsmOK(asm)) /\ LtIsComplete

\* The flow: what was refused, prepared and verified before each stage.
FlowInv ==
    /\ DOMAIN flow = {"stage", "doc", "prepared", "sigs"}
    /\ flow.stage \in Stages
    /\ flow.doc \in Nat
    /\ requests \in Seq(Requests)
    /\ card \in Cards
    /\ flow.stage \in {"Opened", "Prepared", "Entered"} =>
           device = "reader" /\ flow.doc \in DOMAIN requests /\ validate_signing_policy(Req)
    /\ flow.stage \in {"Prepared", "Entered"} =>
           flow.prepared \in Cards /\ (Req.shown # None => Serial[flow.prepared] = Req.shown)
    /\ flow.stage \in {"Batch", "Verified"} => device = "phone"
    /\ flow.stage \in {"Batch", "Verified", "Finishing"} /\ device = "phone" =>
           \A i \in DOMAIN requests : validate_signing_policy(requests[i])
    /\ flow.stage \in {"Verified", "Finishing"} /\ device = "phone" =>
           DOMAIN flow.sigs = 1..Len(requests) /\ verify_returned(flow.sigs)
    /\ flow.stage = "Finishing" =>
           asm # IdleAsm /\ verify_against_certificate(flow.prepared, flow.doc, asm.sig)

\* One use of an entry.
UseRecords ==
    [entry : Nat, role : Roles, card : Cards, prepared : Cards, typed : Cards,
     shown : {Serial[c] : c \in Cards} \cup {None}, left : Nat,
     verify : BOOLEAN, signed : BOOLEAN]

\* The entry held: a new one, or one all of whose uses ended in a signature.
HeldOK(a) ==
    /\ DOMAIN a = {"role", "digits", "card", "n"} /\ a.card \in Cards
    /\ \/ a.n = Cardinality(Entries) + 1
       \/ /\ a.n \in Entries
          /\ \A i \in DOMAIN uses : uses[i].entry = a.n => uses[i].signed

\* Entries are numbered from 1 without a gap, and every use was as agreed, up
\* to the serials of the two cards.
EntryInv ==
    /\ tries \in [Cards -> [Roles -> Nat]]
    /\ uses \in Seq(UseRecords)
    /\ Entries = 1..Cardinality(Entries)
    /\ Cardinality(Entries) \in Nat
    /\ answer # None => HeldOK(answer)
    /\ flow.stage = "Entered" => HeldOK(answer)
    /\ \A i \in DOMAIN uses : uses[i].verify =>
           Serial[uses[i].card] = Serial[uses[i].prepared] /\ uses[i].left >= Floor
    /\ \A i, j \in DOMAIN uses :
           i < j /\ uses[i].entry = uses[j].entry => uses[i].signed

IInv == AsmInv /\ FlowInv /\ EntryInv /\ WrittenIsVerified

-----------------------------------------------------------------------------
(* Finishing a document. *)

\* A failed document, and the loop over the authorities, keep what is known.
LEMMA FailKeeps ==
    ASSUME NEW why, AsmOK(asm), Fail(why)
    PROVE  AsmOK(asm') /\ asm'.sig = asm.sig /\ asm'.stage = "Failed"
<1>1. /\ DOMAIN asm' = DOMAIN asm
      /\ asm'.stage = "Failed"
      /\ asm'.req = asm.req /\ asm'.sig = asm.sig
      /\ asm'.tokens = asm.tokens /\ asm'.store = asm.store
  BY DEF AsmOK, AsmFields, Fail
<1>2. TokensOK(asm')
  BY <1>1 DEF AsmOK, TokensOK, timestamp_digest, stored_value, for_cms
<1> QED
  BY <1>1, <1>2 DEF AsmOK, AsmStages

\* Moving to the next URL forgets the token at hand and keeps what was gathered.
LEMMA NextUrlFields ==
    ASSUME NEW a, DOMAIN a = AsmFields
    PROVE  LET b == NextUrl(a)
           IN  /\ DOMAIN b = AsmFields
               /\ b.stage = a.stage /\ b.req = a.req /\ b.sig = a.sig
               /\ b.tokens = a.tokens /\ b.store = a.store /\ b.token = None
  BY DEF NextUrl, AsmFields

\* So it keeps what holds of the document being finished.
LEMMA NextUrlKeeps ==
    ASSUME NEW a, AsmOK(a)
    PROVE  AsmOK(NextUrl(a)) /\ NextUrl(a).sig = a.sig /\ NextUrl(a).stage = a.stage
<1> DEFINE b == NextUrl(a)
<1>1. /\ DOMAIN b = AsmFields
      /\ b.stage = a.stage /\ b.req = a.req /\ b.sig = a.sig
      /\ b.tokens = a.tokens /\ b.store = a.store /\ b.token = None
  BY NextUrlFields DEF AsmOK
<1> HIDE DEF b
<1>2. TokensOK(b)
  BY <1>1 DEF AsmOK, TokensOK, timestamp_digest, stored_value, for_cms
<1>3. AsmOK(b)
  BY <1>1, <1>2 DEF AsmOK, SignerCollected
<1> QED
  BY <1>1, <1>3 DEF b

\* An assembly step is taken by a document that is being finished.
LEMMA AsmNow ==
    ASSUME AsmInv, asm.stage # "Idle"
    PROVE  AsmOK(asm)
  BY DEF AsmInv, IdleAsm

\* Completeness is about finished documents only.
LEMMA Unfinished ==
    ASSUME asm.stage # "Finished"
    PROVE  LtIsComplete
  BY DEF LtIsComplete

\* A timestamp query, answered, refused or misused, keeps the document's part.
LEMMA QueryKeeps ==
    ASSUME AsmInv, post_timestamp_query
    PROVE  AsmOK(asm') /\ LtIsComplete' /\ asm'.sig = asm.sig
<1> DEFINE a == Head(asm.urls)
<1>1. asm.stage \in {"Signature", "Archive"} /\ asm.token = None
  BY DEF post_timestamp_query, Asking
<1>2. AsmOK(asm)
  BY <1>1, AsmNow
<1>3. ASSUME NEW over, asm.stage = "Signature" => over = timestamp_digest(asm),
             NEW cert, asm' = [asm EXCEPT !.token = [by |-> a, cert |-> cert, over |-> over]]
      PROVE  AsmOK(asm') /\ asm'.sig = asm.sig /\ asm'.stage = asm.stage
  <2> HIDE DEF a
  <2>1. /\ DOMAIN asm' = DOMAIN asm /\ asm'.stage = asm.stage
        /\ asm'.req = asm.req /\ asm'.sig = asm.sig
        /\ asm'.tokens = asm.tokens /\ asm'.store = asm.store
        /\ asm'.token.over = over
    BY <1>2, <1>3 DEF AsmOK, AsmFields
  <2>2. TokensOK(asm') /\ timestamp_digest(asm') = timestamp_digest(asm)
    BY <1>2, <2>1 DEF AsmOK, TokensOK, timestamp_digest, stored_value, for_cms
  <2> QED
    BY <1>2, <1>3, <2>1, <2>2 DEF AsmOK, SignerCollected
<1>4. CASE asm' = [asm EXCEPT !.attempts = @ + 1]
  <2>1. /\ DOMAIN asm' = DOMAIN asm /\ asm'.stage = asm.stage
        /\ asm'.req = asm.req /\ asm'.sig = asm.sig
        /\ asm'.tokens = asm.tokens /\ asm'.store = asm.store
        /\ asm'.token = asm.token
    BY <1>2, <1>4 DEF AsmOK, AsmFields
  <2>2. TokensOK(asm') /\ timestamp_digest(asm') = timestamp_digest(asm)
    BY <1>2, <2>1 DEF AsmOK, TokensOK, timestamp_digest, stored_value, for_cms
  <2>3. AsmOK(asm')
    BY <1>2, <2>1, <2>2 DEF AsmOK, SignerCollected
  <2> QED
    BY <1>1, <2>1, <2>3 DEF LtIsComplete
<1>5. CASE asm' = NextUrl(asm)
  BY <1>1, <1>2, <1>5, NextUrlKeeps DEF LtIsComplete
<1>6. CASE asm' = [asm EXCEPT !.token = [by |-> a, cert |-> gen[a], over |->
                        IF asm.stage = "Signature" THEN timestamp_digest(asm)
                                                   ELSE archive_digest(asm)]]
  <2> DEFINE over == IF asm.stage = "Signature" THEN timestamp_digest(asm)
                                                ELSE archive_digest(asm)
  <2>1. asm.stage = "Signature" => over = timestamp_digest(asm)
    OBVIOUS
  <2>2. asm' = [asm EXCEPT !.token = [by |-> a, cert |-> gen[a], over |-> over]]
    BY <1>6
  <2> HIDE DEF over
  <2>3. AsmOK(asm') /\ asm'.sig = asm.sig /\ asm'.stage = asm.stage
    BY <2>1, <2>2, <1>3
  <2> QED
    BY <1>1, <2>3 DEF LtIsComplete
<1> QED
  BY <1>4, <1>5, <1>6 DEF post_timestamp_query

\* So does collecting the evidence of a token.
LEMMA EvidenceKeeps ==
    ASSUME AsmInv, collect_evidence
    PROVE  AsmOK(asm') /\ LtIsComplete' /\ asm'.sig = asm.sig
<1> DEFINE kept == [asm EXCEPT !.tokens = @ \cup {asm.token}]
           more == [kept EXCEPT !.store = @ \cup Path(asm.token.by, asm.token.cert)]
<1>1. asm.stage = "Signature" /\ asm.token # None
  BY DEF collect_evidence
<1>2. AsmOK(asm)
  BY <1>1, AsmNow
<1>3. /\ DOMAIN kept = AsmFields /\ kept.stage = "Signature"
      /\ kept.req = asm.req /\ kept.sig = asm.sig /\ kept.token = asm.token
      /\ kept.tokens = asm.tokens \cup {asm.token} /\ kept.store = asm.store
  BY <1>1, <1>2 DEF AsmOK, AsmFields
<1> HIDE DEF kept
<1>4. /\ DOMAIN more = AsmFields /\ more.stage = "Signature"
      /\ more.req = asm.req /\ more.sig = asm.sig /\ more.token = asm.token
      /\ more.tokens = asm.tokens \cup {asm.token}
      /\ more.store = asm.store \cup Path(asm.token.by, asm.token.cert)
  BY <1>3 DEF AsmFields
<1> HIDE DEF more
<1>5. ASSUME ~requires_long_term_material(asm.req)
      PROVE  AsmOK(kept)
  <2>1. timestamp_digest(kept) = timestamp_digest(asm)
    BY <1>3 DEF timestamp_digest, stored_value, for_cms
  <2>2. TokensOK(kept)
    BY <1>1, <1>2, <1>3, <1>5, <2>1 DEF AsmOK, TokensOK
  <2> QED
    BY <1>1, <1>2, <1>3, <2>1, <2>2 DEF AsmOK
<1>6. AsmOK(more)
  <2>1. timestamp_digest(more) = timestamp_digest(asm)
    BY <1>4 DEF timestamp_digest, stored_value, for_cms
  <2>2. TokensOK(more)
    BY <1>1, <1>2, <1>4, <2>1 DEF AsmOK, TokensOK
  <2> QED
    BY <1>1, <1>2, <1>4, <2>1, <2>2 DEF AsmOK
<1>7. CASE ~requires_long_term_material(asm.req) /\ asm' = NextUrl(kept)
  BY <1>3, <1>5, <1>7, NextUrlKeeps DEF LtIsComplete
<1>8. CASE asm' = NextUrl(more)
  BY <1>4, <1>6, <1>8, NextUrlKeeps DEF LtIsComplete
<1>9. CASE Fail("Material")
  BY <1>2, <1>9, FailKeeps DEF LtIsComplete
<1>10. CASE asm' = NextUrl(asm)
  BY <1>1, <1>2, <1>10, NextUrlKeeps DEF LtIsComplete
<1> QED
  BY <1>7, <1>8, <1>9, <1>10 DEF collect_evidence, kept, more

\* So does collecting the evidence of the signer's chain.
LEMMA SignerKeeps ==
    ASSUME AsmInv, collect_signer
    PROVE  AsmOK(asm') /\ LtIsComplete' /\ asm'.sig = asm.sig
<1>1. asm.stage = "Signature"
  BY DEF collect_signer
<1>2. AsmOK(asm)
  BY <1>1, AsmNow
<1>3. ASSUME NEW why, Fail(why)
      PROVE  AsmOK(asm') /\ LtIsComplete' /\ asm'.sig = asm.sig
  BY <1>2, <1>3, FailKeeps DEF LtIsComplete
<1>4. CASE /\ asm.tokens # {} \/ asm.req.authorities = <<>>
           /\ asm' = [asm EXCEPT
                !.stage = IF asm.req.archive THEN "Archive" ELSE "Finish",
                !.urls = IF asm.req.archive THEN asm.req.authorities ELSE <<>>,
                !.store = IF requires_long_term_material(asm.req)
                          THEN @ \cup {<<asm.sig.by, 0>>} ELSE @]
  <2>1. /\ DOMAIN asm' = DOMAIN asm
        /\ asm'.stage = IF asm.req.archive THEN "Archive" ELSE "Finish"
        /\ asm'.req = asm.req /\ asm'.sig = asm.sig /\ asm'.tokens = asm.tokens
        /\ asm'.store = IF requires_long_term_material(asm.req)
                        THEN asm.store \cup {<<asm.sig.by, 0>>} ELSE asm.store
    BY <1>2, <1>4 DEF AsmOK, AsmFields
  <2>2. timestamp_digest(asm') = timestamp_digest(asm)
    BY <2>1 DEF timestamp_digest, stored_value, for_cms
  <2>3. TokensOK(asm')
    BY <1>2, <2>1, <2>2 DEF AsmOK, TokensOK
  <2>4. SignerCollected(asm')
    BY <1>2, <1>4, <2>1 DEF AsmOK, SignerCollected, validate_signing_policy
  <2>5. AsmOK(asm')
    BY <1>2, <2>1, <2>3, <2>4 DEF AsmOK, AsmStages
  <2> QED
    BY <2>1, <2>5 DEF LtIsComplete
<1> QED
  BY <1>3, <1>4 DEF collect_signer

\* What DocumentPlan::finish returns.
LEMMA FinishFields ==
    ASSUME NEW a
    PROVE  LET doc == finish(a)
           IN  /\ DOMAIN doc = {"format", "entries", "dss", "archive"}
               /\ doc.entries.signature.sig = stored_value(a)
               /\ doc.entries.signature.tokens = a.tokens
               /\ doc.entries.signature.material \cup doc.dss = a.store
               /\ doc.archive = None
  BY DEF finish, signed_data

\* A finished document whose store holds the path of its archive token, if it
\* was to have one, is complete.
LEMMA Complete ==
    ASSUME asm'.stage = "Finished", AsmOK(asm), SignerCollected(asm),
           asm'.req = asm.req, asm'.sig = asm.sig,
           asm'.out.entries = finish(asm).entries, asm'.out.dss = finish(asm).dss,
           \/ asm'.out.archive = None /\ ~asm.req.archive
           \/ /\ asm'.out.archive # None
              /\ require_archive_path_covered(asm'.out.archive, asm.store)
    PROVE  LtIsComplete'
<1> SUFFICES ASSUME requires_long_term_material(asm.req)
             PROVE  LtIsComplete'
  BY DEF LtIsComplete
<1> DEFINE doc == asm'.out
           cms == doc.entries.signature
           store == cms.material \cup doc.dss
<1>1. /\ cms.sig = stored_value(asm) /\ cms.tokens = asm.tokens
      /\ store = asm.store
  BY FinishFields, ZenonT(60)
<1>2. cms.tokens # {} /\ <<asm.sig.by, 0>> \in store
  BY <1>1 DEF SignerCollected
<1>3. \A t \in cms.tokens : t.over = Digest(cms.sig)
  BY <1>1 DEF AsmOK, TokensOK, timestamp_digest
<1>4. \A t \in cms.tokens : Path(t.by, t.cert) \subseteq store
  BY <1>1 DEF AsmOK, TokensOK
<1>5. \A t \in {doc.archive} \ {None} : Path(t.by, t.cert) \subseteq store
  BY <1>1 DEF require_archive_path_covered
<1>6. asm.req.archive => doc.archive # None
  OBVIOUS
<1> HIDE DEF store
<1>7. \A t \in cms.tokens \cup ({doc.archive} \ {None}) : Path(t.by, t.cert) \subseteq store
  BY <1>4, <1>5
<1> QED
  BY <1>2, <1>3, <1>6, <1>7, Zenon DEF LtIsComplete, store

\* So does authenticating the archive token, which checks that its path is covered.
LEMMA ArchiveKeeps ==
    ASSUME AsmInv, authenticate_archive_timestamp
    PROVE  AsmOK(asm') /\ LtIsComplete' /\ asm'.sig = asm.sig
<1>1. asm.stage = "Archive" /\ asm.token # None
  BY DEF authenticate_archive_timestamp
<1>2. AsmOK(asm) /\ SignerCollected(asm)
  BY <1>1, AsmNow DEF AsmOK
<1>3. ASSUME NEW why, Fail(why)
      PROVE  AsmOK(asm') /\ LtIsComplete' /\ asm'.sig = asm.sig
  BY <1>2, <1>3, FailKeeps DEF LtIsComplete
<1>4. CASE /\ require_archive_path_covered(asm.token, asm.store)
           /\ asm' = [asm EXCEPT !.stage = "Finished", !.out =
                            finish_archived(asm, asm.token)]
  <2> DEFINE doc == finish_archived(asm, asm.token)
  <2>1. /\ doc.entries = finish(asm).entries /\ doc.dss = finish(asm).dss
        /\ doc.archive = asm.token
    BY FinishFields DEF finish_archived
  <2> HIDE DEF doc
  <2>2. /\ DOMAIN asm' = DOMAIN asm /\ asm'.stage = "Finished"
        /\ asm'.req = asm.req /\ asm'.sig = asm.sig
        /\ asm'.tokens = asm.tokens /\ asm'.store = asm.store
        /\ asm'.out = doc
    BY <1>2, <1>4 DEF AsmOK, AsmFields, doc
  <2>3. TokensOK(asm')
    BY <1>2, <2>2 DEF AsmOK, TokensOK, timestamp_digest, stored_value, for_cms
  <2>4. AsmOK(asm')
    BY <1>2, <2>2, <2>3 DEF AsmOK, AsmStages
  <2>5. LtIsComplete'
    BY <1>1, <1>2, <1>4, <2>1, <2>2, Complete
  <2> QED
    BY <2>2, <2>4, <2>5
<1>5. CASE asm' = NextUrl(asm)
  BY <1>1, <1>2, <1>5, NextUrlKeeps DEF LtIsComplete
<1> QED
  BY <1>3, <1>4, <1>5 DEF authenticate_archive_timestamp

\* So does finishing a document below level LT.
LEMMA PlainKeeps ==
    ASSUME AsmInv, finish_plain
    PROVE  AsmOK(asm') /\ LtIsComplete' /\ asm'.sig = asm.sig
<1>1. asm.stage = "Finish"
  BY DEF finish_plain
<1>2. AsmOK(asm) /\ SignerCollected(asm) /\ ~asm.req.archive
  BY <1>1, AsmNow DEF AsmOK
<1>3. CASE Fail("Document")
  BY <1>2, <1>3, FailKeeps DEF LtIsComplete
<1>4. CASE asm' = [asm EXCEPT !.stage = "Finished", !.out = finish(asm)]
  <2>1. /\ DOMAIN asm' = DOMAIN asm /\ asm'.stage = "Finished"
        /\ asm'.req = asm.req /\ asm'.sig = asm.sig
        /\ asm'.tokens = asm.tokens /\ asm'.store = asm.store
        /\ asm'.out = finish(asm)
    BY <1>2, <1>4 DEF AsmOK, AsmFields
  <2>2. TokensOK(asm')
    BY <1>2, <2>1 DEF AsmOK, TokensOK, timestamp_digest, stored_value, for_cms
  <2>3. AsmOK(asm')
    BY <1>2, <2>1, <2>2 DEF AsmOK, AsmStages
  <2>4. asm'.out.archive = None
    BY <2>1, FinishFields
  <2>5. LtIsComplete'
    BY <1>2, <2>1, <2>4, Complete
  <2> QED
    BY <2>1, <2>3, <2>5
<1> QED
  BY <1>3, <1>4 DEF finish_plain

\* Every step of assemble_document keeps the invariant and the signature.
LEMMA AssembleKeeps ==
    ASSUME AsmInv, Assemble
    PROVE  AsmInv' /\ asm' # IdleAsm /\ asm'.sig = asm.sig
<1>1. CASE no_archive_timestamp
  <2>1. AsmOK(asm)
    BY <1>1, AsmNow DEF no_archive_timestamp
  <2> QED
    BY <1>1, <2>1, FailKeeps DEF no_archive_timestamp, AsmInv, LtIsComplete, IdleAsm
<1>2. AsmOK(asm') /\ LtIsComplete' /\ asm'.sig = asm.sig =>
          AsmInv' /\ asm' # IdleAsm /\ asm'.sig = asm.sig
  BY DEF AsmInv, AsmOK, AsmStages, IdleAsm
<1> QED
  BY <1>1, <1>2, QueryKeeps, EvidenceKeeps, SignerKeeps, ArchiveKeeps, PlainKeeps
     DEF Assemble

\* finish_document begins with a request that passed validate_signing_policy.
LEMMA BeginOK ==
    ASSUME NEW req, NEW doc, NEW sig, begin(req, doc, sig), validate_signing_policy(req)
    PROVE  AsmInv' /\ asm' # IdleAsm /\ asm'.sig = sig
<1>1. /\ DOMAIN asm' = AsmFields /\ asm'.stage = "Signature"
      /\ asm'.req = req /\ asm'.sig = sig /\ asm'.token = None /\ asm'.tokens = {}
  BY DEF begin, AsmFields
<1>2. AsmOK(asm')
  BY <1>1 DEF AsmOK, AsmStages, TokensOK
<1> QED
  BY <1>1, <1>2 DEF AsmInv, LtIsComplete, IdleAsm

-----------------------------------------------------------------------------
(* The run. *)

\* The invariant holds before a run.
LEMMA InitInv ==
    ASSUME Init
    PROVE  IInv
<1>1. AsmInv
  BY DEF Init, InitAssemble, AsmInv, LtIsComplete, IdleAsm
<1>2. FlowInv
  BY RunsAssumption DEF Init, FlowInv, IdleFlow, Stages
<1>3. EntryInv
  <2>1. Entries = {} /\ uses = <<>> /\ uses \in Seq(UseRecords) /\ DOMAIN uses = {}
    BY DEF Init, Entries
  <2>2. Cardinality(Entries) = 0 /\ Entries = 1..0
    BY <2>1, FS_EmptySet
  <2>3. tries \in [Cards -> [Roles -> Nat]]
    BY TriesAssumption DEF Init
  <2> QED
    BY <2>1, <2>2, <2>3 DEF Init, EntryInv, IdleFlow
<1>4. WrittenIsVerified
  BY DEF Init, WrittenIsVerified, Outcome
<1> QED
  BY <1>1, <1>2, <1>3, <1>4 DEF IInv

\* Only the steps of the assembly and the two places that begin it change asm.
LEMMA AsmNext ==
    ASSUME IInv, [Next]_vars
    PROVE  AsmInv'
<1>1. ASSUME UNCHANGED asm
      PROVE  AsmInv'
  BY <1>1 DEF IInv, AsmInv, LtIsComplete
<1>2. CASE pin_sequence
  <2>1. validate_signing_policy(Req)
    BY <1>2 DEF pin_sequence, IInv, FlowInv
  <2> QED
    BY <1>1, <1>2, <2>1, BeginOK, Zenon DEF pin_sequence, commit_failed, asmVars
<1>3. CASE finish_phone_document
  <2> DEFINE i == flow.doc + 1
  <2>1. i \in DOMAIN requests /\ device = "phone"
    BY <1>3 DEF finish_phone_document, IInv, FlowInv
  <2>2. validate_signing_policy(requests[i])
    BY <1>3, <2>1 DEF finish_phone_document, IInv, FlowInv
  <2> QED
    BY <1>3, <2>2, BeginOK DEF finish_phone_document
<1>4. CASE assemble
  BY <1>4, AssembleKeeps DEF assemble, IInv
<1>5. CASE write
  BY <1>5 DEF write, AsmInv, LtIsComplete, IdleAsm
<1> QED
  BY <1>1, <1>2, <1>3, <1>4, <1>5, Zenon DEF Next, vars, asmVars, sign, prepare_on_card, pin,
     sign_on_phone, phone_answers, exchange_card, others_spend, rotate_certificate, rotate

\* A document ends: the flow is idle again and its document is the same.
LEMMA EndedFlow ==
    ASSUME FlowInv, EndDocument, UNCHANGED requests, card' \in Cards
    PROVE  FlowInv'
<1>1. /\ DOMAIN flow' = DOMAIN flow /\ flow'.stage = "Idle" /\ flow'.doc = flow.doc
  BY DEF FlowInv, EndDocument
<1> QED
  BY <1>1 DEF FlowInv, Stages

\* A step that leaves the run alone.
LEMMA SameFlow ==
    ASSUME FlowInv, UNCHANGED <<flow, requests, device>>, card' \in Cards,
           flow.stage = "Finishing" => asm' # IdleAsm /\ asm'.sig = asm.sig
    PROVE  FlowInv'
  BY DEF FlowInv, Req, verify_returned, verify_against_certificate

\* The steps with a card in a reader keep the order of the stages.
LEMMA ReaderFlow ==
    ASSUME FlowInv, sign \/ prepare_on_card \/ pin \/ pin_sequence
    PROVE  FlowInv'
<1>1. /\ DOMAIN flow = {"stage", "doc", "prepared", "sigs"}
      /\ flow.doc \in Nat /\ card \in Cards /\ requests \in Seq(Requests)
  BY DEF FlowInv
<1>2. CASE sign
  <2>1. UNCHANGED <<requests, card, device>> /\ device = "reader"
    BY <1>2 DEF sign, cardVars
  <2>2. flow.doc + 1 \in Nat
    BY <1>1
  <2>3. CASE flow' = [flow EXCEPT !.doc = flow.doc + 1]
    <3>1. DOMAIN flow' = DOMAIN flow /\ flow'.stage = "Idle" /\ flow'.doc = flow.doc + 1
      BY <1>1, <1>2, <2>3 DEF sign
    <3> QED
      BY <1>1, <2>1, <2>2, <3>1, Zenon DEF FlowInv, Stages
  <2>4. CASE /\ validate_signing_policy(requests[flow.doc + 1])
             /\ flow' = [flow EXCEPT !.doc = flow.doc + 1, !.stage = "Opened"]
    <3>1. DOMAIN flow' = DOMAIN flow /\ flow'.stage = "Opened" /\ flow'.doc = flow.doc + 1
      BY <1>1, <2>4
    <3>2. flow.doc + 1 \in DOMAIN requests
      BY <1>1, <1>2 DEF sign
    <3>3. validate_signing_policy(Req)' /\ flow'.doc \in DOMAIN requests'
      BY <2>1, <2>4, <3>1, <3>2, Zenon DEF Req, validate_signing_policy
    <3> QED
      BY <1>1, <2>1, <2>2, <3>1, <3>3, Zenon DEF FlowInv, Stages
  <2> QED
    BY <1>2, <2>3, <2>4 DEF sign
<1>3. CASE prepare_on_card
  <2>1. UNCHANGED <<requests, card, device>>
    BY <1>3 DEF prepare_on_card, cardVars
  <2>2. CASE EndDocument
    BY <1>1, <2>1, <2>2, EndedFlow
  <2>3. CASE /\ ensure_displayed_card(Req.shown)
             /\ flow' = [flow EXCEPT !.stage = "Prepared", !.prepared = card]
    <3>1. /\ DOMAIN flow' = DOMAIN flow /\ flow'.stage = "Prepared"
          /\ flow'.doc = flow.doc /\ flow'.prepared = card
      BY <1>1, <2>3
    <3>2. /\ flow.stage = "Opened" /\ flow.doc \in DOMAIN requests
          /\ device = "reader" /\ validate_signing_policy(Req)
      BY <1>3 DEF prepare_on_card, FlowInv
    <3>3. Req' = Req
      BY <2>1, <3>1 DEF Req
    <3>4. Req.shown # None => Serial[card] = Req.shown
      BY <2>3 DEF ensure_displayed_card
    <3> QED
      BY <1>1, <2>1, <3>1, <3>2, <3>3, <3>4 DEF FlowInv, Stages
  <2> QED
    BY <1>3, <2>2, <2>3 DEF prepare_on_card
<1>4. CASE pin
  <2>1. UNCHANGED <<requests, card, device>>
    BY <1>4 DEF pin, cardVars
  <2>2. CASE EndDocument
    BY <1>1, <2>1, <2>2, EndedFlow
  <2>3. CASE flow' = [flow EXCEPT !.stage = "Entered"]
    <3>1. /\ DOMAIN flow' = DOMAIN flow /\ flow'.stage = "Entered"
          /\ flow'.doc = flow.doc /\ flow'.prepared = flow.prepared
      BY <1>1, <2>3
    <3> QED
      BY <1>1, <1>4, <2>1, <3>1 DEF FlowInv, Stages, Req, pin
  <2> QED
    BY <1>4, <2>2, <2>3 DEF pin
<1>5. CASE pin_sequence
  <2>1. UNCHANGED <<requests, card, device>> /\ flow.stage = "Entered"
    BY <1>5 DEF pin_sequence
  <2>2. CASE EndDocument
    BY <1>1, <2>1, <2>2, EndedFlow
  <2>3. ASSUME NEW sig, verify_against_certificate(flow.prepared, flow.doc, sig),
               begin(Req, flow.doc, sig), flow' = [flow EXCEPT !.stage = "Finishing"]
        PROVE  FlowInv'
    <3>1. /\ DOMAIN flow' = DOMAIN flow /\ flow'.stage = "Finishing"
          /\ flow'.doc = flow.doc /\ flow'.prepared = flow.prepared
      BY <1>1, <2>3
    <3>2. device = "reader" /\ validate_signing_policy(Req)
      BY <2>1 DEF FlowInv
    <3>3. asm' # IdleAsm /\ asm'.sig = sig
      BY <2>3, <3>2, BeginOK
    <3> QED
      BY <1>1, <2>1, <2>3, <3>1, <3>2, <3>3
         DEF FlowInv, Stages, verify_against_certificate
  <2> QED
    BY <1>5, <2>2, <2>3, Zenon DEF pin_sequence, commit_failed
<1> QED
  BY <1>2, <1>3, <1>4, <1>5

\* A function on 1..n is a sequence of length n.
LEMMA FunctionAsSeq ==
    ASSUME NEW S, NEW n \in Nat, NEW f \in [1..n -> S]
    PROVE  f \in Seq(S) /\ Len(f) = n
  OBVIOUS

\* Len of an answer of the phone is the length of its domain.
LEMMA AnswerShape ==
    ASSUME requests \in Seq(Requests), NEW returned \in Answers,
           Len(returned) = Len(requests)
    PROVE  DOMAIN returned = 1..Len(requests)
<1>1. Len(requests) \in Nat
  OBVIOUS
<1>2. PICK n \in 0..Len(requests) : returned \in [1..n -> [by : Cards, doc : DOMAIN requests]]
  BY DEF Answers
<1>3. n \in Nat
  BY <1>1
<1>4. returned \in Seq([by : Cards, doc : DOMAIN requests]) /\ Len(returned) = n
  BY <1>2, <1>3, FunctionAsSeq, Zenon
<1> QED
  BY <1>2, <1>4

\* The steps with a phone keep the order of the stages.
LEMMA PhoneFlow ==
    ASSUME FlowInv, sign_on_phone \/ phone_answers \/ finish_phone_document
    PROVE  FlowInv'
<1>1. /\ DOMAIN flow = {"stage", "doc", "prepared", "sigs"}
      /\ flow.doc \in Nat /\ card \in Cards /\ requests \in Seq(Requests)
  BY DEF FlowInv
<1>2. Len(requests) \in Nat
  BY <1>1
<1>3. ASSUME flow' = [flow EXCEPT !.stage = "Idle", !.doc = Len(requests)]
             \/ (flow' = [flow EXCEPT !.doc = Len(requests)] /\ flow.stage = "Idle"),
             UNCHANGED <<requests, card>>
      PROVE  FlowInv'
  <2>1. DOMAIN flow' = DOMAIN flow /\ flow'.stage = "Idle" /\ flow'.doc = Len(requests)
    BY <1>1, <1>3, Zenon
  <2> QED
    BY <1>1, <1>2, <1>3, <2>1 DEF FlowInv, Stages
<1>4. CASE sign_on_phone
  <2>1. UNCHANGED <<requests, card, device>> /\ device = "phone" /\ flow.stage = "Idle"
    BY <1>4, Zenon DEF sign_on_phone, cardVars, IdleFlow
  <2>2. ASSUME \A i \in DOMAIN requests : validate_signing_policy(requests[i]),
               NEW c \in Cards, flow' = [flow EXCEPT !.stage = "Batch", !.prepared = c]
        PROVE  FlowInv'
    <3>1. DOMAIN flow' = DOMAIN flow /\ flow'.stage = "Batch" /\ flow'.doc = flow.doc
      BY <1>1, <2>2
    <3> QED
      BY <1>1, <2>1, <2>2, <3>1 DEF FlowInv, Stages
  <2> QED
    BY <1>3, <1>4, <2>1, <2>2, Zenon DEF sign_on_phone
<1>5. CASE phone_answers
  <2>1. UNCHANGED <<requests, card, device>> /\ device = "phone" /\ flow.stage = "Batch"
    BY <1>5, Zenon DEF phone_answers, cardVars, FlowInv
  <2>2. ASSUME NEW returned \in Answers, verify_returned(returned),
               flow' = [flow EXCEPT !.stage = "Verified", !.sigs = returned]
        PROVE  FlowInv'
    <3>1. /\ DOMAIN flow' = DOMAIN flow /\ flow'.stage = "Verified" /\ flow'.doc = flow.doc
          /\ flow'.prepared = flow.prepared /\ flow'.sigs = returned
      BY <1>1, <2>2
    <3>2. DOMAIN returned = 1..Len(requests)
      BY <1>1, <2>2, AnswerShape DEF verify_returned
    <3>3. \A i \in DOMAIN requests : validate_signing_policy(requests[i])
      BY <2>1, Zenon DEF FlowInv
    <3>4. verify_returned(flow.sigs)'
      BY <2>1, <2>2, <3>1 DEF verify_returned
    <3> QED
      BY <1>1, <2>1, <3>1, <3>2, <3>3, <3>4, Zenon DEF FlowInv, Stages
  <2> QED
    BY <1>3, <1>5, <2>1, <2>2, Zenon DEF phone_answers
<1>6. CASE finish_phone_document
  <2> DEFINE i == flow.doc + 1
  <2>1. /\ UNCHANGED <<requests, card, device>> /\ device = "phone"
        /\ flow.stage = "Verified"
    BY <1>6 DEF finish_phone_document, cardVars, FlowInv
  <2>2. i \in Nat /\ i \in DOMAIN requests /\ i \in 1..Len(requests)
    BY <1>1, <1>6 DEF finish_phone_document
  <2>3. /\ DOMAIN flow.sigs = 1..Len(requests) /\ verify_returned(flow.sigs)
        /\ \A k \in DOMAIN requests : validate_signing_policy(requests[k])
    BY <2>1 DEF FlowInv
  <2>4. begin(requests[i], i, flow.sigs[i]) /\ flow' = [flow EXCEPT !.stage = "Finishing", !.doc = i]
    BY <1>6 DEF finish_phone_document
  <2>5. asm' # IdleAsm /\ asm'.sig = flow.sigs[i]
    BY <2>2, <2>3, <2>4, BeginOK
  <2>6. verify_against_certificate(flow.prepared, i, flow.sigs[i])
    BY <2>2, <2>3 DEF verify_returned
  <2> HIDE DEF i
  <2>7. /\ DOMAIN flow' = DOMAIN flow /\ flow'.stage = "Finishing" /\ flow'.doc = i
        /\ flow'.prepared = flow.prepared /\ flow'.sigs = flow.sigs
    BY <1>1, <2>4
  <2>8. verify_returned(flow.sigs)'
    BY <2>1, <2>3, <2>7, Zenon DEF verify_returned
  <2>9. verify_against_certificate(flow.prepared, flow.doc, asm.sig)'
    BY <2>5, <2>6, <2>7 DEF verify_against_certificate
  <2> QED
    BY <1>1, <2>1, <2>2, <2>3, <2>5, <2>7, <2>8, <2>9, Zenon DEF FlowInv, Stages
<1> QED
  BY <1>4, <1>5, <1>6

\* Every step keeps the order of the stages.
LEMMA FlowNext ==
    ASSUME IInv, [Next]_vars
    PROVE  FlowInv'
<1>1. FlowInv /\ AsmInv
  BY DEF IInv
<1>2. CASE assemble
  <2>1. asm' # IdleAsm /\ asm'.sig = asm.sig
    BY <1>1, <1>2, AssembleKeeps DEF assemble
  <2>2. card' \in Cards
    BY <1>1, <1>2 DEF assemble, cardVars, FlowInv
  <2> QED
    BY <1>1, <1>2, <2>1, <2>2, SameFlow DEF assemble
<1>3. CASE write
  <2>1. UNCHANGED <<requests, card, device>> /\ flow.stage = "Finishing"
    BY <1>3 DEF write, cardVars
  <2>2. CASE device = "phone"
    <3>1. /\ DOMAIN flow' = DOMAIN flow /\ flow'.stage = "Verified" /\ flow'.doc = flow.doc
          /\ flow'.prepared = flow.prepared /\ flow'.sigs = flow.sigs
      BY <1>1, <1>3, <2>2 DEF FlowInv, write
    <3>2. verify_returned(flow.sigs)'
      BY <1>1, <2>1, <2>2, <3>1 DEF FlowInv, verify_returned
    <3> QED
      BY <1>1, <2>1, <2>2, <3>1, <3>2, Zenon DEF FlowInv, Stages
  <2>3. CASE device # "phone"
    <3>1. DOMAIN flow' = DOMAIN flow /\ flow'.stage = "Idle" /\ flow'.doc = flow.doc
      BY <1>1, <1>3, <2>3 DEF FlowInv, write
    <3> QED
      BY <1>1, <2>1, <3>1, Zenon DEF FlowInv, Stages
  <2> QED
    BY <2>2, <2>3
<1>4. CASE exchange_card
  <2>1. card' \in Cards /\ flow.stage # "Finishing"
    BY <1>4 DEF exchange_card
  <2> QED
    BY <1>1, <1>4, <2>1, SameFlow DEF exchange_card
<1>5. CASE others_spend \/ rotate_certificate \/ UNCHANGED vars
  <2>1. card' \in Cards
    BY <1>1, <1>5 DEF FlowInv, others_spend, rotate_certificate, vars, cardVars
  <2>2. UNCHANGED asm
    BY <1>5 DEF others_spend, rotate_certificate, rotate, vars, asmVars
  <2>3. flow.stage = "Finishing" => asm' # IdleAsm /\ asm'.sig = asm.sig
    BY <1>1, <2>2, Zenon DEF FlowInv
  <2>4. UNCHANGED <<flow, requests, device>>
    BY <1>5 DEF others_spend, rotate_certificate, vars
  <2> QED
    BY <1>1, <2>1, <2>3, <2>4, SameFlow
<1> QED
  BY <1>1, <1>2, <1>3, <1>4, <1>5, ReaderFlow, PhoneFlow DEF Next

\* A failed document is not a written one.
LEMMA FailedKeeps ==
    ASSUME WrittenIsVerified, NEW d, result' = [result EXCEPT ![d] = Outcome("failed")]
    PROVE  WrittenIsVerified'
  BY DEF WrittenIsVerified, Outcome

\* A run whose documents all failed wrote nothing.
LEMMA AllFailedKeeps ==
    ASSUME AllFailed
    PROVE  WrittenIsVerified'
  BY DEF WrittenIsVerified, AllFailed, Outcome

\* Every step writes verified documents only.
LEMMA WrittenNext ==
    ASSUME IInv, [Next]_vars
    PROVE  WrittenIsVerified'
<1>1. WrittenIsVerified
  BY DEF IInv
<1>2. ASSUME UNCHANGED result
      PROVE  WrittenIsVerified'
  BY <1>1, <1>2 DEF WrittenIsVerified
<1>3. ASSUME EndDocument
      PROVE  WrittenIsVerified'
  BY <1>1, <1>3, FailedKeeps, Zenon DEF EndDocument
<1>4. CASE sign
  BY <1>1, <1>2, <1>4, FailedKeeps DEF sign
<1>5. CASE write
  <2>1. asm.sig = [by |-> flow.prepared, doc |-> flow.doc]
    BY <1>5 DEF write, IInv, FlowInv, verify_against_certificate
  <2>2. CASE result' = [result EXCEPT ![flow.doc] = [status |-> "written",
                            sig |-> asm.sig, cert |-> flow.prepared]]
    <3>1. ASSUME NEW i \in DOMAIN result', result'[i].status = "written"
          PROVE  result'[i].sig = [by |-> result'[i].cert, doc |-> i]
      BY <1>1, <2>1, <2>2, <3>1, Zenon DEF WrittenIsVerified
    <3> QED
      BY <3>1, Zenon DEF WrittenIsVerified
  <2>3. CASE result' = [result EXCEPT ![flow.doc] = Outcome("failed")]
    BY <1>1, <2>3, FailedKeeps, Zenon
  <2> QED
    BY <1>5, <2>2, <2>3 DEF write
<1>6. CASE prepare_on_card \/ pin \/ pin_sequence
  BY <1>2, <1>3, <1>6, Zenon DEF prepare_on_card, pin, pin_sequence, commit_failed
<1>7. CASE sign_on_phone \/ phone_answers
  BY <1>2, <1>7, AllFailedKeeps, Zenon DEF sign_on_phone, phone_answers
<1> QED
  BY <1>2, <1>4, <1>5, <1>6, <1>7 DEF Next, vars, finish_phone_document, assemble,
     exchange_card, others_spend, rotate_certificate

-----------------------------------------------------------------------------
(* The uses of a PIN entry. *)

\* A step that uses no entry.
LEMMA SameUses ==
    ASSUME EntryInv, UNCHANGED uses, tries' \in [Cards -> [Roles -> Nat]],
           answer' # None \/ flow'.stage = "Entered" => HeldOK(answer')
    PROVE  EntryInv'
<1>1. Entries' = Entries
  BY DEF Entries
<1>2. HeldOK(answer') => HeldOK(answer)'
  BY <1>1 DEF HeldOK
<1> QED
  BY <1>1, <1>2 DEF EntryInv

\* The role that signs is one of the roles.
LEMMA RolesOK == Role \in Roles
  BY DEF Role, Roles, pin_role

\* The numbers of the entries after one more use.
LEMMA EntriesGrow ==
    ASSUME EntryInv, HeldOK(answer), NEW u \in UseRecords, u.entry = answer.n,
           uses' = Append(uses, u)
    PROVE  /\ Entries' = Entries \cup {answer.n}
           /\ Cardinality(Entries)' \in Nat
           /\ Entries' = 1..Cardinality(Entries)'
<1> DEFINE k == Cardinality(Entries)
<1>1. uses \in Seq(UseRecords) /\ k \in Nat /\ Entries = 1..k
  BY DEF EntryInv
<1>2. /\ DOMAIN uses' = DOMAIN uses \cup {Len(uses) + 1}
      /\ \A i \in DOMAIN uses : uses'[i] = uses[i]
      /\ uses'[Len(uses) + 1] = u
  BY <1>1
<1>3. Entries' = Entries \cup {answer.n}
  BY <1>2, SMTT(30) DEF Entries
<1>4. CASE answer.n \in Entries
  BY <1>1, <1>3, <1>4, Zenon
<1>5. CASE answer.n = k + 1
  <2> HIDE DEF k
  <2>1. 1..k \cup {k + 1} = 1..(k + 1) /\ k + 1 \in Nat
    BY <1>1
  <2>2. Entries' = 1..(k + 1)
    BY <1>1, <1>3, <1>5, <2>1
  <2>3. Cardinality(1..(k + 1)) = k + 1
    BY <1>1, FS_Interval, SMTT(30)
  <2> QED
    BY <1>3, <2>1, <2>2, <2>3, Zenon
<1> QED
  BY <1>3, <1>4, <1>5, Zenon DEF HeldOK

\* The uses with one more at the end.
LEMMA OneMore ==
    ASSUME uses \in Seq(UseRecords), NEW u \in UseRecords, uses' = Append(uses, u)
    PROVE  /\ DOMAIN uses' = DOMAIN uses \cup {Len(uses) + 1}
           /\ DOMAIN uses = 1..Len(uses) /\ Len(uses) \in Nat
           /\ \A i \in DOMAIN uses : uses'[i] = uses[i]
           /\ uses'[Len(uses) + 1] = u
<1> DEFINE s == uses
           t == uses'
<1>1. s \in Seq(UseRecords) /\ t = Append(s, u)
  OBVIOUS
<1> HIDE DEF s, t
<1>2. /\ DOMAIN t = DOMAIN s \cup {Len(s) + 1}
      /\ DOMAIN s = 1..Len(s) /\ Len(s) \in Nat
      /\ \A i \in DOMAIN s : t[i] = s[i]
      /\ t[Len(s) + 1] = u
  BY <1>1, SMTT(30)
<1> QED
  BY <1>2, Zenon DEF s, t

\* What comes before an element.
LEMMA Before ==
    ASSUME NEW n \in Nat, NEW i \in 1..n
    PROVE  \A j \in 1..(i - 1) : j \in 1..n
  OBVIOUS

\* One more use: an entry used before was signed with every time, and an entry
\* whose use ends without a signature is forgotten.
LEMMA OneMoreUse ==
    ASSUME EntryInv, HeldOK(answer), NEW u \in UseRecords, u.entry = answer.n,
           uses' = Append(uses, u), tries' \in [Cards -> [Roles -> Nat]],
           u.verify => Serial[u.card] = Serial[u.prepared] /\ u.left >= Floor,
           flow'.stage # "Entered",
           answer' = None \/ (answer' = answer /\ u.signed)
    PROVE  EntryInv'
<1>1. uses \in Seq(UseRecords) /\ uses' \in Seq(UseRecords)
  BY SMTT(30) DEF EntryInv
<1>2. /\ DOMAIN uses' = DOMAIN uses \cup {Len(uses) + 1}
      /\ DOMAIN uses = 1..Len(uses) /\ Len(uses) \in Nat
      /\ \A i \in DOMAIN uses : uses'[i] = uses[i]
      /\ uses'[Len(uses) + 1] = u
  BY <1>1, OneMore, Zenon
<1>3. /\ Entries' = Entries \cup {answer.n}
      /\ Cardinality(Entries)' \in Nat
      /\ Entries' = 1..Cardinality(Entries)'
  BY EntriesGrow, Zenon
<1>4. \A i \in DOMAIN uses : uses[i].entry = answer.n => uses[i].signed
  <2>1. CASE answer.n = Cardinality(Entries) + 1
    <3>1. answer.n \notin Entries
      BY <2>1, SMTT(30) DEF EntryInv
    <3> QED
      BY <3>1 DEF Entries
  <2> QED
    BY <2>1 DEF HeldOK
<1>5. \A i \in DOMAIN uses' : uses'[i].verify =>
           Serial[uses'[i].card] = Serial[uses'[i].prepared] /\ uses'[i].left >= Floor
  BY <1>2, SMTT(30) DEF EntryInv
<1>6. ASSUME NEW i \in DOMAIN uses', NEW j \in DOMAIN uses',
             i < j, uses'[i].entry = uses'[j].entry
      PROVE  uses'[i].signed
  <2>1. i \in DOMAIN uses
    BY <1>2, <1>6, SMTT(30)
  <2>2. CASE j \in DOMAIN uses
    BY <1>2, <1>6, <2>1, <2>2, Zenon DEF EntryInv
  <2>3. CASE j = Len(uses) + 1
    BY <1>2, <1>4, <1>6, <2>1, <2>3, SMTT(30)
  <2> QED
    BY <1>2, <2>2, <2>3, Zenon
<1>7. answer' # None => HeldOK(answer)'
  <2> SUFFICES ASSUME answer' = answer, u.signed
               PROVE  HeldOK(answer)'
    OBVIOUS
  <2>1. /\ answer.n \in Entries' /\ DOMAIN answer = {"role", "digits", "card", "n"}
        /\ answer.card \in Cards
    BY <1>3, Zenon DEF HeldOK
  <2>2. \A i \in DOMAIN uses' : uses'[i].entry = answer.n => uses'[i].signed
    BY <1>2, <1>4, ZenonT(60)
  <2> QED
    BY <2>1, <2>2 DEF HeldOK
<1> QED
  BY <1>1, <1>3, <1>5, <1>6, <1>7, Zenon DEF EntryInv

\* Changing one counter of one card keeps the counters' type.
LEMMA TriesType ==
    ASSUME tries \in [Cards -> [Roles -> Nat]], card \in Cards, NEW r \in Roles,
           NEW v \in Nat, tries' = [tries EXCEPT ![card][r] = v]
    PROVE  tries' \in [Cards -> [Roles -> Nat]]
  OBVIOUS

\* The serial a request names is a card's or none.
LEMMA ShownType ==
    ASSUME FlowInv, flow.stage \in {"Opened", "Prepared", "Entered"}
    PROVE  Req.shown \in {Serial[c] : c \in Cards} \cup {None}
<1>1. flow.doc \in DOMAIN requests /\ requests \in Seq(Requests)
  BY DEF FlowInv
<1>2. Req \in Requests
  BY <1>1 DEF Req
<1> QED
  BY <1>2 DEF Requests

\* What a use in commit_on_card records.
LEMMA SequenceUse ==
    ASSUME IInv, pin_sequence, NEW verify \in BOOLEAN, NEW signed \in BOOLEAN
    PROVE  [entry |-> answer.n, role |-> Role, card |-> card,
            prepared |-> flow.prepared, typed |-> answer.card,
            shown |-> Req.shown, left |-> tries[card][Role],
            verify |-> verify, signed |-> signed] \in UseRecords
<1>1. /\ EntryInv /\ HeldOK(answer) /\ card \in Cards /\ flow.prepared \in Cards
      /\ tries \in [Cards -> [Roles -> Nat]] /\ Role \in Roles
  BY RolesOK DEF IInv, EntryInv, FlowInv, pin_sequence
<1>2. tries[card][Role] \in Nat
  BY <1>1
<1>3. answer.n \in Nat /\ answer.card \in Cards
  BY <1>1, SMTT(30) DEF EntryInv, HeldOK
<1>4. Req.shown \in {Serial[c] : c \in Cards} \cup {None}
  BY ShownType DEF IInv, pin_sequence
<1> QED
  BY <1>1, <1>2, <1>3, <1>4, Zenon DEF UseRecords

\* commit_on_card as a use of the held entry.
LEMMA SequenceEntry ==
    ASSUME IInv, pin_sequence
    PROVE  EntryInv'
<1>1. /\ EntryInv /\ HeldOK(answer) /\ card \in Cards /\ flow.prepared \in Cards
      /\ tries \in [Cards -> [Roles -> Nat]] /\ Role \in Roles
      /\ DOMAIN flow = {"stage", "doc", "prepared", "sigs"}
  BY RolesOK DEF IInv, EntryInv, FlowInv, pin_sequence
<1>2. tries[card][Role] \in Nat
  BY <1>1
<1>4. ASSUME NEW verify \in BOOLEAN, NEW signed \in BOOLEAN, Use(verify, signed),
             tries' \in [Cards -> [Roles -> Nat]], verify => commit_checks(card),
             flow'.stage # "Entered", answer' = None \/ (answer' = answer /\ signed)
      PROVE  EntryInv'
  <2> DEFINE u == [entry |-> answer.n, role |-> Role, card |-> card,
                   prepared |-> flow.prepared, typed |-> answer.card,
                   shown |-> Req.shown, left |-> tries[card][Role],
                   verify |-> verify, signed |-> signed]
  <2>1. u \in UseRecords
    BY <1>4, SequenceUse
  <2>2. u.entry = answer.n /\ uses' = Append(uses, u)
    BY <1>4 DEF Use
  <2>3. u.verify => Serial[u.card] = Serial[u.prepared] /\ u.left >= Floor
    BY <1>4, Zenon DEF commit_checks, check_slot_retry_floor
  <2>4. answer' = None \/ (answer' = answer /\ u.signed)
    BY <1>4
  <2> HIDE DEF u
  <2> QED
    BY <1>1, <1>4, <2>1, <2>2, <2>3, <2>4, OneMoreUse, Zenon
<1>5. ASSUME commit_failed(TRUE) \/ commit_failed(FALSE)
      PROVE  flow'.stage # "Entered" /\ answer' = None
  BY <1>1, <1>5, Zenon DEF commit_failed, EndDocument, forget
<1>6. CASE UNCHANGED tries /\ Use(FALSE, FALSE) /\ commit_failed(FALSE)
  BY <1>1, <1>4, <1>5, <1>6, Zenon
<1>7. CASE /\ commit_checks(card)
           /\ tries' = [tries EXCEPT ![card][Role] = @ - 1]
           /\ Use(TRUE, FALSE) /\ commit_failed(TRUE)
  <2>1. tries[card][Role] - 1 \in Nat
    BY <1>2, <1>7, TriesAssumption, SMTT(30) DEF commit_checks, check_slot_retry_floor
  <2>2. tries' = [tries EXCEPT ![card][Role] = tries[card][Role] - 1]
    BY <1>1, <1>7
  <2>3. tries' \in [Cards -> [Roles -> Nat]]
    BY <1>1, <2>1, <2>2, TriesType
  <2> QED
    BY <1>4, <1>5, <1>7, <2>3, Zenon
<1>8. CASE /\ commit_checks(card)
           /\ tries' = [tries EXCEPT ![card][Role] = MaxTries]
           /\ \/ Use(TRUE, FALSE) /\ commit_failed(FALSE)
              \/ /\ Use(TRUE, TRUE)
                 /\ flow' = [flow EXCEPT !.stage = "Finishing"]
                 /\ UNCHANGED answer
  <2>1. tries' \in [Cards -> [Roles -> Nat]]
    BY <1>1, <1>8, TriesType, TriesAssumption
  <2>2. CASE Use(TRUE, FALSE) /\ commit_failed(FALSE)
    BY <1>4, <1>5, <1>8, <2>1, <2>2, Zenon
  <2>3. CASE /\ Use(TRUE, TRUE) /\ UNCHANGED answer
             /\ flow' = [flow EXCEPT !.stage = "Finishing"]
    <3>1. flow'.stage # "Entered"
      BY <1>1, <2>3
    <3> QED
      BY <1>4, <1>8, <2>1, <2>3, <3>1, Zenon
  <2> QED
    BY <1>8, <2>2, <2>3, Zenon
<1> QED
  BY <1>6, <1>7, <1>8, Zenon DEF pin_sequence

\* Only PromptedPin::pin leaves an entry to be used.
LEMMA NotEntered ==
    ASSUME DOMAIN flow = {"stage", "doc", "prepared", "sigs"},
           sign \/ prepare_on_card \/ sign_on_phone \/ phone_answers
           \/ finish_phone_document \/ write
    PROVE  flow'.stage # "Entered"
<1>1. CASE sign
  BY <1>1, Zenon DEF sign
<1>2. CASE prepare_on_card
  BY <1>2, Zenon DEF prepare_on_card, EndDocument
<1>3. CASE sign_on_phone
  BY <1>3, Zenon DEF sign_on_phone, IdleFlow
<1>4. CASE phone_answers
  BY <1>4, Zenon DEF phone_answers
<1>5. CASE finish_phone_document
  BY <1>5 DEF finish_phone_document
<1>6. CASE write
  BY <1>6 DEF write
<1> QED
  BY <1>1, <1>2, <1>3, <1>4, <1>5, <1>6

\* Every step keeps what holds of the entries of a PIN and their uses.
LEMMA EntryNext ==
    ASSUME IInv, [Next]_vars
    PROVE  EntryInv'
<1>1. /\ EntryInv /\ card \in Cards /\ tries \in [Cards -> [Roles -> Nat]]
      /\ DOMAIN flow = {"stage", "doc", "prepared", "sigs"}
  BY Zenon DEF IInv, EntryInv, FlowInv
<1>2. CASE pin
  <2>1. UNCHANGED <<uses, tries>>
    BY <1>2 DEF pin, cardVars
  <2>2. answer' # None \/ flow'.stage = "Entered" => HeldOK(answer')
    <3>1. CASE answer # None /\ UNCHANGED answer
      BY <1>1, <3>1, Zenon DEF EntryInv
    <3>2. ASSUME NEW digits, answer' = [role |-> Role, digits |-> digits, card |-> flow.prepared,
                                        n |-> Cardinality(Entries) + 1]
          PROVE  HeldOK(answer')
      <4>1. flow.prepared \in Cards
        BY <1>2 DEF pin, IInv, FlowInv
      <4> QED
        BY <3>2, <4>1, Zenon DEF HeldOK
    <3>3. CASE answer' = None /\ EndDocument
      BY <1>1, <3>3 DEF EndDocument
    <3> QED
      BY <1>2, <3>1, <3>2, <3>3 DEF pin
  <2> QED
    BY <1>1, <2>1, <2>2, SameUses
<1>3. ASSUME UNCHANGED <<uses, answer>>, tries' \in [Cards -> [Roles -> Nat]],
             flow'.stage = "Entered" => flow.stage = "Entered"
      PROVE  EntryInv'
  BY <1>1, <1>3, SameUses, Zenon DEF EntryInv
<1>4. CASE others_spend
  <2>1. PICK r \in Roles : /\ tries[card][r] > 0
                           /\ tries' = [tries EXCEPT ![card][r] = @ - 1]
    BY <1>4, Zenon DEF others_spend
  <2>2. tries[card][r] \in Nat
    BY <1>1
  <2>3. tries[card][r] - 1 \in Nat
    BY <2>1, <2>2, SMTT(30)
  <2>4. tries' = [tries EXCEPT ![card][r] = tries[card][r] - 1]
    BY <1>1, <2>1
  <2>5. tries' \in [Cards -> [Roles -> Nat]]
    BY <1>1, <2>3, <2>4, TriesType
  <2> QED
    BY <1>3, <1>4, <2>5 DEF others_spend
<1>6. CASE sign \/ prepare_on_card \/ sign_on_phone \/ phone_answers
           \/ finish_phone_document \/ write
  <2>1. UNCHANGED <<uses, answer, tries>>
    BY <1>6, Zenon DEF sign, prepare_on_card, sign_on_phone, phone_answers,
       finish_phone_document, write, cardVars
  <2> QED
    BY <1>1, <1>3, <1>6, <2>1, NotEntered
<1>7. CASE assemble \/ exchange_card \/ rotate_certificate \/ UNCHANGED vars
  <2>1. UNCHANGED <<uses, answer, tries, flow>>
    BY <1>7 DEF assemble, exchange_card, rotate_certificate, vars, cardVars
  <2> QED
    BY <1>1, <1>3, <2>1
<1> QED
  BY <1>2, <1>4, <1>6, <1>7, SequenceEntry DEF Next

-----------------------------------------------------------------------------
(* Theorems. *)

\* The invariant is inductive.
THEOREM Invariant == Spec => []IInv
<1>1. Init => IInv
  BY InitInv
<1>2. IInv /\ [Next]_vars => IInv'
  BY AsmNext, FlowNext, EntryNext, WrittenNext DEF IInv
<1> QED
  BY <1>1, <1>2, PTL DEF Spec

\* A document finished at level LT or LTA carries the evidence for the signer,
\* for every timestamp token and for the archive token, whatever the number of
\* authorities, their answers and their changes of certificate
\* (require_archive_path_covered).
THEOREM CompleteLt == Spec => []LtIsComplete
<1>1. IInv => LtIsComplete
  BY DEF IInv, AsmInv
<1> QED
  BY <1>1, Invariant, PTL

\* A written document holds a signature over that document by the key of the
\* certificate it names, for every number of documents and every answer of a
\* phone (verify_against_certificate, verify_returned).
THEOREM VerifiedOutput == Spec => []WrittenIsVerified
<1>1. IInv => WrittenIsVerified
  BY DEF IInv
<1> QED
  BY <1>1, Invariant, PTL

\* The card an entry was typed for: the one prepared while the entry is new, and
\* one that made a signature with it once it was used.
TypedOK(a) ==
    \/ flow.stage = "Entered" /\ flow.prepared = a.card
    \/ \E j \in DOMAIN uses :
          uses[j].entry = a.n /\ uses[j].signed /\ uses[j].card = a.card

\* What a use owes to the holder: the card shown, or typed for.
UseOK(i) ==
    uses[i].verify =>
        /\ uses[i].shown # None => Serial[uses[i].card] = uses[i].shown
        /\ uses[i].card # uses[i].typed /\ Serial[uses[i].typed] # None =>
              \E j \in 1..(i - 1) : /\ uses[j].entry = uses[i].entry
                                   /\ uses[j].signed /\ uses[j].card = uses[i].typed

\* Whom the held entry was typed for, and whom each use of an entry reached.
TypedInv ==
    /\ answer # None \/ flow.stage = "Entered" => TypedOK(answer)
    /\ \A i \in DOMAIN uses : UseOK(i)

\* A step that uses no entry and keeps the one held.
LEMMA TypedSame ==
    ASSUME TypedInv, UNCHANGED <<uses, answer>>,
           flow'.stage = "Entered" => flow.stage = "Entered" \/ answer # None,
           flow.stage = "Entered" => flow'.stage = "Entered" /\ flow'.prepared = flow.prepared
    PROVE  TypedInv'
<1>1. answer' # None \/ flow'.stage = "Entered" => TypedOK(answer)'
  BY Zenon DEF TypedInv, TypedOK
<1>2. \A i \in DOMAIN uses' : UseOK(i)'
  BY Zenon DEF TypedInv, UseOK
<1> QED
  BY <1>1, <1>2 DEF TypedInv

\* One more use of the held entry.  A new entry that reached another card than
\* the one it was typed for met a card without a serial.
LEMMA TypedUse ==
    ASSUME IInv, TypedInv, NEW u \in UseRecords, uses' = Append(uses, u),
           u.entry = answer.n, u.typed = answer.card, u.card = card,
           u.verify => Serial[card] = Serial[flow.prepared],
           u.shown = Req.shown, flow.stage = "Entered", flow'.stage # "Entered",
           answer' = None \/ (answer' = answer /\ u.signed /\ card = flow.prepared)
    PROVE  TypedInv'
<1>1. /\ uses \in Seq(UseRecords) /\ card \in Cards /\ flow.prepared \in Cards
      /\ HeldOK(answer) /\ TypedOK(answer) /\ answer.card \in Cards
      /\ Req.shown # None => Serial[flow.prepared] = Req.shown
  BY Zenon DEF IInv, EntryInv, FlowInv, HeldOK, TypedInv
<1>2. /\ DOMAIN uses' = DOMAIN uses \cup {Len(uses) + 1}
      /\ DOMAIN uses = 1..Len(uses) /\ Len(uses) \in Nat
      /\ \A i \in DOMAIN uses : uses'[i] = uses[i]
      /\ uses'[Len(uses) + 1] = u
  BY <1>1, OneMore, Zenon
<1>3. flow.prepared = answer.card \/ \E j \in DOMAIN uses :
          uses[j].entry = answer.n /\ uses[j].signed /\ uses[j].card = answer.card
  BY <1>1, Zenon DEF TypedOK
<1>4. ASSUME NEW i \in DOMAIN uses PROVE UseOK(i)'
  <2>1. \A j \in 1..(i - 1) : j \in DOMAIN uses
    BY <1>2, Before, Zenon
  <2>2. uses'[i] = uses[i] /\ \A j \in 1..(i - 1) : uses'[j] = uses[j]
    BY <1>2, <2>1
  <2>3. UseOK(i)
    BY DEF TypedInv
  <2> QED
    BY <2>2, <2>3, ZenonT(60) DEF UseOK
<1>5. ASSUME NEW k, k = Len(uses) + 1 PROVE UseOK(k)'
  <2>1. k - 1 = Len(uses)
    BY <1>2, <1>5
  <2>2. \A j \in 1..(k - 1) : uses'[j] = uses[j]
    BY <1>2, <2>1
  <2>3. uses'[k] = u
    BY <1>2, <1>5
  <2>4. u.verify /\ u.shown # None => Serial[u.card] = u.shown
    BY <1>1
  <2>5. ASSUME u.verify, u.card # u.typed, Serial[u.typed] # None
        PROVE  \E j \in 1..(k - 1) : /\ uses'[j].entry = u.entry
                                    /\ uses'[j].signed /\ uses'[j].card = u.typed
    <3>1. flow.prepared # answer.card
      <4>1. SUFFICES ASSUME flow.prepared = answer.card PROVE FALSE
        OBVIOUS
      <4>2. Serial[flow.prepared] # None /\ Serial[flow.prepared] = Serial[card]
        BY <2>5, <4>1, Zenon
      <4>3. flow.prepared = card
        BY <1>1, <4>2, SerialAssumption, Zenon
      <4> QED
        BY <2>5, <4>1, <4>3, Zenon
    <3>2. PICK j \in DOMAIN uses :
             uses[j].entry = answer.n /\ uses[j].signed /\ uses[j].card = answer.card
      BY <1>3, <3>1, Zenon
    <3>3. j \in 1..(k - 1)
      BY <1>2, <2>1
    <3> QED
      BY <2>2, <3>2, <3>3, ZenonT(60)
  <2> QED
    BY <2>3, <2>4, <2>5, ZenonT(60) DEF UseOK
<1>6. answer' # None => TypedOK(answer)'
  <2> SUFFICES ASSUME answer' = answer, u.signed, card = flow.prepared
               PROVE  TypedOK(answer)'
    OBVIOUS
  <2>1. CASE flow.prepared = answer.card
    <3>1. Len(uses) + 1 \in DOMAIN uses'
      BY <1>2, Zenon
    <3> QED
      BY <1>2, <2>1, <3>1, ZenonT(60) DEF TypedOK
  <2>2. ASSUME NEW j \in DOMAIN uses,
               uses[j].entry = answer.n, uses[j].signed, uses[j].card = answer.card
        PROVE  TypedOK(answer)'
    <3>1. j \in DOMAIN uses' /\ uses'[j] = uses[j]
      BY <1>2, Zenon
    <3> QED
      BY <2>2, <3>1, Zenon DEF TypedOK
  <2> QED
    BY <1>3, <2>1, <2>2, Zenon
<1>7. \A i \in DOMAIN uses' : UseOK(i)'
  BY <1>2, <1>4, <1>5, Zenon
<1> QED
  BY <1>6, <1>7, Zenon DEF TypedInv

\* Every step keeps what is known of the card an entry was typed for.
LEMMA TypedNext ==
    ASSUME IInv, TypedInv, [Next]_vars
    PROVE  TypedInv'
<1>1. DOMAIN flow = {"stage", "doc", "prepared", "sigs"} /\ FlowInv
  BY Zenon DEF IInv, FlowInv
<1>2. CASE pin
  <2>1. uses' = uses /\ flow.stage = "Prepared"
    BY <1>2 DEF pin
  <2>2. CASE UNCHANGED answer /\ answer # None
    BY <2>1, <2>2, TypedSame
  <2>3. ASSUME NEW a, answer' = a, a.card = flow.prepared,
               flow' = [flow EXCEPT !.stage = "Entered"]
        PROVE  TypedInv'
    <3>1. flow'.stage = "Entered" /\ flow'.prepared = flow.prepared
      BY <1>1, <2>3
    <3>2. TypedOK(answer)'
      BY <2>3, <3>1, Zenon DEF TypedOK
    <3>3. \A i \in DOMAIN uses' : UseOK(i)'
      BY <2>1, Zenon DEF TypedInv, UseOK
    <3> QED
      BY <2>3, <3>2, <3>3, Zenon DEF TypedInv
  <2>4. CASE answer' = None /\ EndDocument
    <3>1. flow'.stage = "Idle"
      BY <1>1, <2>4 DEF EndDocument
    <3>2. \A i \in DOMAIN uses' : UseOK(i)'
      BY <2>1, Zenon DEF TypedInv, UseOK
    <3> QED
      BY <2>4, <3>1, <3>2 DEF TypedInv
  <2>5. ASSUME NEW digits \in Typed,
               answer' = [role |-> Role, digits |-> digits, card |-> flow.prepared,
                          n |-> Cardinality(Entries) + 1],
               flow' = [flow EXCEPT !.stage = "Entered"]
        PROVE  TypedInv'
    <3> DEFINE a == [role |-> Role, digits |-> digits, card |-> flow.prepared,
                     n |-> Cardinality(Entries) + 1]
    <3>1. a.card = flow.prepared
      OBVIOUS
    <3> HIDE DEF a
    <3> QED
      BY <2>3, <2>5, <3>1 DEF a
  <2> QED
    BY <1>2, <2>2, <2>4, <2>5, Zenon DEF pin
<1>3. CASE pin_sequence
  <2>1. flow.stage = "Entered"
    BY <1>3 DEF pin_sequence
  <2>2. ASSUME NEW verify \in BOOLEAN, NEW signed \in BOOLEAN, Use(verify, signed),
               verify => commit_checks(card), flow'.stage # "Entered",
               answer' = None \/ (answer' = answer /\ signed /\ card = flow.prepared)
        PROVE  TypedInv'
    <3> DEFINE u == [entry |-> answer.n, role |-> Role, card |-> card,
                     prepared |-> flow.prepared, typed |-> answer.card,
                     shown |-> Req.shown, left |-> tries[card][Role],
                     verify |-> verify, signed |-> signed]
    <3>1. u \in UseRecords
      BY <1>3, <2>2, SequenceUse
    <3>2. /\ uses' = Append(uses, u) /\ u.entry = answer.n /\ u.typed = answer.card
          /\ u.card = card /\ u.shown = Req.shown /\ u.verify = verify /\ u.signed = signed
      <4>1. uses' = Append(uses, u)
        BY <2>2, Zenon DEF Use
      <4>2. /\ u.entry = answer.n /\ u.typed = answer.card /\ u.card = card
            /\ u.shown = Req.shown /\ u.verify = verify /\ u.signed = signed
        BY Zenon
      <4> QED
        BY <4>1, <4>2, Zenon
    <3> HIDE DEF u
    <3>3. u.verify => Serial[card] = Serial[flow.prepared]
      BY <2>2, <3>2, Zenon DEF commit_checks
    <3> QED
      BY <2>1, <2>2, <3>1, <3>2, <3>3, TypedUse, Zenon
  <2>3. ASSUME commit_failed(TRUE) \/ commit_failed(FALSE)
        PROVE  flow'.stage # "Entered" /\ answer' = None
    BY <1>1, <2>3, Zenon DEF commit_failed, EndDocument, forget
  <2>4. CASE \E v \in BOOLEAN : Use(v, FALSE) /\ (v => commit_checks(card))
                                /\ (commit_failed(TRUE) \/ commit_failed(FALSE))
    BY <2>2, <2>3, <2>4, Zenon
  <2>5. CASE /\ verify_against_certificate(flow.prepared, flow.doc,
                                           [by |-> card, doc |-> flow.doc])
             /\ commit_checks(card) /\ Use(TRUE, TRUE) /\ answer' = answer
             /\ flow' = [flow EXCEPT !.stage = "Finishing"]
    <3>1. flow'.stage # "Entered"
      BY <1>1, <2>5
    <3>2. card = flow.prepared
      BY <2>5 DEF verify_against_certificate
    <3> QED
      BY <2>2, <2>5, <3>1, <3>2, Zenon
  <2>6. CASE Use(FALSE, FALSE) /\ commit_failed(FALSE)
    BY <2>4, <2>6, Zenon
  <2>7. CASE /\ commit_checks(card) /\ Use(TRUE, FALSE)
             /\ commit_failed(TRUE) \/ commit_failed(FALSE)
    BY <2>4, <2>7, Zenon
  <2>8. \/ Use(FALSE, FALSE) /\ commit_failed(FALSE)
        \/ /\ commit_checks(card) /\ Use(TRUE, FALSE)
           /\ commit_failed(TRUE) \/ commit_failed(FALSE)
        \/ /\ verify_against_certificate(flow.prepared, flow.doc,
                                         [by |-> card, doc |-> flow.doc])
           /\ commit_checks(card) /\ Use(TRUE, TRUE) /\ answer' = answer
           /\ flow' = [flow EXCEPT !.stage = "Finishing"]
    BY <1>3, Zenon DEF pin_sequence
  <2> QED
    BY <2>5, <2>6, <2>7, <2>8, Zenon
<1>4. CASE sign \/ prepare_on_card \/ sign_on_phone \/ phone_answers
           \/ finish_phone_document \/ write
  <2>1. UNCHANGED <<uses, answer>>
    BY <1>4, Zenon DEF sign, prepare_on_card, sign_on_phone, phone_answers,
       finish_phone_document, write
  <2>2. flow.stage # "Entered"
    <3>1. CASE sign_on_phone
      BY <3>1 DEF sign_on_phone, IdleFlow
    <3>2. ASSUME flow.stage \in {"Idle", "Opened", "Batch", "Verified", "Finishing"}
          PROVE  flow.stage # "Entered"
      BY <3>2
    <3> QED
      BY <1>4, <3>1, <3>2, Zenon DEF sign, prepare_on_card, phone_answers,
         finish_phone_document, write
  <2>3. flow'.stage # "Entered"
    BY <1>1, <1>4, NotEntered
  <2> QED
    BY <2>1, <2>2, <2>3, TypedSame
<1>5. CASE assemble \/ exchange_card \/ others_spend \/ rotate_certificate \/ UNCHANGED vars
  <2>1. UNCHANGED <<uses, answer, flow>>
    BY <1>5 DEF assemble, exchange_card, others_spend, rotate_certificate, vars
  <2> QED
    BY <2>1, TypedSame
<1> QED
  BY <1>2, <1>3, <1>4, <1>5 DEF Next

\* A PIN entry reaches only the card prepared for the document at hand and shown
\* to the holder, above the retry floor; another card than the one it was typed
\* for only after that one made a signature with it; and it is not used again
\* after a use that did not end in a signature (commit_on_card, PromptedPin::pin,
\* PinSource::forget).  All of it as far as serials go: SerialAssumption says
\* that those that are named differ.
THEOREM AgreedPin == Spec => []PinUsedAsAgreed
<1>1. Init => TypedInv
  BY DEF Init, TypedInv, IdleFlow
<1>2. IInv /\ TypedInv => PinUsedAsAgreed
  <2> SUFFICES ASSUME EntryInv, TypedInv PROVE PinUsedAsAgreed
    BY DEF IInv
  <2>1. uses \in Seq(UseRecords)
    BY DEF EntryInv
  <2>2. \A i \in DOMAIN uses : uses[i] \in UseRecords
    BY <2>1
  <2>3. \A i \in DOMAIN uses : uses[i].card \in Cards /\ uses[i].prepared \in Cards
    BY <2>2 DEF UseRecords
  <2>4. ASSUME NEW i \in DOMAIN uses, uses[i].verify
        PROVE  /\ Serial[uses[i].card] = Serial[uses[i].prepared] /\ uses[i].left >= Floor
               /\ Serial[uses[i].prepared] # None => uses[i].card = uses[i].prepared
    BY <2>3, <2>4, SerialAssumption, Zenon DEF EntryInv
  <2>5. ASSUME NEW i \in DOMAIN uses, uses[i].verify
        PROVE  /\ uses[i].shown # None => Serial[uses[i].card] = uses[i].shown
               /\ uses[i].card # uses[i].typed /\ Serial[uses[i].typed] # None =>
                     \E j \in 1..(i - 1) : /\ uses[j].entry = uses[i].entry
                                          /\ uses[j].signed /\ uses[j].card = uses[i].typed
    BY <2>5, Zenon DEF TypedInv, UseOK
  <2>6. \A i, j \in DOMAIN uses :
           i < j /\ uses[i].entry = uses[j].entry => uses[i].signed
    BY Zenon DEF EntryInv
  <2> QED
    BY <2>4, <2>5, <2>6, Zenon DEF PinUsedAsAgreed
<1>3. IInv /\ TypedInv /\ [Next]_vars => TypedInv'
  BY TypedNext
<1> QED
  BY <1>1, <1>2, <1>3, Invariant, PTL DEF Spec

=============================================================================
