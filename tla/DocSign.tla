------------------------------ MODULE DocSign ------------------------------
(***************************************************************************)
(* Signing documents with a card in a reader (sign of service/reader.rs)   *)
(* or with the card of a paired phone (sign_on_phone of remote.rs).        *)
(*                                                                         *)
(* A run signs a sequence of requests.  In a reader each is signed on its  *)
(* own, with one PIN source for the run: the card is opened and prepared,  *)
(* the holder is asked for the PIN with no transaction held, and one       *)
(* transaction checks the card again, presents the PIN and signs.  A phone *)
(* signs all documents in one batch, and every signature is verified       *)
(* before any document is finished.  Each signed document is then finished *)
(* as DocAssemble describes and written.                                   *)
(*                                                                         *)
(* While the holder is asked, and between two documents, the card may be   *)
(* exchanged and other programs may spend tries.  A card handle notices a  *)
(* card that left (the next command fails), or does not: both are allowed. *)
(***************************************************************************)
EXTENDS DocAssemble

CONSTANTS
    Runs,             \* the sequences of requests a run may be asked for
    Cards,
    Serial,           \* EF.TokenInfo of each card: a serial or None
    MaxTries,         \* tries after a correct PIN
    Floor,            \* the tries the retry floor requires
    MaxEvents         \* bound: card exchanges and tries spent by others

VARIABLES
    device,           \* "reader" or "phone"
    requests,         \* the run's requests
    flow,             \* stage of the run, document at hand, what was prepared
    card,             \* the card in the reader
    tries,            \* tries left per card and PIN
    answer,           \* PromptedPin: the held entry, or None; its card is history:
                      \* the one prepared when the holder typed it
    uses,             \* history: every use of a PIN entry
    result,           \* outcome per document
    events

\* DocumentRequest with the key slot and the serial the holder was shown.
Requests ==
    [slot : {"Authentication", "Qualified"},
     format : {"Cades", "CadesDetached", "Pades", "AsicECades", "AsicEXades"},
     long_term : BOOLEAN, archive : BOOLEAN, authorities : Seq(Authorities),
     shown : {Serial[c] : c \in Cards} \cup {None}]

ASSUME RunsAssumption == Runs \subseteq Seq(Requests)

\* No two cards have one serial; a card whose EF.TokenInfo names none is like
\* every other such card.
ASSUME SerialAssumption ==
    \A c, d \in Cards : Serial[c] # None /\ Serial[c] = Serial[d] => c = d

ASSUME TriesAssumption == MaxTries \in Nat /\ Floor \in Nat \ {0}

cardVars == <<card, tries>>
vars == <<asmVars, device, requests, flow, cardVars, answer, uses, result, events>>

Roles == {"Pin1", "Pin2"}

\* SignSlot::pin_role.
pin_role(slot) == IF slot = "Authentication" THEN "Pin1" ELSE "Pin2"

\* What a holder may type: the PIN of a card, no PIN of any card, or digits
\* outside the bounds of the role.
Typed == Cards \cup {"wrong", "malformed"}

\* How a document ended; a written one with the signature it holds and the
\* certificate it names.
Outcome(status) == [status |-> status, sig |-> None, cert |-> None]

IdleFlow == [stage |-> "Idle", doc |-> 0, prepared |-> None, sigs |-> <<>>]

Init ==
    /\ InitAssemble
    /\ device \in {"reader", "phone"}
    /\ requests \in Runs
    /\ flow = IdleFlow
    /\ card \in Cards
    /\ tries = [c \in Cards |-> [r \in Roles |-> MaxTries]]
    /\ answer = None
    /\ uses = <<>>
    /\ result = [i \in DOMAIN requests |-> Outcome("pending")]
    /\ events = 0

Req == requests[flow.doc]
Role == pin_role(Req.slot)

\* verify_against_certificate: the key of the certificate made this signature
\* over this document.
verify_against_certificate(cert, doc, sig) == sig = [by |-> cert, doc |-> doc]

\* The document at hand ends without output, and the run goes on.
EndDocument ==
    /\ result' = [result EXCEPT ![flow.doc] = Outcome("failed")]
    /\ flow' = [flow EXCEPT !.stage = "Idle", !.prepared = None]

-----------------------------------------------------------------------------
(* The reader. *)

\* sign, up to the selected PKCS#15 application: an impossible request is
\* refused before the reader is opened; opening, selecting, or PACE on a
\* contactless card may fail.
sign ==
    /\ device = "reader" /\ flow.stage = "Idle" /\ flow.doc < Len(requests)
    /\ LET i == flow.doc + 1
       IN  \/ /\ result' = [result EXCEPT ![i] = Outcome("failed")]
              /\ flow' = [flow EXCEPT !.doc = i]
           \/ /\ validate_signing_policy(requests[i])
              /\ flow' = [flow EXCEPT !.doc = i, !.stage = "Opened"]
              /\ UNCHANGED result
    /\ UNCHANGED <<asmVars, device, requests, cardVars, answer, uses, events>>

\* check_retry_floor.
check_slot_retry_floor(c, role) == tries[c][role] >= Floor

\* ensure_displayed_card.
ensure_displayed_card(shown) == shown # None => Serial[card] = shown

\* prepare_on_card: any failed read or plan, another card than the displayed
\* one, or a counter below the floor ends the document before the PIN is asked.
prepare_on_card ==
    /\ flow.stage = "Opened"
    /\ \/ EndDocument
       \/ /\ ensure_displayed_card(Req.shown)
          /\ check_slot_retry_floor(card, Role)
          /\ flow' = [flow EXCEPT !.stage = "Prepared", !.prepared = card]
          /\ UNCHANGED result
    /\ UNCHANGED <<asmVars, device, requests, cardVars, answer, uses, events>>

Entries == {uses[i].entry : i \in DOMAIN uses}

\* PromptedPin::pin: the held entry of the same role is given again; otherwise
\* it is dropped and the holder asked, who may give up.
pin ==
    /\ flow.stage = "Prepared"
    /\ \/ /\ answer # None /\ answer.role = Role
          /\ flow' = [flow EXCEPT !.stage = "Entered"]
          /\ UNCHANGED <<answer, result>>
       \/ /\ answer # None => answer.role # Role
          /\ \/ /\ \E digits \in Typed :
                       answer' = [role |-> Role, digits |-> digits, card |-> flow.prepared,
                                  n |-> Cardinality(Entries) + 1]
                /\ flow' = [flow EXCEPT !.stage = "Entered"]
                /\ UNCHANGED result
             \/ /\ answer' = None
                /\ EndDocument
    /\ UNCHANGED <<asmVars, device, requests, cardVars, uses, events>>

\* PromptedPin::forget.
forget == answer' = None

\* Mutation: the card is not identified again.
commit_checks_CardAssumed(c) == check_slot_retry_floor(c, Role)

\* The part of commit_on_card that decides whether VERIFY is sent: the serial
\* read again and the counter checked again inside the transaction.
commit_checks(c) ==
    /\ Serial[c] = Serial[flow.prepared]
    /\ check_slot_retry_floor(c, Role)

Use(verify, signed) ==
    uses' = Append(uses, [entry |-> answer.n, role |-> Role, card |-> card,
                          prepared |-> flow.prepared, typed |-> answer.card,
                          shown |-> Req.shown, left |-> tries[card][Role],
                          verify |-> verify, signed |-> signed])

\* present_pin after an error: the source forgets the PIN.
commit_failed(refused) ==
    /\ EndDocument
    /\ forget
    /\ UNCHANGED asmVars

\* pin_sequence with commit_in_transaction.  Without VERIFY: the transaction
\* does not begin, a read fails, the card changed, the counter is below the
\* floor, or the digits are no PIN of the role.  With VERIFY: the card refuses,
\* or it accepts and the signature is made, verified against the certificate
\* that was read before the prompt, and the transaction ended with a reset;
\* each of these may fail, and the result is then withheld.
pin_sequence ==
    /\ flow.stage = "Entered"
    /\ \/ /\ UNCHANGED tries
          /\ Use(FALSE, FALSE)
          /\ commit_failed(FALSE)
       \/ /\ commit_checks(card)
          /\ answer.digits # "malformed"
          /\ answer.digits # card
          /\ tries' = [tries EXCEPT ![card][Role] = @ - 1]
          /\ Use(TRUE, FALSE)
          /\ commit_failed(TRUE)
       \/ /\ commit_checks(card)
          /\ answer.digits = card
          /\ tries' = [tries EXCEPT ![card][Role] = MaxTries]
          /\ \/ /\ Use(TRUE, FALSE)
                /\ commit_failed(FALSE)
             \/ /\ LET sig == [by |-> card, doc |-> flow.doc]
                   IN  /\ verify_against_certificate(flow.prepared, flow.doc, sig)
                       /\ begin(Req, flow.doc, sig)
                /\ Use(TRUE, TRUE)
                /\ flow' = [flow EXCEPT !.stage = "Finishing"]
                /\ UNCHANGED <<gen, answer, result>>
    /\ UNCHANGED <<device, requests, card, events>>

-----------------------------------------------------------------------------
(* The phone. *)

\* sign_on_phone up to the batch: every request is checked and every document
\* planned, a package only alone, and the certificate must be usable; one
\* failure ends the run with nothing written.
AllFailed == result' = [i \in DOMAIN requests |-> Outcome("failed")]

sign_on_phone ==
    /\ device = "phone" /\ flow = IdleFlow
    /\ \/ /\ AllFailed
          /\ flow' = [flow EXCEPT !.doc = Len(requests)]
       \/ /\ \A i \in DOMAIN requests : validate_signing_policy(requests[i])
          /\ Len(requests) > 1 => \A i \in DOMAIN requests :
                requests[i].format \notin {"AsicECades", "AsicEXades"}
          /\ \E c \in Cards : flow' = [flow EXCEPT !.stage = "Batch", !.prepared = c]
          /\ UNCHANGED result
    /\ UNCHANGED <<asmVars, device, requests, cardVars, answer, uses, events>>

\* The answers a phone may give: any signatures over documents of the batch,
\* by the card whose certificate it sent or by another, in any number (external).
Answers ==
    UNION {[1..n -> [by : Cards, doc : DOMAIN requests]] : n \in 0..Len(requests)}

\* Mutation: only the number of signatures is checked.
verify_returned_Count(returned) == Len(returned) = Len(requests)

\* verify_returned.
verify_returned(returned) ==
    /\ Len(returned) = Len(requests)
    /\ \A i \in DOMAIN returned :
          verify_against_certificate(flow.prepared, i, returned[i])

\* RemoteSigner::sign and verify_returned: a refusal, or an answer of which one
\* signature fails, ends the run.
phone_answers ==
    /\ flow.stage = "Batch"
    /\ \/ /\ AllFailed
          /\ flow' = [flow EXCEPT !.stage = "Idle", !.doc = Len(requests)]
       \/ \E returned \in Answers :
             /\ verify_returned(returned)
             /\ flow' = [flow EXCEPT !.stage = "Verified", !.sigs = returned]
             /\ UNCHANGED result
    /\ UNCHANGED <<asmVars, device, requests, cardVars, answer, uses, events>>

\* finish_phone_document for the next document of the batch.
finish_phone_document ==
    /\ flow.stage = "Verified" /\ flow.doc < Len(requests)
    /\ LET i == flow.doc + 1
       IN  /\ begin(requests[i], i, flow.sigs[i])
           /\ flow' = [flow EXCEPT !.stage = "Finishing", !.doc = i]
    /\ UNCHANGED <<gen, device, requests, cardVars, answer, uses, result, events>>

-----------------------------------------------------------------------------
\* A step of assemble_document.
assemble ==
    /\ flow.stage = "Finishing"
    /\ Assemble
    /\ UNCHANGED <<device, requests, flow, cardVars, answer, uses, result, events>>

\* SignOutput::write of the finished document, or the error of finishing or
\* writing it.  A failed document leaves the others to finish.
write ==
    /\ flow.stage = "Finishing" /\ asm.stage \in {"Finished", "Failed"}
    /\ \/ /\ asm.stage = "Finished"
          /\ result' = [result EXCEPT ![flow.doc] = [status |-> "written",
                            sig |-> asm.sig, cert |-> flow.prepared]]
       \/ result' = [result EXCEPT ![flow.doc] = Outcome("failed")]
    /\ flow' = IF device = "phone" THEN [flow EXCEPT !.stage = "Verified"]
               ELSE [flow EXCEPT !.stage = "Idle", !.prepared = None]
    /\ asm' = IdleAsm
    /\ UNCHANGED <<gen, device, requests, cardVars, answer, uses, events>>

-----------------------------------------------------------------------------
(* The world (external). *)

\* The holder puts another card in the reader, while asked or between two
\* documents.
exchange_card ==
    /\ device = "reader" /\ events < MaxEvents
    /\ flow.stage \in {"Idle", "Prepared", "Entered"}
    /\ card' \in Cards \ {card}
    /\ events' = events + 1
    /\ UNCHANGED <<asmVars, device, requests, flow, tries, answer, uses, result>>

\* Another program presents a wrong PIN to the card.
others_spend ==
    /\ device = "reader" /\ events < MaxEvents
    /\ flow.stage \in {"Idle", "Opened", "Prepared", "Entered"}
    /\ \E r \in Roles :
          /\ tries[card][r] > 0
          /\ tries' = [tries EXCEPT ![card][r] = @ - 1]
    /\ events' = events + 1
    /\ UNCHANGED <<asmVars, device, requests, flow, card, answer, uses, result>>

rotate_certificate ==
    /\ \E a \in Authorities : rotate(a)
    /\ UNCHANGED <<device, requests, flow, cardVars, answer, uses, result, events>>

Next ==
    \/ sign
    \/ prepare_on_card
    \/ pin
    \/ pin_sequence
    \/ sign_on_phone
    \/ phone_answers
    \/ finish_phone_document
    \/ assemble
    \/ write
    \/ exchange_card
    \/ others_spend
    \/ rotate_certificate

Spec == Init /\ [][Next]_vars

-----------------------------------------------------------------------------
(* Properties *)

\* A PIN goes to the card prepared for the document at hand, to the card the
\* holder was shown if they were shown one, and only with the tries the floor
\* requires, though the card was out of the flow's hands meanwhile: as far as a
\* serial tells cards apart (commit_on_card).  One entry serves a run, so a card
\* exchanged between two documents may be sent the PIN typed for the one before
\* (PromptedPin::pin); that needs a signature the first card made with it.
\* An entry that did not end in a signature is never used again, whether the
\* card refused it, the card had changed, or a step after VERIFY failed
\* (present_pin, PinSource::forget).
PinUsedAsAgreed ==
    /\ \A i \in DOMAIN uses : uses[i].verify =>
          /\ Serial[uses[i].card] = Serial[uses[i].prepared]
          /\ Serial[uses[i].prepared] # None => uses[i].card = uses[i].prepared
          /\ uses[i].shown # None => Serial[uses[i].card] = uses[i].shown
          /\ uses[i].left >= Floor
          /\ uses[i].card # uses[i].typed /\ Serial[uses[i].typed] # None =>
                \E j \in 1..(i - 1) : /\ uses[j].entry = uses[i].entry
                                     /\ uses[j].signed /\ uses[j].card = uses[i].typed
    /\ \A i, j \in DOMAIN uses :
          i < j /\ uses[i].entry = uses[j].entry => uses[i].signed

\* A written document holds a signature over that very document, by the key of
\* the certificate it names, in a reader and from a phone that answers short,
\* out of order or with another card (verify_against_certificate).
WrittenIsVerified ==
    \A i \in DOMAIN result : result[i].status = "written" =>
        result[i].sig = [by |-> result[i].cert, doc |-> i]
=============================================================================
