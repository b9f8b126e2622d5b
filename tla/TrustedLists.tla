---------------------------- MODULE TrustedLists ----------------------------
(***************************************************************************)
(* The anchors a verification trusts: the pinned roots and the services of *)
(* the EU trusted lists (doc-sign/src/verification/trusted_list.rs and the *)
(* anchor types of trust.rs).  A list is a record of what its XML says and *)
(* who signed it; an instant is a natural number, Never the absent one.    *)
(***************************************************************************)
EXTENDS Integers, Sequences, FiniteSets, SequencesExt

CONSTANTS
    DIRECTIVE_REGIME_END,   \* when Directive 1999/93/EC grants lapsed
    MAX_POINTERS, MAX_SERVICES, MAX_HISTORY

Never == -1

-----------------------------------------------------------------------------
(* A service's status history. *)

directive_grant == {"undersupervision", "supervisionincessation", "accredited"}

anchor_role(service_type) ==
    CASE service_type = "CA/QC"    -> "CertificateIssuing"
      [] service_type = "TSA/QTST" -> "TimeStamping"
      [] OTHER                     -> "none"

Nothing == [grants |-> FALSE, until |-> Never]
OpenEnded == [grants |-> TRUE, until |-> Never]
Until(time) == [grants |-> TRUE, until |-> time]

(* What a status entry grants to a service of this type. *)
grant(entry, service_type) ==
    IF entry.service_type # service_type THEN Nothing
    ELSE IF anchor_role(service_type) # "none" /\ entry.status = "granted" THEN OpenEnded
    ELSE IF service_type = "CA/QC" /\ entry.status \in directive_grant
              /\ entry.since < DIRECTIVE_REGIME_END
    THEN Until(DIRECTIVE_REGIME_END)
    ELSE Nothing

GrantedPeriod(from, to) == [from |-> from, to |-> to]
unbounded == GrantedPeriod(0, Never)
covers(period, at) == period.from <= at /\ (period.to = Never \/ at <= period.to)

(* The history oldest first, then the current entry, stably sorted by start. *)
Entries(service) ==
    LET all == Append(Reverse(service.history), service.current)
        Before(j, i) == IF all[j].since = all[i].since THEN j <= i
                        ELSE all[j].since < all[i].since
        Place(i) == Cardinality({j \in DOMAIN all : Before(j, i)})
    IN  [p \in DOMAIN all |-> all[CHOOSE i \in DOMAIN all : Place(i) = p]]

(* The scan: the periods closed so far, the start and end of the open one. *)
Scan == [periods |-> <<>>, open |-> FALSE, from |-> 0, until |-> Never]

Close(scan, to) ==
    [scan EXCEPT !.open = FALSE,
                 !.periods = IF to = scan.from \/ (to # Never /\ to < scan.from) THEN @
                             ELSE Append(@, GrantedPeriod(scan.from, to))]

Lapse(scan, since) ==
    IF scan.open /\ scan.until # Never /\ scan.until < since
    THEN Close(scan, scan.until) ELSE scan

(* Mutant: an entry that grants nothing leaves the period before it open. *)
ExtendOnly(scan, since, granted) ==
    IF granted.grants
    THEN [scan EXCEPT !.open = TRUE, !.until = granted.until,
                      !.from = IF scan.open THEN @ ELSE since]
    ELSE scan

Extend(scan, since, granted) ==
    IF granted.grants
    THEN [scan EXCEPT !.open = TRUE, !.until = granted.until,
                      !.from = IF scan.open THEN @ ELSE since]
    ELSE IF scan.open THEN Close(scan, since) ELSE scan

granted_periods(service) ==
    LET scanned == FoldLeft(LAMBDA scan, entry :
                              Extend(Lapse(scan, entry.since), entry.since,
                                     grant(entry, service.current.service_type)),
                            Scan, Entries(service))
    IN  IF scanned.open THEN Close(scanned, scanned.until).periods ELSE scanned.periods

-----------------------------------------------------------------------------
(* Anchors. *)

(* The anchors of a service: one per readable certificate, none without a period. *)
service_anchors(service, role, periods) ==
    IF role = "none" \/ periods = <<>> THEN <<>>
    ELSE [i \in DOMAIN service.certificates |->
            [certificate |-> service.certificates[i], role |-> role, granted |-> periods]]

(* An anchor stands for every certificate of its name and key. *)
anchors_certificate(anchor, certificate, role, at) ==
    /\ anchor.role = role
    /\ \E i \in DOMAIN anchor.granted : covers(anchor.granted[i], at)
    /\ anchor.certificate.subject = certificate.subject
    /\ anchor.certificate.key = certificate.key

is_anchor(anchors, certificate, role, at) ==
    \E i \in DOMAIN anchors : anchors_certificate(anchors[i], certificate, role, at)

pinned(certificates, role) ==
    [i \in DOMAIN certificates |->
       [certificate |-> certificates[i], role |-> role, granted |-> <<unbounded>>]]

-----------------------------------------------------------------------------
(* Reading the lists. *)

qualified_without_certificate(service) ==
    /\ service.certificates = <<>> /\ service.unreadable = 0
    /\ anchor_role(service.current.service_type) # "none"

(* Two references, one to the list without its signature and one to the signed
   properties, both matching; the signer is entitled and its signature verifies. *)
verify_enveloped_signature(signature, signers) ==
    /\ Len(signature.references) = 2
    /\ signature.signer \in signers
    /\ signature.value_verifies
    /\ {signature.references[i].covers : i \in 1 .. 2} = {"list", "properties"}
    /\ \A i \in 1 .. 2 : signature.references[i].matches

(* A list reads when an entitled signer signed it whole and every bound holds. *)
ListReads(list, signers) ==
    /\ verify_enveloped_signature(list.signature, signers)
    /\ Len(list.pointers) <= MAX_POINTERS
    /\ Len(list.services) <= MAX_SERVICES
    /\ \A i \in DOMAIN list.services :
         /\ Len(list.services[i].history) <= MAX_HISTORY
         /\ ~qualified_without_certificate(list.services[i])

names_national_list(pointer) == pointer.list_type = "generic" /\ pointer.xml

NoLocation == 0   \* a pointer without an address that can be followed

(* What one pointer of the list of the lists leads to. *)
NationalOutcome(pointer, fetched) ==
    IF pointer.location = NoLocation THEN "NoLocation"
    ELSE IF pointer.location \notin DOMAIN fetched THEN "NotFetched"
    ELSE IF ~ListReads(fetched[pointer.location], pointer.signers) THEN "Unreadable"
    ELSE IF fetched[pointer.location].list_type # "generic" THEN "NotNational"
    ELSE "read"

(* The readable national lists, in pointer order. *)
National(lotl, fetched) ==
    LET named == SelectSeq(lotl.pointers, LAMBDA p :
                             names_national_list(p) /\ NationalOutcome(p, fetched) = "read")
    IN  [i \in DOMAIN named |-> fetched[named[i].location]]

(* fetched maps locations to lists; the list of the lists must read, of its own type. *)
TrustedListsRead(lotl, lotl_signers) ==
    ListReads(lotl, lotl_signers) /\ lotl.list_type = "lotl"

(* The earliest nextUpdate of the lists that were read. *)
valid_until(lotl, national) ==
    LET due == {lotl.next_update} \cup {national[i].next_update : i \in DOMAIN national}
    IN  IF due \subseteq {Never} THEN Never
        ELSE CHOOSE t \in due \ {Never} : \A u \in due \ {Never} : t <= u

from_trusted_lists(pins, national) ==
    pins \o FlattenSeq([i \in DOMAIN national |->
              FlattenSeq([j \in DOMAIN national[i].services |->
                service_anchors(national[i].services[j],
                                anchor_role(national[i].services[j].current.service_type),
                                granted_periods(national[i].services[j]))])])

anchors_stale(until, now) == until # Never /\ until < now
=============================================================================
