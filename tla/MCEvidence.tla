------------------------------ MODULE MCEvidence ------------------------------
(* Instances of EvidenceExchange for TLC. *)
EXTENDS EvidenceExchange

Base == [goal |-> "status", policy |-> "RequireEcho", ocsp_urls |-> <<1>>, crl_urls |-> <<>>,
         random_fails |-> FALSE, transport_fails |-> FALSE, revokes |-> FALSE, clock |-> FALSE,
         issues |-> 1, requests |-> 1, faults |-> 0, base |-> <<>>, octets |-> {}, tags |-> {},
         attached |-> TRUE, contents |-> {Prim("OCTET STRING", <<101>>)}, signers |-> {13},
         reads |-> {"signed", "stamped", "archived"}]

SomeOctets == {<<1>>, <<255>>}
SomeTags == {"NULL", "[0]"}

(* Answers late, early, repeated and from before, to two addresses or one and a list. *)
Delays(policy, ocsp_urls, crl_urls) ==
    [Base EXCEPT !.policy = policy, !.ocsp_urls = ocsp_urls, !.crl_urls = crl_urls,
                 !.revokes = TRUE, !.clock = TRUE, !.issues = 2]
Failures ==
    [Base EXCEPT !.ocsp_urls = <<1, 2, 3, 4>>, !.crl_urls = <<5, 6>>, !.random_fails = TRUE,
                 !.transport_fails = TRUE]
(* One answer, damaged in one place. *)
DamagedOcsp ==
    [Base EXCEPT !.policy = "AllowMissingEcho", !.revokes = TRUE, !.faults = 1, !.octets = SomeOctets,
                 !.tags = SomeTags]
DamagedCrl ==
    [Base EXCEPT !.ocsp_urls = <<>>, !.crl_urls = <<1>>, !.revokes = TRUE, !.faults = 1,
                 !.octets = SomeOctets, !.tags = SomeTags]
DamagedToken ==
    [Base EXCEPT !.goal = "token", !.faults = 1, !.octets = SomeOctets, !.tags = SomeTags]
(* Two answers of which one is spliced with parts of the other. *)
SplicedToken ==
    [Base EXCEPT !.goal = "token", !.requests = 2, !.issues = 2, !.clock = TRUE, !.faults = 1,
                 !.contents = Contents]
Certificates ==
    [Base EXCEPT !.goal = "certificate", !.base = <<1, 8, 1>>, !.faults = 1, !.octets = SomeOctets,
                 !.tags = {"NULL", "BOOLEAN", "INTEGER", "SEQUENCE"}]
DamagedSignature(attached, issues, kind) ==
    [Base EXCEPT !.goal = "signature", !.issues = issues, !.faults = 1, !.attached = attached,
                 !.octets = SomeOctets, !.tags = {"NULL"}, !.reads = {kind}]
SplicedSignature ==
    [Base EXCEPT !.goal = "signature", !.issues = 2, !.faults = 1, !.contents = Contents,
                 !.signers = {13, 14}]

MCWorlds == {Delays("RequireEcho", <<1, 1, 2>>, <<>>),
             Delays("AllowMissingEcho", <<1>>, <<2>>), Failures, DamagedOcsp, DamagedCrl,
             DamagedToken, SplicedToken, Certificates, DamagedSignature(TRUE, 3, "archived"),
             DamagedSignature(FALSE, 1, "signed"), SplicedSignature}
==============================================================================
