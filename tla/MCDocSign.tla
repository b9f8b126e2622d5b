----------------------------- MODULE MCDocSign -----------------------------
(* A small instance of DocSign for TLC. *)
EXTENDS DocSign, TLC

CONSTANTS c1, c2, c3, c4, t1, t2

MCAuthorities == {t1, t2}
MCCards == {c1, c2, c3, c4}
MCSerial == (c1 :> 1) @@ (c2 :> 2) @@ (c3 :> None) @@ (c4 :> None)

Request(slot, format, long_term, archive, authorities, shown) ==
    [slot |-> slot, format |-> format, long_term |-> long_term,
     archive |-> archive, authorities |-> authorities, shown |-> shown]

Plain == Request("Qualified", "Cades", FALSE, FALSE, <<>>, None)
PlainAuth == Request("Authentication", "Cades", FALSE, FALSE, <<>>, 1)
Stamped == Request("Qualified", "Cades", FALSE, FALSE, <<t1>>, None)
LongTerm == Request("Qualified", "AsicEXades", TRUE, FALSE, <<t1, t2>>, None)
ArchivedPdf == Request("Qualified", "Pades", FALSE, TRUE, <<t1, t2>>, 1)
ArchivedAsic == Request("Qualified", "AsicECades", TRUE, TRUE, <<t1>>, None)
ArchivedAsic2 == Request("Qualified", "AsicECades", TRUE, TRUE, <<t1, t2>>, None)
Impossible == Request("Qualified", "AsicEXades", TRUE, TRUE, <<t1>>, None)

MCRuns ==
    {<<Plain, PlainAuth, Plain>>, <<Plain, Plain, Plain>>, <<Plain, ArchivedPdf>>,
     <<Stamped, ArchivedAsic>>, <<LongTerm>>, <<ArchivedAsic2>>, <<Impossible, Plain>>}
=============================================================================
