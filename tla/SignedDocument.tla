--------------------------- MODULE SignedDocument ---------------------------
(***************************************************************************)
(* A signed document after it was written: a PDF file that grows by        *)
(* revisions, or an ASiC-E container other tools repack (the dispatch of   *)
(* doc-sign/src/verification.rs verify).                                   *)
(***************************************************************************)
EXTENDS Naturals, Sequences

CONSTANTS Documents, MAX_XREF_SECTIONS,                         \* of PdfRevisions
          ObjectLists, Names, MAX_ENTRIES, MAX_TOTAL_BYTES, MaxEdits  \* of AsicContainer

VARIABLES format,                 \* what the file is: "pdf" or "asic"
          file, placed, chosen,   \* of PdfRevisions
          archive, signed, edits  \* of AsicContainer

Pdf == INSTANCE PdfRevisions
Asic == INSTANCE XadesContainer

pdf == <<file, placed, chosen>>
asic == <<archive, signed, edits>>
vars == <<format, pdf, asic>>

Init == /\ Asic!Init
        /\ \/ format = "pdf" /\ Pdf!Init
           \/ format = "asic" /\ file = <<>> /\ placed = [signatures |-> {}, evidence |-> {}] /\ chosen = [length |-> 0, bound |-> 0, edits |-> {}]

InPdf == format = "pdf" /\ UNCHANGED <<format, asic>>
InAsic == format = "asic" /\ UNCHANGED <<format, pdf>>

Next == \/ InPdf /\ \E visible \in BOOLEAN : Pdf!prepare(visible)
        \/ InPdf /\ Pdf!prepare_document_timestamp
        \/ InPdf /\ \E material \in Pdf!Materials : Pdf!append_validation_store(material)
        \/ InPdf /\ \E e \in chosen.edits : Pdf!other_revision(e)
        \/ InAsic /\ \E objects \in ObjectLists, level \in Asic!Levels : Asic!sign_xades(objects, level[1], level[2])
        \/ InAsic /\ \E objects \in ObjectLists, archived \in BOOLEAN : Asic!sign_cades(objects, archived)
        \/ InAsic /\ Asic!other_tool(Asic!Reheaded)
        \/ InAsic /\ Asic!other_tool(Asic!Replaced)
        \/ InAsic /\ Asic!other_tool(Asic!Restructured)
        \/ InAsic /\ Asic!other_tool(Asic!Extended)
        \/ InAsic /\ Asic!other_tool(Asic!Resigned)

Spec == Init /\ [][Next]_vars

-----------------------------------------------------------------------------
\* Every variable has its type, in the format the document has.
TypeOK == format \in {"pdf", "asic"} /\ (format = "pdf" => Pdf!TypeOK) /\ (format = "asic" => Asic!TypeOK)

\* A container the reader accepts is one every reader reads alike: walking the local headers gives the files the
\* central directory gives, no bytes lie outside them, and no two names fold together (verification/asic.rs
\* read_zip).
OneReading == format = "asic" => Asic!OneReading

\* What is reported as covered is what was signed.  PDF: a revision that changes what the signer saw - a page, its
\* content, its annotations, a field's value, the opening action - never leaves an earlier signature reported as
\* covering the document (verification/pdf/revision.rs first_change).  Container: a signature that verifies and is
\* reported intact stands over exactly the files the signer was shown and carries the properties the signer signed,
\* and a counter-signature stands over the value of the signature it is reported under (verification/xades.rs
\* read_reference, document_intact; asic.rs manifest_intact).
IntactIsAsSigned == /\ format = "pdf" => Pdf!ChangeIsSeen
                    /\ format = "asic" => Asic!IntactIsAsSigned

\* What is written verifies.  PDF, up to the sections a reader follows: what the writer appends - further signatures,
\* timestamps, validation material - leaves a document that reads, never makes an earlier signature read as changed,
\* and every signature it placed stays attached: its field in the form's tree under a name of its own, its widget on
\* its page, no evidence lost (pades.rs against first_change).  Container: the reader accepts it exactly when no two
\* of its names fold together, and then reports its one signature intact and valid, with timestamps that imprint it,
\* unless one name stands for another in a reference (xades.rs, asic.rs, document.rs check_object_names).
OwnOutputVerifies == /\ format = "pdf" => Pdf!OwnRevisionsHarmless /\ Pdf!SignaturesAttached
                     /\ format = "asic" => Asic!OwnContainerVerifies

\* The material an archive timestamp is said to cover was in the signature when the timestamp was taken: evidence
\* put in later, wherever it is put, is never handed out as covered by a timestamp whose imprint still matches
\* (verification/xades.rs read_archive_timestamps).
CoveredWasStamped == format = "asic" => Asic!CoveredWasStamped
=============================================================================
