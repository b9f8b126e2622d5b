------------------------- MODULE MCDocVerification -------------------------
(* DocVerification over PDF files of every shape the writer distinguishes, *)
(* containers of one to three files, and small certificate worlds.         *)
EXTENDS DocVerification, Integers, TLC

V == INSTANCE PdfValues
J == INSTANCE TrustJudge

\* A two-page document.  shape names how the annotation list, the form, its fields and the store are held.
MCDocument(shape) ==
  LET entry(f) == [n \in DOMAIN f |-> V!Fresh(f[n])]
      annots == << <<6, 0>>, <<10, 0>> >>
      fields == << <<9, 0>>, <<10, 0>> >>
      formDict == (CASE shape.fields = "inline" -> "Fields" :> V!Arr(fields)
                     [] shape.fields = "object" -> "Fields" :> V!Ref(<<8, 0>>)
                     [] OTHER -> V!NoEntries) @@ ("DA" :> V!Name("Helv"))
                  @@ (IF shape.flags THEN "SigFlags" :> V!Name("1") ELSE V!NoEntries)
      catalog == ("Type" :> V!Name("Catalog")) @@ ("Pages" :> V!Ref(<<2, 0>>))
                 @@ (CASE shape.form = "inline" -> "AcroForm" :> V!Dict(formDict)
                       [] shape.form = "object" -> "AcroForm" :> V!Ref(<<7, 0>>)
                       [] OTHER -> V!NoEntries)
                 @@ (CASE shape.dss = "inline" -> "DSS" :> V!Dict("Certs" :> V!Arr(<< <<13, 0>> >>))
                       [] shape.dss = "object" -> "DSS" :> V!Ref(<<12, 0>>)
                       [] OTHER -> V!NoEntries)
      page == ("Type" :> V!Name("Page")) @@ ("Parent" :> V!Ref(<<2, 0>>)) @@ ("Contents" :> V!Ref(<<5, 0>>))
      objects == (1 :> V!Obj(catalog)) @@ (2 :> V!Obj(("Type" :> V!Name("Pages")) @@ ("Kids" :> V!Arr(<< <<3, 0>>, <<4, 0>> >>))))
                 @@ (3 :> V!Obj(page @@ (CASE shape.annots = "inline" -> "Annots" :> V!Arr(annots)
                                         [] shape.annots = "object" -> "Annots" :> V!Ref(<<14, shape.generation>>)
                                         [] OTHER -> V!NoEntries)))
                 @@ (4 :> V!Obj(page))
                 @@ (5 :> V!StreamObj(V!NoEntries, "text"))
                 @@ (6 :> V!Obj(("Type" :> V!Name("Annot")) @@ ("Subtype" :> V!Name("Text")) @@ ("Rect" :> V!Name("first"))))
                 @@ (11 :> V!Obj("Title" :> V!Name("title")))
                 @@ (IF shape.form = "object" THEN 7 :> V!Obj(formDict) ELSE <<>>)
                 @@ (IF shape.fields = "object" THEN 8 :> V!ArrayObj(fields) ELSE <<>>)
                 @@ (9 :> V!Obj(("FT" :> V!Name("Tx")) @@ ("T" :> V!Title(<<"Signature", 15, 0>>)) @@ ("V" :> V!Name("a"))))
                 @@ (10 :> V!Obj(("FT" :> V!Name("Sig")) @@ ("Type" :> V!Name("Annot")) @@ ("Subtype" :> V!Name("Widget"))
                                @@ ("Rect" :> V!Name("empty")) @@ ("T" :> V!Title(<<"Sign here", 0, 0>>))))
                 @@ (IF shape.dss = "object" THEN 12 :> V!Obj("Certs" :> V!Arr(<< <<13, 0>> >>)) ELSE <<>>)
                 @@ (13 :> V!StreamObj(V!NoEntries, "old"))
      listed == IF shape.annots = "object"
                THEN 14 :> [generation |-> shape.generation, obj |-> V!ArrayObj(annots)] ELSE <<>>
  IN  [i \in 1 .. shape.sections |->
         [entries |-> IF i = 1 THEN entry(objects) @@ listed ELSE <<>>,
          trailer |-> [root |-> <<1, 0>>, id |-> "first", info |-> V!Ref(<<11, 0>>), size |-> 15],
          is_stream |-> shape.stream, by |-> "other"]]

MCEdits == {"content", "page", "new_page", "drop_page", "annotate", "reorder", "free_annotation", "fill_text", "new_text",
            "fill_signature", "sign_with_kid", "unsigned_widget", "redraw", "info", "metadata", "open_action", "empty_store",
            "vri", "new_root", "new_id", "regenerate", "object_stream", "copy_signature"}

\* What a third revision might hide again.
MCMaskable == {"content", "annotate", "fill_text", "fill_signature", "unsigned_widget", "redraw", "open_action", "copy_signature"}

Shape(annots, acroform, fields, flags, dss, stream) ==
  [annots |-> annots, form |-> acroform, fields |-> fields, flags |-> flags, dss |-> dss, stream |-> stream,
   generation |-> 0, sections |-> 1, appended |-> 2, edits |-> MCEdits]

MCShapes ==
  {Shape("absent", "absent", "absent", FALSE, "absent", FALSE),
   Shape("inline", "inline", "inline", FALSE, "inline", FALSE),
   Shape("inline", "inline", "object", FALSE, "absent", TRUE),
   [Shape("object", "object", "inline", TRUE, "object", FALSE) EXCEPT !.appended = 3, !.edits = MCMaskable],
   Shape("object", "object", "object", FALSE, "object", TRUE),
   Shape("inline", "object", "object", TRUE, "absent", FALSE),
   Shape("object", "object", "absent", FALSE, "inline", TRUE),
   [Shape("object", "inline", "inline", TRUE, "absent", FALSE) EXCEPT !.generation = 1],
   [Shape("inline", "inline", "inline", TRUE, "absent", FALSE) EXCEPT !.sections = 4]}

MCDocuments == {[file |-> MCDocument(s), appended |-> s.appended, edits |-> s.edits] : s \in MCShapes}

MCName(part, case, level) == [place |-> "root", part |-> part, ext |-> "txt", case |-> case, level |-> level, path |-> "plain"]
MCObject(n, x) == [name |-> n, content |-> [t |-> "file", x |-> x]]

MCPlain == MCName("a", "as_is", -1)
MCSpaced == MCName("b c", "as_is", 0)

MCShouted == [MCPlain EXCEPT !.case = "upper"]

MCObjectLists == {<<MCObject(MCPlain, "text")>>, <<MCObject(MCPlain, "text"), MCObject(MCSpaced, "sheet")>>,
                  <<MCObject(MCPlain, "text"), MCObject(MCShouted, "sheet")>>,
                  <<MCObject(MCPlain, "text"), MCObject(MCSpaced, "text"), MCObject([MCName("mimetype", "as_is", -1) EXCEPT !.ext = ""], "x")>>}

\* Two changes where two files were signed, one where one was.  Names that fold together give a container the reader
\* refuses, changed elsewhere or not.
MCMaxEdits == [objects \in MCObjectLists |->
                 IF MCShouted \in {objects[i].name : i \in DOMAIN objects} THEN 0 ELSE IF Len(objects) = 1 THEN 1 ELSE 2]

MCNames == {MCName("d", "as_is", -1), [MCPlain EXCEPT !.path = "directory"]}

-----------------------------------------------------------------------------
Ee(purposes) ==
    [extensions |-> TRUE, reads |-> TRUE, ca |-> FALSE, critical |-> FALSE,
     name_constraints |-> FALSE, usage_present |-> TRUE, usage |-> {"non_repudiation"},
     path_len |-> J!Unlimited, purposes |-> purposes]

Ca(path_len) ==
    [Ee({}) EXCEPT !.ca = TRUE, !.critical = TRUE, !.usage = {"key_cert_sign"},
                   !.path_len = path_len]

Cert(id, subject, issuer, key, by, to, profile) ==
    [id |-> id, subject |-> subject, issuer |-> issuer, key |-> key, by |-> by,
     from |-> 0, to |-> to, profile |-> profile]

Signer == Cert("signer", "holder", "ca", "k1", "k2", 2, Ee({}))
Issuing == Cert("issuing", "ca", "root", "k2", "k3", 3, Ca(0))
Root == Cert("root", "root", "root", "k3", "k3", 9, Ca(J!Unlimited))
Tsa == Cert("tsa", "tsa", "tsa root", "k4", "k5", 3, Ee({"time_stamping"}))
TsaRoot == Cert("tsa root", "tsa root", "tsa root", "k5", "k5", 9, Ca(J!Unlimited))
(* The issuing CA certified again by a bridge, the bridge and the root by each other. *)
Crossed == Cert("crossed", "ca", "bridge", "k2", "k6", 9, Ca(0))
Bridge == Cert("bridge", "bridge", "root", "k6", "k3", 9, Ca(2))
RootCrossed == Cert("root crossed", "root", "bridge", "k3", "k6", 9, Ca(J!Unlimited))
BridgeShort == Cert("bridge short", "bridge", "root", "k6", "k3", 9, Ca(0))
(* The root certified by another one. *)
RootTop == Cert("root top", "root", "top", "k3", "k7", 9, Ca(J!Unlimited))
Top == Cert("top", "top", "top", "k7", "k7", 9, Ca(J!Unlimited))

Plain ==
    [certificates |-> {Signer, Issuing, Root, Tsa, TsaRoot}, signer |-> Signer,
     tsa |-> Tsa, tsa_chain |-> <<TsaRoot>>, roots |-> <<Root>>, tsa_roots |-> <<TsaRoot>>,
     others |-> <<Issuing>>, revocable |-> {}, answered |-> {}, addressed |-> {"signer"},
     lists |-> <<>>, statuses |-> {}, changes |-> 0, list_window |-> 1, window |-> 1,
     lag |-> 0, crl |-> FALSE, echo |-> TRUE, embeds |-> FALSE, online |-> FALSE,
     alterable |-> FALSE, types |-> {"CA/QC"}, other_rows |-> <<>>, adds |-> 1,
     archives |-> 0, covers |-> 0, sign_by |-> 0]

Tangled ==
    [Plain EXCEPT !.certificates = {Signer, Issuing, Root, Tsa, TsaRoot, Crossed, Bridge,
                                    RootCrossed, BridgeShort},
                  !.others = <<Crossed, BridgeShort, Bridge, RootCrossed, Issuing>>]

Listed ==
    [Plain EXCEPT !.roots = <<>>, !.tsa_roots = <<TsaRoot>>,
                  !.lists = <<[signer |-> "body", certificates |-> <<Issuing>>,
                               status |-> "undersupervision", service_type |-> "CA/QC"]>>,
                  !.statuses = {"granted", "withdrawn", "accredited"},
                  !.types = {"CA/QC", "CA/PKC"}, !.changes = 2]

(* Two certificates that certify each other lie on the only way to the anchor. *)
Looped ==
    [Tangled EXCEPT !.certificates = @ \cup {RootTop, Top}, !.roots = <<Top>>,
                    !.others = <<Crossed, Bridge, RootCrossed, BridgeShort, RootTop, Issuing>>]

MCWorlds ==
    {[Plain EXCEPT !.revocable = {"signer"}, !.answered = {Signer}, !.archives = 1],
     [Plain EXCEPT !.revocable = {"signer"}, !.answered = {Signer, Issuing}, !.window = J!Never,
                   !.online = TRUE, !.adds = 2],
     [Plain EXCEPT !.answered = {Issuing}, !.window = J!Never, !.echo = FALSE, !.lag = 2,
                   !.online = TRUE, !.covers = 1],
     [Plain EXCEPT !.revocable = {"issuing"}, !.answered = {Issuing}, !.crl = TRUE, !.lag = 1,
                   !.covers = 1],
     [Plain EXCEPT !.revocable = {"tsa"}, !.answered = {Tsa}, !.window = 2, !.alterable = TRUE,
                   !.archives = 1, !.embeds = TRUE,
                   !.other_rows = <<[counter_signs |-> TRUE, verdict |-> "NotValid"]>>],
     [Tangled EXCEPT !.answered = {Signer, Crossed, Bridge}, !.revocable = {"crossed"},
                     !.adds = 2, !.window = 2],
     [Looped EXCEPT !.answered = {Signer}],
     [Listed EXCEPT !.sign_by = J!Never],
     [Listed EXCEPT !.answered = {Signer}, !.statuses = {"granted", "withdrawn"},
                    !.types = {"CA/QC"}, !.changes = 1]}
=============================================================================
