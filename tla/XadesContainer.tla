--------------------------- MODULE XadesContainer ---------------------------
(***************************************************************************)
(* The signatures of an ASiC-E container: the XAdES and CAdES signatures   *)
(* the signer writes over the files (doc-sign/src/xades.rs, asic.rs,       *)
(* document.rs), what other tools do to the container afterwards, and what *)
(* verification/xades.rs and the container half of verification.rs report. *)
(***************************************************************************)
EXTENDS AsicContainer

-----------------------------------------------------------------------------
(* A ds:Signature is a tree: SignedInfo, its value, the KeyInfo            *)
(* certificates, the SignedProperties, the unsigned properties in order    *)
(* and the other ds:Object elements.  Ids are names.                       *)

Exclusive == "exclusive"
Canonical10 == "canonical10"
Unknown == "unknown"

\* The octets of an element; what the algorithm is decides them, and so do the ancestors of an inclusive one.
Canonicalize(algorithm, element) == [algorithm |-> algorithm, element |-> element]
canonicalization_method(method) == method # Unknown

FileUri(n) == [t |-> "file", name |-> n]
Fragment(id) == [t |-> "fragment", id |-> id]
Whole == [t |-> "whole"]
Reference(uri, type, transforms, digest) == [uri |-> uri, type |-> type, transforms |-> transforms, digest |-> digest]

NoMaterial == {}
None == "none"
NoId == <<>>

\* An unsigned property; names is what a TimeStampValidationData points at, distributed an Include child.
Property(kind) ==
  [kind |-> kind, id |-> NoId, tokens |-> {}, c14n |-> Exclusive, material |-> NoMaterial, names |-> NoId, distributed |-> FALSE,
   inner |-> [id |-> NoId]]

ValueElement(s) == [kind |-> "SignatureValue", id |-> s.value_id, of |-> s.value]

\* The elements of a signature that carry an Id, counter-signatures excluded.
OwnElements(s) ==
  <<[id |-> s.id, element |-> [kind |-> "Signature", of |-> s.id]],
    [id |-> s.value_id, element |-> ValueElement(s)],
    [id |-> s.properties.id, element |-> s.properties]>> \o s.objects

\* The counter-signatures of s, and the signature a path of positions leads to.
Counters(s) == SelectSeq(s.unsigned, LAMBDA p : p.kind = "CounterSignature")
SignatureUnder(s, path) == FoldLeft(LAMBDA outer, i : Counters(outer)[i].inner, s, path)

ElementsOf(s) ==
  LET from[path \in Seq(Nat)] ==
        OwnElements(SignatureUnder(s, path))
        \o FlattenSeq([i \in DOMAIN Counters(SignatureUnder(s, path)) |-> from[Append(path, i)]])
  IN  from[<<>>]

Elements(file) == FoldLeft(LAMBDA all, s : all \o ElementsOf(s), <<>>, file.content.sigs)

\* XmlDocument::parse refuses two elements with one Id.
Parses(file) == IsInjective([i \in DOMAIN Elements(file) |-> Elements(file)[i].id])

-----------------------------------------------------------------------------
(* XadesSignature::read.                                                   *)

\* What a fragment reference digests: an element counts as the signed properties, or as the countersigned value,
\* only when it is the very element of this signature.
FragmentTarget(type, element, octets, properties, countersigned) ==
  CASE type = "properties" /\ element = properties -> [t |-> "SignedProperties", octets |-> octets]
    [] type = "countersigned" /\ element = countersigned -> [t |-> "Countersigned", octets |-> octets]
    [] type = "none" -> [t |-> "SameDocument", octets |-> octets]
    [] OTHER -> [t |-> "Unresolvable"]

\* read_reference: what the reference digests, or why it is not computed.
read_reference(elements, ref, properties, countersigned) ==
  LET known == ref.transforms = <<>> \/ (Len(ref.transforms) = 1 /\ canonicalization_method(ref.transforms[1]))
      algorithm == IF ref.transforms = <<>> THEN Canonical10 ELSE ref.transforms[1]
      found == SelectSeq(elements, LAMBDA e : e.id = ref.uri.id)
      element == found[1].element
  IN  IF ref.digest.method \notin Computed THEN [t |-> "DigestAlgorithm"]
      ELSE IF ~known \/ (ref.uri.t # "fragment" /\ ref.transforms # <<>>) THEN [t |-> "TransformChain"]
      ELSE IF ref.uri.t = "fragment"
      THEN IF found = <<>> THEN [t |-> "Unresolvable"]
           ELSE FragmentTarget(ref.type, element, Canonicalize(algorithm, element), properties, countersigned)
      ELSE IF ref.uri.t = "whole" \/ ref.type # "none" THEN [t |-> "Unresolvable"]
      ELSE [t |-> "DataFile", uri |-> ref.uri.name]

NoCertificate == "none"

\* select_signer: the certificate the binding pins, or the first of KeyInfo.
select_signer(s, certificates) ==
  LET pinned == SelectSeq(s.keyinfo \o SetToSeq(certificates), LAMBDA c : c = s.properties.binding.of)
  IN  IF s.properties.binding.method \in Computed
      THEN IF pinned = <<>> THEN NoCertificate ELSE pinned[1]
      ELSE IF s.keyinfo = <<>> THEN NoCertificate ELSE s.keyinfo[1]

\* property_material and read_unsigned: what the unsigned properties hold.
property_material(p) ==
  IF p.kind \in {"CertificateValues", "RevocationValues", "TimeStampValidationData"} THEN p.material ELSE NoMaterial

Certificates(material) == {m.certificate : m \in {x \in material : x.t = "certificate"}}
Material(props) == UNION {property_material(props[i]) : i \in DOMAIN props}

Unsupported(s, targets) ==
  \/ s.properties.binding.method = Unknown
  \/ ~canonicalization_method(s.info.c14n) \/ s.info.method = Unknown
  \/ \E i \in DOMAIN targets : targets[i].t \in {"DigestAlgorithm", "TransformChain"}

Facts(s, held, targets, countersigned) ==
  [signature |-> s,
   targets |-> targets,
   unsupported |-> Unsupported(s, targets),
   signer |-> select_signer(s, held),
   held |-> held,
   counter |-> countersigned.kind # "nothing"]

\* The facts read once; outer is what the enclosing signatures carry.
Read(file, s, countersigned, outer) ==
  Facts(s, Certificates(Material(s.unsigned)) \cup outer,
        [i \in DOMAIN s.info.refs |-> read_reference(Elements(file), s.info.refs[i], s.properties, countersigned)], countersigned)

-----------------------------------------------------------------------------
(* XadesSignature::verify.                                                 *)

Octets(target) == target.octets

\* Every reference matches, one covers the signed properties, and every data file is covered.
document_intact(a, r) ==
  LET refs == r.signature.info.refs
      FileOf(t) == Named(data_files(a), t.uri)
      Matches(i) == LET t == r.targets[i]
                        digest == refs[i].digest
                    IN  CASE t.t = "DataFile" -> FileOf(t) # <<>> /\ digest.of = FileOf(t)[1].content
                          [] t.t = "Unresolvable" -> FALSE
                          [] OTHER -> digest.of = Octets(t)
      Some(kind) == \E i \in DOMAIN refs : r.targets[i].t = kind
      covered == IF r.counter THEN Some("Countersigned")
                 ELSE \A k \in DOMAIN data_files(a) :
                        \E i \in DOMAIN refs : r.targets[i].t = "DataFile" /\ uri_names(r.targets[i].uri, data_files(a)[k].name)
  IN  refs # <<>> /\ (\A i \in DOMAIN refs : Matches(i)) /\ Some("SignedProperties") /\ covered

\* The value verifies under the signer's key over the canonical SignedInfo, and the signer is bound.
signature_valid(r) ==
  LET s == r.signature
  IN  /\ r.signer # NoCertificate
      /\ s.value = [key |-> r.signer, over |-> Canonicalize(s.info.c14n, s.info)]
      /\ s.properties.binding.method \in Computed /\ s.properties.binding.of = r.signer

-----------------------------------------------------------------------------
(* read_archive_timestamps: each archive timestamp with what it stamps and *)
(* the material it is said to cover.                                       *)

KeyInfoMaterial(s) == {[t |-> "certificate", certificate |-> c] : c \in ToSet(s.keyinfo)}

\* The octets after the references: SignedInfo, value, KeyInfo, the preceding properties, the other objects.
AfterReferences(s, i) ==
  LET p == s.unsigned[i]
      C(x) == Canonicalize(p.c14n, x)
  IN  IF p.kind # "ArchiveTimeStamp" \/ p.distributed \/ ~canonicalization_method(p.c14n) THEN [t |-> "Uncomputable"]
      ELSE [t |-> "Computed",
            octets |-> <<C(s.info), C(s.value), C(s.keyinfo), [k \in 1 .. i - 1 |-> C(s.unsigned[k])], C(s.objects)>>]

\* reference_octets: the signed octets themselves, in order.
reference_octets(a, r) ==
  LET Of(t) == IF t.t = "DataFile" THEN Named(data_files(a), t.uri)[1].content ELSE Octets(t)
      resolves == \A i \in DOMAIN r.targets : LET t == r.targets[i]
                                              IN  t.t # "Unresolvable" /\ (t.t = "DataFile" => Named(data_files(a), t.uri) # <<>>)
  IN  IF resolves THEN [t |-> "Computed", octets |-> [i \in DOMAIN r.targets |-> Of(r.targets[i])]] ELSE [t |-> "Uncomputable"]

ArchiveInput(a, r, i) ==
  LET after == AfterReferences(r.signature, i)
      refs == reference_octets(a, r)
  IN  IF "Uncomputable" \in {after.t, refs.t} THEN [t |-> "Uncomputable"]
      ELSE [t |-> "Computed", octets |-> <<refs.octets, after.octets>>]

IsArchive(p) == p.kind \in {"ArchiveTimeStamp", "ArchiveTimeStamp132"}

\* Mutant: the properties after the timestamp count as covered too.
Covered_all(s, i) == KeyInfoMaterial(s) \cup Material(s.unsigned)

\* What an archive timestamp covers: KeyInfo and the properties before it.
Covered(s, i) == KeyInfoMaterial(s) \cup Material(SubSeq(s.unsigned, 1, i - 1))

\* The material of the TimeStampValidationData properties that name the stamp, or follow it unnamed.
AuthorityMaterial(s, i) ==
  LET props == s.unsigned
      Stamps(j) == {k \in 1 .. j - 1 : IsArchive(props[k])}
      Names1(j) == {k \in Stamps(j) : props[k].id = props[j].names}
      Target(j) == IF props[j].names # NoId THEN {k \in Names1(j) : \A x \in Names1(j) : k <= x}
                   ELSE {k \in Stamps(j) : \A x \in Stamps(j) : x <= k}
  IN  UNION {props[j].material : j \in {x \in i + 1 .. Len(props) : props[x].kind = "TimeStampValidationData" /\ i \in Target(x)}}

\* archive_timestamps: every token with its input, what it covers and the material for its authority.
archive_timestamps(a, r) ==
  LET s == r.signature
  IN  UNION {{[token |-> k, input |-> ArchiveInput(a, r, i), covered |-> Covered(s, i), authority |-> AuthorityMaterial(s, i)] :
                k \in s.unsigned[i].tokens} : i \in {x \in DOMAIN s.unsigned : IsArchive(s.unsigned[x])}}

\* signature_timestamps: every token with the canonical value it must imprint.
signature_timestamps(s) ==
  UNION {{[token |-> k, input |-> IF canonicalization_method(s.unsigned[i].c14n)
                                  THEN [t |-> "Computed", octets |-> Canonicalize(s.unsigned[i].c14n, ValueElement(s))]
                                  ELSE [t |-> "Uncomputable"]] :
            k \in s.unsigned[i].tokens} : i \in {x \in DOMAIN s.unsigned : s.unsigned[x].kind = "SignatureTimeStamp"}}

\* The token is over what the document holds (verify_token's imprint check).
Imprints(stamp) == stamp.input.t = "Computed" /\ stamp.token.over = stamp.input.octets

-----------------------------------------------------------------------------
(* The rows of verification.rs: every signature, then its                  *)
(* counter-signatures.                                                     *)

Nothing == [kind |-> "nothing"]
MAX_COUNTER_SIGNATURE_DEPTH == 4

Unjudged(depth) == [t |-> "unsupported", depth |-> depth]

xades_row(a, r, enclosing, depth) ==
  IF r.unsupported \/ r.signer = NoCertificate THEN Unjudged(depth)
  ELSE [t |-> "judged", depth |-> depth, signer |-> r.signer, intact |-> document_intact(a, r), valid |-> signature_valid(r),
        read |-> r, enclosing |-> enclosing]

\* The value the signature at a path counter-signs.
Enclosing(s, path) == IF path = <<>> THEN Nothing ELSE ValueElement(SignatureUnder(s, Front(path)))

Malformed(s) == s.properties.binding.method \notin Computed /\ s.keyinfo = <<>>

push_xades_rows(a, file, s) ==
  LET read[path \in Seq(Nat)] ==
        Read(file, SignatureUnder(s, path), Enclosing(s, path), IF path = <<>> THEN {} ELSE read[Front(path)].held)
      rows[path \in Seq(Nat)] ==
        IF Len(path) > MAX_COUNTER_SIGNATURE_DEPTH \/ Malformed(SignatureUnder(s, path)) THEN <<Unjudged(Len(path))>>
        ELSE <<xades_row(a, read[path], Enclosing(s, path), Len(path))>>
             \o FlattenSeq([i \in DOMAIN Counters(SignatureUnder(s, path)) |-> rows[Append(path, i)]])
  IN  rows[<<>>]

asic_cades_row(a, signature) ==
  IF signature.content.t # "cms" \/ ManifestOf(a, signature) = <<>> THEN Unjudged(0)
  ELSE [t |-> "judged", depth |-> 0, signer |-> signature.content.key,
        intact |-> signature.content.over = ManifestOf(a, signature)[1].content /\ manifest_intact(a, signature),
        valid |-> TRUE, read |-> signature, enclosing |-> Nothing]

Readable(f) == f.content.t = "xades" /\ f.content.sigs # <<>> /\ Parses(f)
RowsOf(a, f) == FlattenSeq([k \in DOMAIN f.content.sigs |-> push_xades_rows(a, f, f.content.sigs[k])])
XadesRows(a, files) ==
  IF \A i \in DOMAIN files : Readable(files[i]) THEN FlattenSeq([i \in DOMAIN files |-> RowsOf(a, files[i])]) ELSE <<Unjudged(0)>>
CadesRows(a, files) == [i \in DOMAIN files |-> asic_cades_row(a, files[i])]

verify_asic(a) == XadesRows(a, xades_signature_files(a)) \o CadesRows(a, cades_files(a))

-----------------------------------------------------------------------------
(* The signer: document.rs plan and finish for the two container formats.  *)

SignedProperties(id, certificate) == [id |-> id, binding |-> Digest("sha256", certificate)]

\* xades::plan: one reference per file, one over the properties; the value is over the canonical SignedInfo.
SignatureOver(id, objects, certificate) ==
  LET properties == SignedProperties(Append(id, "props"), certificate)
      refs == [i \in DOMAIN objects |-> Reference(FileUri(percent_encode_path(objects[i].name)), None, <<>>,
                                                 Digest("sha256", objects[i].content))]
              \o <<Reference(Fragment(Append(id, "props")), "properties", <<Exclusive>>,
                           Digest("sha256", Canonicalize(Exclusive, properties)))>>
      info == [c14n |-> Exclusive, method |-> "ecdsa", refs |-> refs]
  IN  [id |-> Append(id, "sig"), info |-> info, value |-> [key |-> certificate, over |-> Canonicalize(Exclusive, info)],
       value_id |-> Append(id, "value"), keyinfo |-> <<certificate>>, properties |-> properties, unsigned |-> <<>>, objects |-> <<>>]

\* A token over what an authority was given, with the material the signature held then.
Token(over, present) == [over |-> over, present |-> present]

Certificate(c) == [t |-> "certificate", certificate |-> c]
Answer(c) == [t |-> "answer", certificate |-> c]

\* SignaturePlan::finish: the timestamps, the certificates, the revocation values.
Finished(s, timestamped, material) ==
  LET token == Token(Canonicalize(Exclusive, ValueElement(s)), KeyInfoMaterial(s))
      certificates == {m \in material : m.t = "certificate"}
      Held(kind, m) == IF m = {} THEN <<>> ELSE <<[Property(kind) EXCEPT !.material = m]>>
  IN  [s EXCEPT !.unsigned = (IF timestamped THEN <<[Property("SignatureTimeStamp") EXCEPT !.tokens = {token}]>> ELSE <<>>)
                             \o Held("CertificateValues", certificates) \o Held("RevocationValues", material \ certificates)]

Unwritten == ZipWriter(<<>>)
DataEntries(objects) == [i \in DOMAIN objects |-> Entry(objects[i].name, objects[i].content)]

\* xades_container.
sign_xades(objects, timestamped, material) ==
  LET s == Finished(SignatureOver(<<"own">>, objects, "signer"), timestamped, material)
  IN  /\ archive = Unwritten /\ objects # <<>> /\ check_object_names(objects)
      /\ archive' = ZipWriter(<<Entry(mimetype, MediaType("asic-e"))>> \o DataEntries(objects)
                             \o <<Entry(Meta("manifest", "xml"), Passive("odf")),
                                  Entry(Meta("signatures", "xml"), SignatureFile(<<s>>))>>)
      /\ signed' = objects
      /\ UNCHANGED edits

SIGNATURE_ENTRY == Meta("signature", "p7s")

\* asic::plan, then ContainerPlan::finish or finish_archived.
sign_cades(objects, archived) ==
  LET refs == [i \in DOMAIN objects |-> [uri |-> percent_encode_path(objects[i].name), digest |-> Digest("sha256", objects[i].content)]]
      manifest == Manifest(<<SIGNATURE_ENTRY>>, refs)
  IN  /\ archive = Unwritten /\ objects # <<>> /\ check_object_names(objects)
      /\ archive' = ZipWriter(<<Entry(mimetype, MediaType("asic-e"))>> \o DataEntries(objects)
                             \o <<Entry(Meta("ASiCManifest", "xml"), manifest), Entry(SIGNATURE_ENTRY, Cms("signer", manifest))>>
                             \o (IF archived THEN <<Entry(Meta("ASiCArchiveManifest", "xml"), Passive("archive")),
                                                   Entry(Meta("timestamp", "tst"), Passive("token"))>> ELSE <<>>))
      /\ signed' = objects
      /\ UNCHANGED edits

-----------------------------------------------------------------------------
(* Other tools: any change of one field, one entry or one property.        *)

Positions(a) == {i \in {1, 2, Len(a.locals)} : i \in DOMAIN a.locals /\ i \in DOMAIN a.central /\ a.central[i].at = i}

\* A header as another archiver might have written it.
Rewritten(h) ==
  {[h EXCEPT !.method = m] : m \in {"deflated", "other"}}
  \cup {[h EXCEPT !.flags = {f}] : f \in {"encrypted", "descriptor"}} \cup {[h EXCEPT !.extra = x] : x \in {"benign", "renaming"}}
  \cup {[h EXCEPT !.name = n] : n \in Names \cup {[h.name EXCEPT !.path = "escaping"]}} \cup {[h EXCEPT !.sums = File("altered")]}

\* One header rewritten in the local entry, in the directory, or in both.
Reheaded(a) ==
  UNION {UNION {{[a EXCEPT !.locals[i].head = h], [a EXCEPT !.central[i].head = h], [a EXCEPT !.locals[i].head = h, !.central[i].head = h],
                 [a EXCEPT !.locals[i].head = [h EXCEPT !.sums = Zero], !.central[i].head = h]} :
                   h \in Rewritten(a.locals[i].head)} : i \in Positions(a)}

\* One entry's bytes replaced, with or without its headers.
Put(a, i, content) == [a EXCEPT !.locals[i] = [@ EXCEPT !.data = content, !.head.sums = content, !.descriptor = content],
                                !.central[i].head.sums = content]
Replaced(a) == UNION {{[a EXCEPT !.locals[i].data = File("altered")], Put(a, i, File("altered"))} : i \in Positions(a)}

\* Bytes no header describes, entries the directory does not list, or lists twice; links; an end record that does not end the file.
Restructured(a) ==
  LET n == Len(a.locals)
  IN  {[a EXCEPT !.gaps = {k}] : k \in {0, 1, n}}
      \cup {[a EXCEPT !.locals = Append(@, Local(x, File("hidden")))] : x \in Names}
      \cup {[a EXCEPT !.central = Append(@, [a.central[2] EXCEPT !.head.name = x]), !.end.count = @ + 1] : x \in Names}
      \cup {[a EXCEPT !.central[2].type = y] : y \in {"link", "directory"}}
      \cup {[a EXCEPT !.end.features = {"zip64"}], [a EXCEPT !.end.ends_file = FALSE], [a EXCEPT !.end.count = @ + 1]}

\* An entry added, first or last in the directory, or removed.
Added(a, n, content) ==
  LET k == Len(a.locals) + 1
      grown == [a EXCEPT !.locals = Append(@, Local(n, content)), !.end.count = @ + 1]
  IN  {[grown EXCEPT !.central = Append(@, Record(n, content, k))], [grown EXCEPT !.central = <<Record(n, content, k)>> \o @]}

Without(a, i) == [a EXCEPT !.locals = RemoveAt(@, i), !.end.count = @ - 1,
                           !.central = [j \in DOMAIN RemoveAt(@, i) |-> [RemoveAt(@, i)[j] EXCEPT !.at = IF @ > i THEN @ - 1 ELSE @]]]

Extended(a) ==
  LET second == Manifest(<<SIGNATURE_ENTRY>>, <<>>)
  IN  UNION {Added(a, n, File("added")) : n \in Names \cup {[to_lowercase(e.head.name) EXCEPT !.path = "plain"] : e \in {a.central[2]}}}
      \cup Added(a, Meta("container", "xml"), Passive("oebps")) \cup Added(a, Meta("readme", "txt"), Passive("note"))
      \cup Added(a, Meta("ASiCManifest", "xml"), second) \cup Added(a, [Meta("ASiCManifest", "xml") EXCEPT !.level = 0], second)
      \cup Added(a, [mimetype EXCEPT !.path = "directory"], Passive("empty"))
      \cup {Without(a, i) : i \in Positions(a)}

-----------------------------------------------------------------------------
(* Tools that know XAdES: evidence, further signatures, and rewritten      *)
(* signature files.                                                        *)

SignatureAt(a) == {i \in DOMAIN a.locals : a.locals[i].data.t = "xades" /\ i \in DOMAIN a.central /\ a.central[i].at = i}

\* The archive timestamp a tool takes over the container as it stands.
Stamped(a, s, i) ==
  LET r == Read(Entry(Meta("signatures", "xml"), a.locals[i].data), s, Nothing, {})
      p == [Property("ArchiveTimeStamp") EXCEPT !.id = <<"stamp", Len(s.unsigned)>>]
      input == ArchiveInput(a, [r EXCEPT !.signature.unsigned = Append(@, p)], Len(s.unsigned) + 1)
  IN  IF input.t = "Computed" THEN {[p EXCEPT !.tokens = {Token(input.octets, KeyInfoMaterial(s) \cup Material(s.unsigned))}]} ELSE {}

\* A counter-signature over the value of s.
CounterSignature(s, n) ==
  LET bare == SignatureOver(<<"counter", n>>, <<>>, "countersigner")
      info == [bare.info EXCEPT !.refs = Append(@, Reference(Fragment(s.value_id), "countersigned", <<Exclusive>>,
                                                             Digest("sha256", Canonicalize(Exclusive, ValueElement(s)))))]
  IN  [Property("CounterSignature") EXCEPT
         !.inner = [bare EXCEPT !.info = info, !.value = [key |-> "countersigner", over |-> Canonicalize(Exclusive, info)]]]

Evidence(a, s, i) ==
  {[Property("CertificateValues") EXCEPT !.material = {Certificate("issuer")}],
   [Property("RevocationValues") EXCEPT !.material = {Answer("issuer")}],
   [Property("TimeStampValidationData") EXCEPT !.material = {Certificate("authority")}],
   [Property("TimeStampValidationData") EXCEPT !.material = {Certificate("authority")}, !.names = <<"stamp", 0>>],
   CounterSignature(s, Len(s.unsigned))} \cup Stamped(a, s, i)

\* The signed properties moved aside, and others put in their place.
Wrapped(s) == [s EXCEPT !.objects = <<[id |-> s.properties.id, element |-> s.properties]>>,
                        !.properties = SignedProperties(<<"wrapped">>, "signer")]

\* One signature changed: evidence put last or first, counter-signatures and references dropped, the signer exchanged.
Reworked(a, s, i) ==
  {[s EXCEPT !.unsigned = Append(@, p)] : p \in Evidence(a, s, i)} \cup {[s EXCEPT !.unsigned = <<p>> \o @] : p \in Evidence(a, s, i)}
  \cup {Wrapped(s), [s EXCEPT !.info.refs = Tail(@)], [s EXCEPT !.keyinfo = <<"other">> \o @], [s EXCEPT !.properties.binding.of = "other"],
        [s EXCEPT !.unsigned = <<>>], [s EXCEPT !.info.c14n = Unknown], [s EXCEPT !.value_id = s.id],
        [SignatureOver(<<"own">>, signed, "other") EXCEPT !.unsigned = s.unsigned]}

\* Another signer adds a signature over the files there are, or takes over the counter-signatures of the first.
CoSigned(a, sigs) ==
  LET other == SignatureOver(<<"second">>, data_files(a), "other")
  IN  {Append(sigs, other), Append(sigs, [other EXCEPT !.unsigned = SelectSeq(sigs[1].unsigned, LAMBDA p : p.kind = "CounterSignature")]),
       <<[other EXCEPT !.unsigned = SelectSeq(sigs[1].unsigned, LAMBDA p : p.kind = "CounterSignature")],
         [sigs[1] EXCEPT !.unsigned = SelectSeq(@, LAMBDA p : p.kind # "CounterSignature")]>>}

Resigned(a) ==
  UNION {LET sigs == a.locals[i].data.sigs
         IN  {Put(a, i, SignatureFile([sigs EXCEPT ![1] = s])) : s \in Reworked(a, sigs[1], i)}
             \cup {Put(a, i, SignatureFile(x)) : x \in CoSigned(a, sigs)}
         : i \in SignatureAt(a)}

other_tool(Changes(_)) ==
  /\ archive # Unwritten /\ edits < MaxEdits[signed] /\ edits' = edits + 1
  /\ archive' \in Changes(archive)
  /\ UNCHANGED signed

-----------------------------------------------------------------------------
Init == archive = Unwritten /\ signed = <<>> /\ edits = 0

\* The levels B, T and LT: a timestamp or none, and with it validation material.
Levels == {<<FALSE, {}>>, <<TRUE, {}>>, <<TRUE, {Certificate("issuer"), Answer("signer")}>>}

Next == \/ \E objects \in ObjectLists, level \in Levels : sign_xades(objects, level[1], level[2])
        \/ \E objects \in ObjectLists, archived \in BOOLEAN : sign_cades(objects, archived)
        \/ other_tool(Reheaded)
        \/ other_tool(Replaced)
        \/ other_tool(Restructured)
        \/ other_tool(Extended)
        \/ other_tool(Resigned)

Spec == Init /\ [][Next]_vars

-----------------------------------------------------------------------------
(* Properties.                                                             *)

Judged == IF parse(archive) THEN SelectSeq(verify_asic(archive), LAMBDA row : row.t = "judged") ELSE <<>>
Holds(row) == row.intact /\ row.valid
FilesRead(a) == {<<data_files(a)[i].name, data_files(a)[i].content>> : i \in DOMAIN data_files(a)}
FilesSigned == {<<signed[i].name, signed[i].content>> : i \in DOMAIN signed}

\* An archive the reader accepts is one every reader reads alike: walking the local headers from the start of the
\* file gives the files the central directory gives, no bytes lie outside them, and no two names fold together.
OneReading ==
  parse(archive) =>
    LET byDirectory == {<<r.head.name, archive.locals[r.at].data>> : r \in {x \in ToSet(archive.central) : IsFile(x)}}
        byHeaders == SelectSeq(archive.locals, IsFile)
    IN  /\ archive.gaps = {} /\ byDirectory = {<<l.head.name, l.data>> : l \in ToSet(byHeaders)}
        /\ \A i, j \in DOMAIN byHeaders : i # j => to_lowercase(byHeaders[i].head.name) # to_lowercase(byHeaders[j].head.name)

\* A signature of the signer's that verifies and is reported intact stands over exactly the files the signer was
\* shown, under the names they had, and carries the properties the signer signed; a counter-signature stands over
\* the value of the signature it is reported under.
IntactIsAsSigned ==
  \A row \in ToSet(Judged) :
    Holds(row) =>
      /\ row.signer = "signer" => row.depth = 0 /\ FilesRead(archive) = FilesSigned
      /\ row.signer = "signer" /\ xades_signature_files(archive) # <<>> =>
           row.read.signature.properties = SignedProperties(<<"own", "props">>, "signer")
      /\ row.depth > 0 => \E k \in DOMAIN row.read.signature.info.refs :
                            row.read.signature.info.refs[k].digest.of = Canonicalize(Exclusive, row.enclosing)

OneGoodRow(rows) ==
  /\ Len(rows) = 1 /\ rows[1].t = "judged" /\ Holds(rows[1])
  /\ xades_signature_files(archive) # <<>> => \A stamp \in signature_timestamps(rows[1].read.signature) : Imprints(stamp)

\* What is written verifies.  The reader accepts the signer's container when no two of the names fold together, and
\* only then: check_object_names refuses a repeated name as it is spelled, read_zip one repeated in another case.  A
\* container it accepts is reported with its one signature intact, valid and timestamped, unless one of the names,
\* percent-encoded, stands for another in a reference.
OwnContainerVerifies ==
  LET Others(i) == DOMAIN signed \ {i}
      foldApart == \A i \in DOMAIN signed : \A j \in Others(i) : to_lowercase(signed[i].name) # to_lowercase(signed[j].name)
      citeApart == \A i \in DOMAIN signed : \A j \in Others(i) : ~uri_names(percent_encode_path(signed[i].name), signed[j].name)
  IN  edits = 0 /\ signed # <<>> =>
        /\ parse(archive) <=> foldApart
        /\ foldApart /\ citeApart => OneGoodRow(verify_asic(archive))

\* The material an archive timestamp is said to cover was in the signature when the timestamp was taken: evidence
\* put in later, wherever it is put, is never handed out as covered by a timestamp whose imprint still matches.
CoveredWasStamped ==
  \A row \in ToSet(Judged) :
    (xades_signature_files(archive) # <<>> /\ "targets" \in DOMAIN row.read) =>
      \A stamp \in archive_timestamps(archive, row.read) : Imprints(stamp) => stamp.covered \subseteq stamp.token.present

TypeOK == /\ edits \in 0 .. (IF signed = <<>> THEN 0 ELSE MaxEdits[signed])
          /\ signed \in ObjectLists \cup {<<>>}
          /\ archive.end.count \in Nat
=============================================================================
