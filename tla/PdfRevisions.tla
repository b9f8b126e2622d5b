---------------------------- MODULE PdfRevisions ----------------------------
(***************************************************************************)
(* The incremental revisions of a PDF: how the PAdES writer appends        *)
(* signatures, document timestamps and validation material                 *)
(* (doc-sign/src/pades.rs over pades/index.rs), and how the verifier       *)
(* decides what the revisions after a signed one did to the document       *)
(* (verification/pdf.rs, verification/revision.rs).                        *)
(*                                                                         *)
(* A file is the sequence of its cross-reference sections; an object is    *)
(* live when the newest section that lists its number holds it.  Object    *)
(* references are <<number, generation>>.  Dictionaries are functions from *)
(* keys to values; strings, numbers and names are names; a payload is a    *)
(* name too.  Byte offsets are gone: a /ByteRange is the number of the     *)
(* section it ends, its hole the dictionary that declares it.              *)
(***************************************************************************)
EXTENDS Integers, Sequences, FiniteSets, SequencesExt, PdfValues

CONSTANTS Documents,          \* the files a signer may start from, each with the bound on the revisions
                              \* appended to it and what other tools append
          MAX_XREF_SECTIONS   \* sections an index follows

VARIABLES file,    \* Seq of sections
          placed,  \* history: what the writer placed in which section
          chosen   \* history: the file's length at the start, the length it may reach, what others append

vars == <<file, placed, chosen>>

-----------------------------------------------------------------------------
(* Values and objects (PdfValues).                                         *)

Get(f, k) == IF k \in DOMAIN f THEN f[k] ELSE Absent

\* Object::dictionary and Object::entry.
EntriesOf(o) == IF o.value.t = "dictionary" THEN o.value.entries ELSE NoEntries
Entry(o, k) == Get(EntriesOf(o), k)
HasName(o, k, x) == Entry(o, k) = Name(x)

is_structure_stream(o) == o.payload # "none" /\ (HasName(o, "Type", "XRef") \/ HasName(o, "Type", "ObjStm"))
is_data_stream(o) == o.payload # "none" /\ ~is_structure_stream(o)
is_signature_value(o) == Entry(o, "ByteRange") # Absent /\ Entry(o, "Contents") # Absent
is_annotation(o) == HasName(o, "Type", "Annot") \/ (Entry(o, "Subtype") # Absent /\ Entry(o, "Rect") # Absent)

-----------------------------------------------------------------------------
(* PdfIndex: the newest entry of every number, the newest trailer.         *)

Newest(f, k, n) == CHOOSE j \in 1 .. k : n \in DOMAIN f[j].entries /\ \A i \in j + 1 .. k : n \notin DOMAIN f[i].entries

\* PdfIndex::parse of the first k sections, and Snapshot::new over it: the live objects.
PdfIndex(f, k) ==
  LET numbers == UNION {DOMAIN f[j].entries : j \in 1 .. k}
      live == {n \in numbers : f[Newest(f, k, n)].entries[n].obj # Free}
  IN  [objects |-> [n \in live |-> f[Newest(f, k, n)].entries[n]],
       trailer |-> f[k].trailer,
       is_stream |-> f[k].is_stream]

Indexes(f) == Len(f) <= MAX_XREF_SECTIONS
Latest == PdfIndex(file, Len(file))

Object(v, r) == IF r[1] \in DOMAIN v.objects /\ v.objects[r[1]].generation = r[2]
                THEN v.objects[r[1]].obj
                ELSE Free
References(v) == {<<n, v.objects[n].generation>> : n \in DOMAIN v.objects}
Live(v, r) == Object(v, r) # Free
Catalog(v) == Object(v, v.trailer.root)

Resolve(v, val) == IF val.t = "reference" THEN Object(v, val.ref).value ELSE val

dictionary_of(v, val) ==
  IF val = Absent THEN NoEntries
  ELSE LET found == Resolve(v, val) IN IF found.t = "dictionary" THEN found.entries ELSE BadEntries

list(v, val) ==
  IF val = Absent THEN <<>>
  ELSE LET found == Resolve(v, val) IN IF found.t = "array" THEN found.items ELSE BadList

\* Bound: how deep the trees of a document nest, and the dictionaries of a value.
MaxDepth == 4

\* Everything reachable from start along next, start included.
Reach(next, reached) == reached \cup UNION {next[r] : r \in reached \cap DOMAIN next}
Closure(next, start) ==
  LET within[i \in 0 .. MaxDepth] == IF i = 0 THEN start ELSE Reach(next, within[i - 1])
  IN  within[MaxDepth]

form(v) == IF Catalog(v) = Free THEN BadEntries ELSE dictionary_of(v, Entry(Catalog(v), "AcroForm"))

kids(v, r) == ToSet(list(v, Entry(Object(v, r), "Kids")))

field_tree(v) ==
  LET roots == list(v, Get(form(v), "Fields"))
      tree == Closure([r \in References(v) |-> kids(v, r)], ToSet(roots))
  IN  IF form(v) = BadEntries \/ NoRef \in tree THEN Unreadable ELSE tree

\* One step up: a node with a type is its own.
FieldParent(v, r) ==
  LET o == Object(v, r)
  IN  IF Entry(o, "FT") # Absent THEN r ELSE IF Entry(o, "Parent").t = "reference" THEN Entry(o, "Parent").ref ELSE NoRef

\* The nearest node at or above r with a type; a chain that comes back to itself has none.
field_node(v, r) ==
  LET above[i \in 0 .. MaxDepth] == IF i = 0 THEN r ELSE FieldParent(v, above[i - 1])
      top == above[MaxDepth]
  IN  IF Entry(Object(v, top), "FT") # Absent THEN top ELSE NoRef

field_type(v, r) ==
  LET node == field_node(v, r)
  IN  IF node = NoRef THEN "none" ELSE IF HasName(Object(v, node), "FT", "Sig") THEN "signature" ELSE "other"

is_signed(v, r) == field_type(v, r) = "signature" /\ Entry(Object(v, field_node(v, r)), "V") # Absent
is_signed_widget(v, r) == is_signed(v, r) /\ HasName(Object(v, r), "Subtype", "Widget")
is_signed_field_node(v, r) == is_signed(v, r) /\ Entry(Object(v, r), "Subtype") \in {Absent, Name("Widget")}

pages(v) == {r \in References(v) : HasName(Object(v, r), "Type", "Page")}

kind_of(v, r) ==
  LET o == Object(v, r)
  IN  IF Entry(o, "Type") \in {Name("Page"), Name("Pages")} THEN "Pages"
      ELSE IF field_type(v, r) # "none" THEN "FormField"
      ELSE IF is_annotation(o) THEN "Annotation"
      ELSE IF r[1] = v.trailer.root[1] THEN "Catalog"
      ELSE "Content"

-----------------------------------------------------------------------------
(* Roles: the objects a later revision may add or rewrite.                 *)

Indirect(val) == IF val.t = "reference" THEN {val.ref} ELSE {}

OwnReferences(val) ==
  CASE val.t = "reference" -> {val.ref}
    [] val.t = "array" -> ToSet(val.items)
    [] OTHER -> {}

WithInner(vals) == vals \cup UNION {{x.entries[k] : k \in DOMAIN x.entries} : x \in {y \in vals : y.t = "dictionary"}}

\* The references of a value.
ValueReferences(val) ==
  LET inner[d \in 0 .. MaxDepth] == IF d = 0 THEN {val} ELSE WithInner(inner[d - 1])
  IN  UNION {OwnReferences(x) : x \in inner[MaxDepth]}

reached_from(v, val) == Closure([r \in References(v) |-> ValueReferences(Object(v, r).value)], ValueReferences(val))

Categories == {"Certs", "OCSPs", "CRLs"}

\* Roles::store: the containers that may grow, the /VRI entries, and the streams they name.
EntriesAt(val) == IF val.t = "dictionary" THEN val.entries ELSE NoEntries

RolesOfStore(v, val, store, vri, lists, vriLists, stamps) ==
  [containers |-> UNION {Indirect(x) : x \in {val, Get(store, "VRI")} \cup lists},
   entries |-> UNION {Indirect(x) : x \in {vri[k] : k \in DOMAIN vri} \cup vriLists},
   streams |-> {r \in UNION {ToSet(list(v, l)) : l \in lists \cup vriLists} \cup stamps :
                  is_data_stream(Object(v, r)) /\ Live(v, r)}]

RolesOfEntries(v, val, store, vri, listed) ==
  RolesOfStore(v, val, store, vri, {Get(store, c) : c \in Categories}, {Get(e, k) : e \in listed, k \in {"Cert", "OCSP", "CRL"}},
               UNION {Indirect(Get(e, "TS")) : e \in listed})

RolesOfVri(v, val, store, vri) ==
  RolesOfEntries(v, val, store, vri, {dictionary_of(v, vri[k]) : k \in DOMAIN vri} \ {BadEntries})

StoreRoles(v) ==
  LET val == Entry(Catalog(v), "DSS")
      store == EntriesAt(Resolve(v, val))
  IN  RolesOfVri(v, val, store, EntriesAt(Resolve(v, Get(store, "VRI"))))

\* Roles::new, from the store, the field tree and the signed nodes of it.
RolesOf(v, store, tree, signed) ==
  [store_containers |-> store.containers,
   store_entries |-> store.entries,
   store_streams |-> store.streams,
   lists |-> Indirect(Entry(Catalog(v), "AcroForm")) \cup Indirect(Get(form(v), "Fields"))
             \cup UNION {Indirect(Entry(Object(v, p), "Annots")) : p \in pages(v)},
   signature_values |-> UNION {Indirect(Entry(Object(v, r), "V")) : r \in signed},
   appearances |-> UNION {reached_from(v, Entry(Object(v, r), "AP")) : r \in signed},
   metadata |-> Indirect(v.trailer.info) \cup Indirect(Entry(Catalog(v), "Metadata")),
   field_tree |-> tree]

ReadableTree(v) == field_tree(v) \ Unreadable
Roles(v) == RolesOf(v, StoreRoles(v), ReadableTree(v), {r \in ReadableTree(v) : is_signed_field_node(v, r)})

-----------------------------------------------------------------------------
(* Comparison: the signed revision against the newest view.                *)

changed_beyond(old, new, free) == \E k \in (DOMAIN old \cup DOMAIN new) \ free : Get(old, k) # Get(new, k)

TrailerChange(b, a) ==
  IF b.trailer.root # a.trailer.root \/ (b.trailer.id # "none" /\ a.trailer.id # b.trailer.id) THEN {"Trailer"} ELSE {}

FormChange(b, a) ==
  LET old == field_tree(b)
      new == field_tree(a)
  IN  IF \/ BadEntries \in {form(b), form(a)}
         \/ changed_beyond(form(b), form(a), {"Fields", "SigFlags"})
         \/ Unreadable \in {old, new}
         \/ ~(old \subseteq new)
         \/ \E r \in new \ old : ~is_signed_field_node(a, r)
      THEN {"FormField"} ELSE {}

AnnotationChange(b, a) ==
  LET tree == ReadableTree(a)
      Attached(r) == field_node(a, r) # NoRef /\ {field_node(a, r), r} \cap tree # {}
      OfPage(p) ==
        LET old == list(b, Entry(Object(b, p), "Annots"))
            new == list(a, Entry(Object(a, p), "Annots"))
        IN  IF BadList \in {old, new} THEN {"Annotation"}
            ELSE (IF SelectSeq(new, LAMBDA r : Contains(old, r)) # old THEN {"Annotation"} ELSE {})
                 \cup {IF field_type(a, r) # "none" THEN "FormField" ELSE "Annotation" :
                         r \in {x \in ToSet(new) \ ToSet(old) : ~(Attached(x) /\ is_signed_widget(a, x))}}
  IN  UNION {OfPage(p) : p \in {x \in pages(a) : HasName(Object(b, x), "Type", "Page")}}

StoreChange(b, a) ==
  LET old == dictionary_of(b, Entry(Catalog(b), "DSS"))
      new == dictionary_of(a, Entry(Catalog(a), "DSS"))
      Lists(k) == <<list(b, Get(old, k)), list(a, Get(new, k))>>
      oldVri == dictionary_of(b, Get(old, "VRI"))
      newVri == dictionary_of(a, Get(new, "VRI"))
  IN  IF \/ Free \in {Catalog(b), Catalog(a)}
         \/ BadEntries \in {old, new, oldVri, newVri}
         \/ changed_beyond(old, new, Categories \cup {"Type", "VRI"})
         \/ \E k \in Categories : BadList \in ToSet(Lists(k)) \/ ~(ToSet(Lists(k)[1]) \subseteq ToSet(Lists(k)[2]))
         \/ \E k \in DOMAIN oldVri : Get(newVri, k) # oldVri[k]
      THEN {"Content"} ELSE {}

\* A new object: harmless only in one of the roles signing gives it.
Added(a, roles, r) ==
  LET o == Object(a, r)
      harmless == \/ is_structure_stream(o)
                  \/ r \in roles.store_containers \cup roles.store_entries \cup roles.store_streams \cup roles.lists
                  \/ is_signature_value(o) /\ r \in roles.signature_values
                  \/ is_signed_field_node(a, r) /\ r \in roles.field_tree
                  \/ kind_of(a, r) = "Content" /\ r \in roles.appearances \cup roles.metadata
  IN  IF harmless THEN {} ELSE {kind_of(a, r)}

\* Mutant: the opening action may change.
CatalogChange_opening(old, new) ==
  IF changed_beyond(EntriesOf(old), EntriesOf(new), {"DSS", "AcroForm", "Extensions", "Metadata", "OpenAction"}) THEN {"Catalog"} ELSE {}

CatalogChange(old, new) ==
  IF changed_beyond(EntriesOf(old), EntriesOf(new), {"DSS", "AcroForm", "Extensions", "Metadata"}) THEN {"Catalog"} ELSE {}

PageChange(old, new) ==
  IF Entry(old, "Parent") # Entry(new, "Parent") THEN {"Pages"}
  ELSE IF changed_beyond(EntriesOf(old), EntriesOf(new), {"Annots"}) THEN {"Content"} ELSE {}

SignatureFieldChange(b, a, r) ==
  IF ~is_signed(b, r) /\ is_signed(a, r)
     /\ ~changed_beyond(EntriesOf(Object(b, r)), EntriesOf(Object(a, r)), {"V", "AP", "AS"})
  THEN {} ELSE {"FormField"}

\* A rewritten object.
Replaced(b, a, before, after, r) ==
  LET old == Object(b, r)
      new == Object(a, r)
      kind == kind_of(a, r)
  IN  IF old = Free THEN {kind}                               \* the generation rose
      ELSE IF \/ is_structure_stream(old) /\ is_structure_stream(new)
              \/ r \in before.store_containers \cap after.store_containers
              \/ r \in before.lists \cap after.lists
              \/ kind = "Content" /\ r \in before.metadata \cap after.metadata
      THEN {}
      ELSE IF r[1] = a.trailer.root[1] THEN CatalogChange(old, new)
      ELSE IF HasName(old, "Type", "Page") /\ HasName(new, "Type", "Page") THEN PageChange(old, new)
      ELSE IF field_type(b, r) = "signature" THEN SignatureFieldChange(b, a, r)
      ELSE {kind}

Precedence == <<"Pages", "FormField", "Annotation", "Catalog", "Trailer", "Content">>

ObjectChange(b, a, before, after, n) ==
  IF n \notin DOMAIN b.objects THEN Added(a, after, <<n, a.objects[n].generation>>)
  ELSE IF a.objects[n] = b.objects[n] THEN {}
  ELSE Replaced(b, a, before, after, <<n, a.objects[n].generation>>)

Changes(b, a, before, after) ==
  TrailerChange(b, a) \cup FormChange(b, a) \cup AnnotationChange(b, a) \cup StoreChange(b, a)
  \cup UNION {ObjectChange(b, a, before, after, n) : n \in DOMAIN a.objects}
  \cup {kind_of(b, <<n, b.objects[n].generation>>) : n \in DOMAIN b.objects \ DOMAIN a.objects}   \* removed

FirstOf(changes) ==
  IF changes = {} THEN "LaterRevisionsHarmless" ELSE SelectSeq(Precedence, LAMBDA c : c \in changes)[1]

first_change(b, a) == FirstOf(Changes(b, a, Roles(b), Roles(a)))

later_revisions(f, k) == IF k = Len(f) THEN "WholeDocument" ELSE first_change(PdfIndex(f, k), PdfIndex(f, Len(f)))

-----------------------------------------------------------------------------
(* PdfDocument::parse: every signature dictionary any section wrote, and   *)
(* the newest /DSS.                                                        *)

Written(f) == UNION {{<<j, n>> : n \in DOMAIN f[j].entries} : j \in 1 .. Len(f)}
At(f, w) == f[w[1]].entries[w[2]].obj

SignatureDictionaries(f) == {w \in Written(f) : is_signature_value(At(f, w))}

\* The hole must be the declaring dictionary's own /Contents.
HolesAreTheirOwn(f) == \A w \in SignatureDictionaries(f) : Entry(At(f, w), "ByteRange") = ByteRange(w[1])

StoreOf(v) == dictionary_of(v, Entry(Catalog(v), "DSS"))

StoreReads(v) ==
  /\ Live(v, v.trailer.root) /\ StoreOf(v) # BadEntries
  /\ \A k \in Categories : LET l == list(v, Get(StoreOf(v), k))
                          IN  l # BadList /\ \A r \in ToSet(l) : Live(v, r) /\ Object(v, r).payload # "none"

Parses(f) == Indexes(f) /\ HolesAreTheirOwn(f) /\ StoreReads(PdfIndex(f, Len(f)))

validation_store(v) == UNION {{Object(v, r).payload : r \in ToSet(list(v, Get(StoreOf(v), k)))} : k \in Categories}

-----------------------------------------------------------------------------
(* The writer: one appended section per call.                              *)

\* existing_field_names: the form must read, and no field be met twice.
FieldNamesRead(v) ==
  LET af == Entry(Catalog(v), "AcroForm")
      fields == Get(form(v), "Fields")
      tree == field_tree(v)
  IN  \/ af = Absent
      \/ /\ form(v) # BadEntries
         /\ \/ fields = Absent
            \/ /\ tree # Unreadable /\ \A r \in tree : Live(v, r)
               /\ Len(list(v, fields)) + MapThenSumSet(LAMBDA r : Len(list(v, Entry(Object(v, r), "Kids"))), tree)
                    = Cardinality(tree)

existing_field_names(v) == {Entry(Object(v, r), "T") : r \in field_tree(v)} \ {Absent}

unique_field_name(v, base, n) ==
  LET used == existing_field_names(v)
      Free2(i) == Title(<<base, n, i>>) \notin used
      suffix == IF Free2(0) THEN 0 ELSE CHOOSE i \in 2 .. Cardinality(used) + 2 : Free2(i) /\ \A j \in 2 .. i - 1 : ~Free2(j)
  IN  Title(<<base, n, suffix>>)

\* One step down: the last kid or the first; a leaf is its own, and no node missing at generation zero has one.
PageChild(v, last, r) ==
  LET down == list(v, Entry(Object(v, r), "Kids"))
  IN  IF ~Live(v, r) \/ down = BadList THEN NoRef
      ELSE IF Entry(Object(v, r), "Kids") = Absent THEN r
      ELSE IF down = <<>> THEN NoRef
      ELSE <<down[IF last THEN Len(down) ELSE 1][1], 0>>

page_leaf(v, last, n) ==
  LET below[i \in 0 .. MaxDepth] == IF i = 0 THEN <<n, 0>> ELSE PageChild(v, last, below[i - 1])
  IN  below[MaxDepth]

signature_page(v, visible) ==
  LET top == Entry(Catalog(v), "Pages")
  IN  IF top.t # "reference" THEN NoRef
      ELSE page_leaf(v, visible, top.ref[1])

With(o, k, val) == [o EXCEPT !.value.entries = (k :> val) @@ @]

\* plan_annotation: the page reissued, or the array object it names; nothing when neither reads.
plan_annotation(v, page, field) ==
  LET o == Object(v, page)
      annots == Entry(o, "Annots")
      array == Object(v, <<annots.ref[1], 0>>)
  IN  CASE annots = Absent -> page[1] :> Fresh(With(o, "Annots", Arr(<<field>>)))
        [] annots.t = "array" -> page[1] :> Fresh(With(o, "Annots", Arr(Append(annots.items, field))))
        [] annots.t = "reference" /\ array.value.t = "array" ->
             annots.ref[1] :> Fresh(ArrayObj(Append(array.value.items, field)))
        [] OTHER -> <<>>

\* field_list_edit of one form dictionary: what the form becomes, and the array object rewritten.
field_list_edit(v, f, field) ==
  LET fields == Get(f, "Fields")
      array == IF fields.t = "reference" THEN Object(v, <<fields.ref[1], 0>>) ELSE Free
      flagged == IF Get(f, "SigFlags") = Absent THEN ("SigFlags" :> Name("3")) ELSE NoEntries
      listed == CASE fields = Absent -> "Fields" :> Arr(<<field>>)
                  [] fields.t = "array" -> "Fields" :> Arr(Append(fields.items, field))
                  [] OTHER -> NoEntries
  IN  [ok |-> fields.t \in {"absent", "array"} \/ array.value.t = "array",
       array |-> IF array.value.t = "array" THEN fields.ref[1] :> Fresh(ArrayObj(Append(array.value.items, field))) ELSE <<>>,
       form |-> listed @@ flagged @@ f]

\* plan_field_list: the objects reissued so that the form lists the field.
plan_field_list(v, field) ==
  LET root == v.trailer.root
      af == Entry(Catalog(v), "AcroForm")
      inObject == af.t = "reference" /\ Live(v, <<af.ref[1], 0>>)
      f == IF inObject THEN EntriesOf(Object(v, <<af.ref[1], 0>>)) ELSE IF af.t = "dictionary" THEN af.entries ELSE NoEntries
      edit == field_list_edit(v, f, field)
      Holder(new) == IF inObject THEN af.ref[1] :> Fresh(Obj(new))
                     ELSE root[1] :> [generation |-> root[2], obj |-> With(Catalog(v), "AcroForm", Dict(new))]
  IN  [ok |-> edit.ok /\ (af.t = "reference" => inObject),
       objects |-> edit.array @@ (IF edit.form # f THEN Holder(edit.form) ELSE <<>>)]

\* push_xref_and_trailer: a section in the shape of the newest one, /ID and /Info carried forward.
Section(v, objects, size, by) ==
  LET stream == size :> Fresh(StreamObj("Type" :> Name("XRef"), "xref"))
  IN  [entries |-> IF v.is_stream THEN objects @@ stream ELSE objects,
       trailer |-> [v.trailer EXCEPT !.size = IF v.is_stream THEN size + 1 ELSE size],
       is_stream |-> v.is_stream,
       by |-> by]

Own(section) == /\ file' = Append(file, section)
                /\ chosen' = chosen

\* prepare_kind and Placeholder::finish: the signature dictionary, its field and appearance, the page or its
\* annotation list, the field list, the closing section.
prepare_kind(base, visible) ==
  LET v == Latest
      n == v.trailer.size
      field == <<n + 1, 0>>
      page == signature_page(v, visible)
      list0 == plan_field_list(v, field)
      annots == plan_annotation(v, page, field)
      appearance == (n + 2 :> Fresh(StreamObj(("Type" :> Name("XObject")) @@ ("Font" :> Ref(<<n + 3, 0>>)), "mark")))
                    @@ (n + 3 :> Fresh(Obj("Type" :> Name("Font"))))
      widget == ("Type" :> Name("Annot")) @@ ("Subtype" :> Name("Widget")) @@ ("FT" :> Name("Sig"))
                @@ ("T" :> unique_field_name(v, base, n)) @@ ("V" :> Ref(<<n, 0>>)) @@ ("P" :> Ref(page))
                @@ ("Rect" :> Name(IF visible THEN "spot" ELSE "empty"))
      value == ("Type" :> Name(base)) @@ ("ByteRange" :> ByteRange(Len(file) + 1)) @@ ("Contents" :> Name("cms"))
      objects == (n :> Fresh(Obj(value)))
                 @@ (n + 1 :> Fresh(Obj(IF visible THEN ("AP" :> Dict("N" :> Ref(<<n + 2, 0>>))) @@ widget ELSE widget)))
                 @@ (IF visible THEN appearance ELSE <<>>)
                 @@ annots @@ list0.objects
  IN  /\ Len(file) < chosen.bound
      /\ Indexes(file) /\ Live(v, v.trailer.root) /\ FieldNamesRead(v)
      /\ page # NoRef /\ annots # <<>> /\ list0.ok
      /\ Own(Section(v, objects, IF visible THEN n + 4 ELSE n + 2, "own"))
      /\ placed' = [placed EXCEPT !.signatures = @ \cup {[section |-> Len(file) + 1, value |-> <<n, 0>>, field |-> field, page |-> page]}]

prepare(visible) == prepare_kind("Signature", visible)
prepare_document_timestamp == prepare_kind("Timestamp", FALSE)

\* Mutant: a category lists the new numbers only.
merge_validation_store_replacing(v, store, numbers) ==
  [k \in {k \in Categories : numbers[k] # <<>>} |-> Arr([i \in 1 .. Len(numbers[k]) |-> <<numbers[k][i], 0>>])] @@ store

\* merge_validation_store: each category keeps what it listed and gains the new numbers, inline.
merge_validation_store(v, store, numbers) ==
  LET Merged(k) == Arr(list(v, Get(store, k)) \o [i \in 1 .. Len(numbers[k]) |-> <<numbers[k][i], 0>>])
      touched == {k \in Categories : Get(store, k) # Absent \/ numbers[k] # <<>>}
  IN  [k \in touched |-> Merged(k)] @@ store

append_validation_store(material) ==
  LET v == Latest
      n == v.trailer.size
      root == v.trailer.root
      dss == Entry(Catalog(v), "DSS")
      store == dictionary_of(v, dss)
      Count(k) == Len(material[k])
      First(k) == n + (IF k = "Certs" THEN 0 ELSE Count("Certs") + (IF k = "OCSPs" THEN 0 ELSE Count("OCSPs")))
      numbers == [k \in Categories |-> [i \in 1 .. Count(k) |-> First(k) + i - 1]]
      next == n + Count("Certs") + Count("OCSPs") + Count("CRLs")
      blobs == [m \in n .. next - 1 |->
                  Fresh(StreamObj(NoEntries, LET k == CHOOSE c \in Categories : m \in ToSet(numbers[c])
                                             IN  material[k][m - First(k) + 1]))]
      merged == merge_validation_store(v, IF dss = Absent THEN "Type" :> Name("DSS") ELSE store, numbers)
      held == dss.t = "reference"
      objects == IF held THEN dss.ref[1] :> [generation |-> dss.ref[2], obj |-> Obj(merged)]
                 ELSE (next :> Fresh(Obj(merged)))
                      @@ (root[1] :> [generation |-> root[2], obj |-> With(Catalog(v), "DSS", Ref(<<next, 0>>))])
  IN  /\ Len(file) < chosen.bound
      /\ \E k \in Categories : Count(k) > 0
      /\ Indexes(file) /\ Live(v, root) /\ store # BadEntries
      /\ \A k \in Categories : list(v, Get(store, k)) # BadList
      /\ Own(Section(v, blobs @@ objects, IF held THEN next ELSE next + 1, "own"))
      /\ placed' = [placed EXCEPT !.evidence = @ \cup UNION {ToSet(material[k]) : k \in Categories}]

-----------------------------------------------------------------------------
(* Other tools append revisions too: one incremental update each, applied  *)
(* to the first page and the fields of the documents.                      *)

Rewrite(v, r, o) == r[1] :> [generation |-> r[2], obj |-> o]

FirstPage(v) == list(v, Entry(Object(v, Entry(Catalog(v), "Pages").ref), "Kids"))[1]
ContentsOf(v, p) == Entry(Object(v, p), "Contents").ref
FieldsWith(v, type) == {r \in field_tree(v) : field_type(v, r) = type /\ Entry(Object(v, r), "FT") # Absent}
EmptyFields(v) == {r \in FieldsWith(v, "signature") : ~is_signed(v, r)}
SignedFields(v) == {r \in FieldsWith(v, "signature") : is_signed(v, r)}

\* The page reissued with its annotations rearranged.
Annotate(v, p, annots) == Rewrite(v, p, With(Object(v, p), "Annots", Arr(annots)))
AnnotsOf(v, p) == list(v, Entry(Object(v, p), "Annots"))

\* The form reissued with another field, wherever it is held; nothing without a form.
List(v, field) == plan_field_list(v, field).objects

\* The objects edit e writes into section k of a file whose newest view is v and next free number n.
EditObjects(e, v, n, k) ==
  LET p == FirstPage(v)
      root == v.trailer.root
      top == Entry(Catalog(v), "Pages").ref
      new == <<n, 0>>
      value == Obj(("ByteRange" :> ByteRange(k)) @@ ("Contents" :> Name("cms")))
      ReCatalog(key, val) == Rewrite(v, root, With(Catalog(v), key, val))
  IN  CASE e = "content" -> Rewrite(v, ContentsOf(v, p), StreamObj(NoEntries, "altered"))
        [] e = "page" -> Rewrite(v, p, With(Object(v, p), "Contents", Ref(new))) @@ (n :> Fresh(StreamObj(NoEntries, "other")))
        [] e = "new_page" -> (n :> Fresh(Obj(("Type" :> Name("Page")) @@ ("Parent" :> Ref(top)) @@ ("Contents" :> Ref(ContentsOf(v, p))))))
                             @@ Rewrite(v, top, With(Object(v, top), "Kids", Arr(list(v, Entry(Object(v, top), "Kids")) \o <<new>>)))
        [] e = "drop_page" -> Rewrite(v, top, With(Object(v, top), "Kids", Arr(Tail(list(v, Entry(Object(v, top), "Kids"))))))
        [] e = "annotate" -> (n :> Fresh(Obj(("Type" :> Name("Annot")) @@ ("Subtype" :> Name("Text")) @@ ("Rect" :> Name("note")))))
                             @@ Annotate(v, p, Append(AnnotsOf(v, p), new))
        [] e = "reorder" -> Annotate(v, p, Reverse(AnnotsOf(v, p)))
        [] e = "free_annotation" -> AnnotsOf(v, p)[1][1] :> [generation |-> 0, obj |-> Free]
        [] e = "fill_text" -> [m \in {r[1] : r \in FieldsWith(v, "other")} |-> Fresh(With(Object(v, <<m, 0>>), "V", Name("typed")))]
        [] e = "new_text" -> (n :> Fresh(Obj(("FT" :> Name("Tx")) @@ ("T" :> Title(<<"Text", n, 0>>))))) @@ List(v, new)
        [] e = "fill_signature" -> [m \in {r[1] : r \in EmptyFields(v)} |->
                                     Fresh(With(With(Object(v, <<m, 0>>), "V", Ref(new)), "AP", Dict("N" :> Ref(<<n + 1, 0>>))))]
                                   @@ (n :> Fresh(value)) @@ (n + 1 :> Fresh(StreamObj(NoEntries, "mark")))
        [] e = "sign_with_kid" -> (n :> Fresh(value))
                                  @@ (n + 1 :> Fresh(Obj(("FT" :> Name("Sig")) @@ ("V" :> Ref(new)) @@ ("T" :> Title(<<"Other", n, 0>>))
                                                          @@ ("Kids" :> Arr(<< <<n + 2, 0>> >>)))))
                                  @@ (n + 2 :> Fresh(Obj(("Type" :> Name("Annot")) @@ ("Subtype" :> Name("Widget"))
                                                          @@ ("Parent" :> Ref(<<n + 1, 0>>)) @@ ("Rect" :> Name("spot")))))
                                  @@ Annotate(v, p, Append(AnnotsOf(v, p), <<n + 2, 0>>)) @@ List(v, <<n + 1, 0>>)
        [] e = "unsigned_widget" -> (n :> Fresh(Obj(("Type" :> Name("Annot")) @@ ("Subtype" :> Name("Widget")) @@ ("FT" :> Name("Sig")) @@ ("Rect" :> Name("spot")))))
                                    @@ Annotate(v, p, Append(AnnotsOf(v, p), new)) @@ List(v, new)
        [] e = "redraw" -> [m \in {r[1] : r \in SignedFields(v)} |->
                             Fresh(With(Object(v, <<m, 0>>), "AP", Dict("N" :> Ref(new))))] @@ (n :> Fresh(StreamObj(NoEntries, "redrawn")))
        [] e = "info" -> v.trailer.info.ref[1] :> Fresh(Obj("Title" :> Name("changed")))
        [] e = "metadata" -> (n :> Fresh(StreamObj(NoEntries, "xmp"))) @@ ReCatalog("Metadata", Ref(new))
        [] e = "open_action" -> ReCatalog("OpenAction", Name("jump"))
        [] e = "empty_store" -> ReCatalog("DSS", Dict("Certs" :> Arr(<<>>)))
        [] e = "vri" -> (n :> Fresh(Obj("Cert" :> Arr(<< <<n + 1, 0>> >>)))) @@ (n + 1 :> Fresh(StreamObj(NoEntries, "cert")))
                        @@ ReCatalog("DSS", Dict(("VRI" :> Dict("A1" :> Ref(new))) @@ StoreOf(v)))
        [] e = "new_root" -> n :> Fresh(Catalog(v))
        [] e = "new_id" -> <<>>
        [] e = "regenerate" -> ContentsOf(v, p)[1] :> [generation |-> 1, obj |-> StreamObj(NoEntries, "altered")]
        [] e = "object_stream" -> n :> Fresh(StreamObj("Type" :> Name("ObjStm"), "packed"))
        [] e = "copy_signature" -> (n :> Fresh(Object(v, Entry(Object(v, CHOOSE r \in SignedFields(v) : TRUE), "V").ref)))

\* What an edit needs in the document to be one.
Applies(e, v) ==
  CASE e \in {"reorder"} -> Len(AnnotsOf(v, FirstPage(v))) > 1 /\ AnnotsOf(v, FirstPage(v)) # Reverse(AnnotsOf(v, FirstPage(v)))
    [] e = "free_annotation" -> AnnotsOf(v, FirstPage(v)) # <<>> /\ Live(v, AnnotsOf(v, FirstPage(v))[1])
    [] e = "fill_text" -> FieldsWith(v, "other") # {}
    [] e = "fill_signature" -> EmptyFields(v) # {}
    [] e \in {"redraw", "copy_signature"} -> SignedFields(v) # {}
    [] e = "info" -> v.trailer.info.t = "reference"
    [] e = "drop_page" -> Len(list(v, Entry(Object(v, Entry(Catalog(v), "Pages").ref), "Kids"))) > 1
    [] e \in {"new_text", "sign_with_kid", "unsigned_widget"} -> plan_field_list(v, NoRef).ok
    [] OTHER -> TRUE

Readable(v) == /\ Live(v, v.trailer.root) /\ field_tree(v) # Unreadable
               /\ Live(v, FirstPage(v)) /\ AnnotsOf(v, FirstPage(v)) # BadList /\ Live(v, ContentsOf(v, FirstPage(v)))

other_revision(e) ==
  LET v == Latest
      n == v.trailer.size
      section == Section(v, EditObjects(e, v, n, Len(file) + 1), n + 3, "other")
  IN  /\ Len(file) < chosen.bound
      /\ Indexes(file) /\ Readable(v) /\ Applies(e, v)
      /\ Own(CASE e = "new_root" -> [section EXCEPT !.trailer.root = <<n, 0>>]
                [] e = "new_id" -> [section EXCEPT !.trailer.id = "second"]
                [] OTHER -> section)
      /\ UNCHANGED placed

-----------------------------------------------------------------------------
Init == /\ \E d \in Documents : /\ file = d.file
                              /\ chosen = [length |-> Len(d.file), bound |-> Len(d.file) + d.appended, edits |-> d.edits]
        /\ placed = [signatures |-> {}, evidence |-> {}]

Materials == {[Certs |-> <<"cert">>, OCSPs |-> <<"ocsp">>, CRLs |-> <<>>], [Certs |-> <<"cert", "root">>, OCSPs |-> <<>>, CRLs |-> <<"crl">>]}

Next == \/ \E visible \in BOOLEAN : prepare(visible)
        \/ prepare_document_timestamp
        \/ \E material \in Materials : append_validation_store(material)
        \/ \E e \in chosen.edits : other_revision(e)

Spec == Init /\ [][Next]_vars

-----------------------------------------------------------------------------
(* Properties.                                                             *)

\* What a reader shows of a view, by value: the pages in order with their content and annotations, the
\* values of the fields that are not signatures, and what opening the document does.
Drawing(v, ignored) ==
  LET order == list(v, Entry(Object(v, Entry(Catalog(v), "Pages").ref), "Kids"))
      Look(r) == LET o == Object(v, r)
                     ap == Entry(o, "AP")
                 IN  <<Entry(o, "Subtype"), Entry(o, "Rect"), IF ap = Absent THEN "none" ELSE Object(v, ap.entries["N"].ref).payload>>
      Page(p) == [content |-> Object(v, ContentsOf(v, p)).payload,
                  annots |-> LET shown == SelectSeq(AnnotsOf(v, p), LAMBDA r : r \notin ignored)
                             IN  [i \in 1 .. Len(shown) |-> Look(shown[i])]]
  IN  [pages |-> [i \in 1 .. Len(order) |-> Page(order[i])],
       fields |-> {<<Entry(Object(v, r), "T"), Entry(Object(v, r), "V")>> : r \in FieldsWith(v, "other")},
       opening |-> Entry(Catalog(v), "OpenAction")]

\* Signature widgets that carry a signature only since the signed revision.
NewlySigned(b, a) == {r \in References(a) : is_signed_widget(a, r) /\ ~is_signed(b, r)}

Signed == {w[1] : w \in SignatureDictionaries(file)}
Harmless == {"WholeDocument", "LaterRevisionsHarmless"}

\* A revision that changes what the signer saw - a page, its content, its annotations, a field's value, the
\* opening action - never leaves an earlier signature reported as covering the document (first_change).
ChangeIsSeen ==
  Parses(file) =>
    \A k \in Signed :
      LET b == PdfIndex(file, k)
          new == NewlySigned(b, Latest)
      IN  later_revisions(file, k) \in Harmless => Drawing(b, new) = Drawing(Latest, new)

\* The sections a reader follows.  The writer reads a chain of that length and appends to it: it bounds the chain
\* it finds and not the one it leaves (prepare_kind, append_validation_store), so what it appends to the longest
\* chain cannot be read, by it or by the verifier.  The two properties below are about the chains up to the bound.
WithinLimit == Len(file) <= MAX_XREF_SECTIONS

OnlyOwnAfter(k) == \A j \in k + 1 .. Len(file) : file[j].by = "own"

\* What this writer appends to a signed document that reads - further signatures, timestamps, validation material -
\* leaves a document that reads, and never makes the earlier signature read as changed, whatever shape the
\* document's form, annotation lists and store have.
OwnRevisionsHarmless ==
  WithinLimit => \A k \in Signed : Parses(SubSeq(file, 1, k)) /\ OnlyOwnAfter(k) =>
                   Parses(file) /\ later_revisions(file, k) \in Harmless

\* While only this writer appends to a document that read, the document reads and every signature placed in it stays
\* attached: its field in the form's tree under a name of its own, naming the dictionary with the hole, its widget
\* on its page; and no evidence is lost.
SignaturesAttached ==
  WithinLimit /\ Parses(SubSeq(file, 1, chosen.length)) /\ OnlyOwnAfter(chosen.length) =>
    LET titles == [r \in field_tree(Latest) |-> Entry(Object(Latest, r), "T")]
    IN  /\ Parses(file)
        /\ \A s \in placed.signatures :
             /\ s.field \in field_tree(Latest)
             /\ \A r \in field_tree(Latest) \ {s.field} : titles[r] # titles[s.field]
             /\ Entry(Object(Latest, s.field), "V") = Ref(s.value)
             /\ Entry(Object(Latest, s.value), "ByteRange") = ByteRange(s.section)
             /\ s.field \in ToSet(AnnotsOf(Latest, s.page))
        /\ placed.evidence \subseteq validation_store(Latest)

TypeOK == /\ Len(file) \in chosen.length .. chosen.bound
          /\ \A j \in 1 .. Len(file) : file[j].by \in {"own", "other"} /\ file[j].is_stream \in BOOLEAN
=============================================================================
