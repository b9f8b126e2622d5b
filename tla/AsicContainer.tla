---------------------------- MODULE AsicContainer ---------------------------
(***************************************************************************)
(* ASiC-E and BDOC containers: the ZIP archive doc-sign/src/asic.rs and    *)
(* xades.rs write over the files document.rs admits, and how               *)
(* verification/asic.rs and verification/xades.rs read it back after other *)
(* tools have handled it.                                                  *)
(*                                                                         *)
(* An archive is the sequence of its local entries, the bytes between them *)
(* (gaps), the central directory and the end record.  A content is a       *)
(* record; a digest is the content under an algorithm, so that two         *)
(* contents with one digest are one content; a CRC and a size are the      *)
(* content they were computed from.  XML is the tree it spells.            *)
(***************************************************************************)
EXTENDS Integers, Sequences, FiniteSets, SequencesExt

CONSTANTS ObjectLists,      \* the file lists a signer may be given: sequences of [name, content]
          Names,            \* the names other tools give the files they add
          MAX_ENTRIES,      \* entries a reader accepts
          MAX_TOTAL_BYTES,  \* decompressed bytes a reader accepts
          MaxEdits          \* bound: changes made to a container after it was written, by its list of files

VARIABLES archive,  \* the container on disk
          signed,   \* history: the files the signer was shown, by name
          edits     \* how often other tools have changed the container

vars == <<archive, signed, edits>>

-----------------------------------------------------------------------------
(* Names.  level counts the percent escapes a name or a reference stacks   *)
(* on one character: 0 is the character itself, 1 is "%20", 2 is "%2520";  *)
(* -1 is a name with nothing to escape.                                    *)

Name(place, part, ext) == [place |-> place, part |-> part, ext |-> ext, case |-> "as_is", level |-> -1, path |-> "plain"]

mimetype == Name("root", "mimetype", "")
Meta(part, ext) == Name("META-INF/", part, ext)

to_lowercase(n) == [n EXCEPT !.case = "lower"]
percent_encode_path(n) == IF n.level >= 0 THEN [n EXCEPT !.level = @ + 1] ELSE n
percent_decode(u) == IF u.level > 0 THEN [u EXCEPT !.level = @ - 1] ELSE u

\* uri_names: a reference names an entry as it stands or percent-decoded.
uri_names(u, n) == u = n \/ percent_decode(u) = n

unusable_object_name(n) == n.place # "root" \/ n.part = "mimetype" \/ n.path # "plain"

check_object_names(objects) ==
  /\ \A i \in 1 .. Len(objects) : ~unusable_object_name(objects[i].name)
  /\ \A i, j \in 1 .. Len(objects) : i # j => objects[i].name # objects[j].name

-----------------------------------------------------------------------------
(* Contents.                                                               *)

File(x) == [t |-> "file", x |-> x]
MediaType(x) == [t |-> "mimetype", x |-> x]
Passive(x) == [t |-> "passive", x |-> x]
Cms(key, over) == [t |-> "cms", key |-> key, over |-> over]
Manifest(sigs, refs) == [t |-> "manifest", sigs |-> sigs, refs |-> refs]
SignatureFile(sigs) == [t |-> "xades", sigs |-> sigs]

Zero == [t |-> "zero"]                             \* a field left to the data descriptor

Digest(method, content) == [method |-> method, of |-> content]
Computed == {"sha256", "sha384", "sha512"}         \* DigestMethod::from_uri

SizeOf(content) == IF content.t = "file" THEN 2 ELSE 1

-----------------------------------------------------------------------------
(* ZipWriter: every entry stored, its local header and its directory       *)
(* record written together.                                                *)

Header(n, content) == [name |-> n, flags |-> {}, method |-> "stored", extra |-> "none", sums |-> content]
Local(n, content) == [head |-> Header(n, content), data |-> content, descriptor |-> content]
Record(n, content, i) == [head |-> Header(n, content), type |-> "regular", at |-> i]

ZipWriter(entries) ==
  [locals |-> [i \in 1 .. Len(entries) |-> Local(entries[i].name, entries[i].content)],
   gaps |-> {},
   central |-> [i \in 1 .. Len(entries) |-> Record(entries[i].name, entries[i].content, i)],
   end |-> [count |-> Len(entries), fits |-> TRUE, ends_file |-> TRUE, features |-> {}]]

Entry(n, content) == [name |-> n, content |-> content]

-----------------------------------------------------------------------------
(* Reading the archive (read_zip).                                         *)

\* find_end_of_directory and read_central_directory.
DirectoryReads(a) ==
  /\ a.end.ends_file /\ a.end.features = {} /\ a.end.fits
  /\ a.end.count = Len(a.central) /\ a.end.count <= MAX_ENTRIES
  /\ \A i \in 1 .. Len(a.central) : /\ a.central[i].type \notin {"link", "special"}
                                    /\ a.central[i].head.extra # "renaming"

\* With a data descriptor the local header may carry zeros.
SizesAgree(local, record) ==
  \/ local.head.sums = record.head.sums
  \/ "descriptor" \in local.head.flags /\ local.head.sums = Zero

\* read_local_entry: the two headers agree on everything that decides what the entry is.
read_local_entry(a, record) ==
  LET local == a.locals[record.at]
      isDirectory == record.head.name.path = "directory"
  IN  /\ record.at \in DOMAIN a.locals
      /\ "encrypted" \notin local.head.flags
      /\ local.head.flags = record.head.flags /\ local.head.method = record.head.method
      /\ local.head.name = record.head.name /\ SizesAgree(local, record)
      /\ local.head.extra # "renaming"
      /\ "descriptor" \in local.head.flags => local.descriptor = record.head.sums
      /\ record.head.name.path \in {"plain", "directory"}
      /\ IF isDirectory THEN record.head.sums = Passive("empty")
         ELSE /\ record.type # "directory"
              /\ local.head.method \in {"stored", "deflated"}
              /\ local.data = record.head.sums                          \* size and CRC-32

IsFile(record) == record.head.name.path # "directory"

\* Mutant: entries the directory does not list are passed over.
require_exact_tiling_listed(a) ==
  a.gaps = {} /\ \A i, j \in DOMAIN a.central : i # j => a.central[i].at # a.central[j].at

\* require_exact_tiling: the listed entries cover the bytes before the directory.
require_exact_tiling(a) ==
  /\ a.gaps = {}
  /\ \A k \in DOMAIN a.locals : \E i \in DOMAIN a.central : a.central[i].at = k
  /\ \A i, j \in DOMAIN a.central : i # j => a.central[i].at # a.central[j].at

UniqueNames(a) ==
  \A i, j \in DOMAIN a.central :
    i # j /\ IsFile(a.central[i]) /\ IsFile(a.central[j]) =>
      to_lowercase(a.central[i].head.name) # to_lowercase(a.central[j].head.name)

TotalBytes(a) == FoldLeft(LAMBDA n, r : n + SizeOf(r.head.sums), 0, a.central)

read_zip(a) ==
  /\ 0 \notin a.gaps                                                    \* starts with a local header
  /\ DirectoryReads(a)
  /\ TotalBytes(a) <= MAX_TOTAL_BYTES
  /\ \A i \in DOMAIN a.central : read_local_entry(a, a.central[i])
  /\ UniqueNames(a)
  /\ require_exact_tiling(a)

\* The entries in central directory order.
Entries(a) ==
  LET files == SelectSeq(a.central, IsFile)
  IN  [i \in 1 .. Len(files) |-> Entry(files[i].head.name, a.locals[files[i].at].data)]

-----------------------------------------------------------------------------
(* AsicContainer::sort.                                                    *)

Inside(n) == n.place = "META-INF/"
IsXades(n) == Inside(n) /\ n.part = "signatures" /\ n.ext = "xml"
IsCades(n) == Inside(n) /\ n.part \in {"signature", "signatures"} /\ n.ext \in {"p7s", "p7m"}
IsManifest(n) == Inside(n) /\ n.part = "ASiCManifest" /\ n.ext = "xml"
is_passive_metadata(n) ==
  \/ n.part \in {"manifest", "container", "ASiCArchiveManifest"} /\ n.ext = "xml"
  \/ n.part = "timestamp" /\ n.ext = "tst"

data_files(a) == SelectSeq(Entries(a), LAMBDA e : e.name.place = "root" /\ e.name # mimetype)
xades_signature_files(a) == SelectSeq(Entries(a), LAMBDA e : IsXades(e.name))
cades_files(a) == SelectSeq(Entries(a), LAMBDA e : IsCades(e.name))
manifests(a) == SelectSeq(Entries(a), LAMBDA e : IsManifest(e.name))

NoUri == [place |-> "none"]
sole_signature_reference(m) == IF m.content.t = "manifest" /\ Len(m.content.sigs) = 1 THEN m.content.sigs[1] ELSE NoUri

Named(seq, u) == SelectSeq(seq, LAMBDA e : uri_names(u, e.name))        \* find takes the first

\* The mimetype entry: first, stored, without an extra field, and known.
MimetypeReads(a) ==
  \E i \in DOMAIN a.central :
    LET r == a.central[i]
        local == a.locals[r.at]
    IN  /\ r.head.name = mimetype /\ r.at = 1
        /\ local.head.method = "stored" /\ local.head.extra = "none" /\ r.head.extra = "none"
        /\ local.data \in {MediaType("asic-e"), MediaType("bdoc")}

\* Every manifest with one SigReference binds a signature that is there, and none is bound twice.
ManifestsBind(a) ==
  LET bound == SelectSeq(manifests(a), LAMBDA m : sole_signature_reference(m) # NoUri)
      SignatureOf(m) == Named(cades_files(a), sole_signature_reference(m))
  IN  /\ \A i \in DOMAIN bound : SignatureOf(bound[i]) # <<>>
      /\ \A i, j \in DOMAIN bound : i # j => SignatureOf(bound[i])[1] # SignatureOf(bound[j])[1]

sort(a) ==
  /\ MimetypeReads(a)
  /\ \A i \in DOMAIN Entries(a) :
       LET n == Entries(a)[i].name
       IN  n.place # "root" => Inside(n) /\ (IsXades(n) \/ IsCades(n) \/ IsManifest(n) \/ is_passive_metadata(n))
  /\ data_files(a) # <<>>
  /\ ManifestsBind(a)

parse(a) == read_zip(a) /\ sort(a)

\* CadesEntry: the manifest whose one SigReference names the signature.
ManifestOf(a, signature) ==
  SelectSeq(manifests(a), LAMBDA m : LET u == sole_signature_reference(m)
                                     IN  u # NoUri /\ Named(cades_files(a), u)[1] = signature)

manifest_intact(a, signature) ==
  LET m == ManifestOf(a, signature)[1]
      refs == m.content.refs
      FileOf(r) == Named(data_files(a), r.uri)
  IN  /\ ManifestOf(a, signature) # <<>>
      /\ \A i \in DOMAIN refs : /\ FileOf(refs[i]) # <<>> /\ refs[i].digest.method \in Computed
                                /\ refs[i].digest.of = FileOf(refs[i])[1].content
      /\ refs # <<>>
      /\ \A i \in DOMAIN data_files(a) : \E k \in DOMAIN refs : FileOf(refs[k])[1] = data_files(a)[i]
=============================================================================
