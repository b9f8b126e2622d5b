------------------------------ MODULE PdfValues ------------------------------
(***************************************************************************)
(* The values and objects of a PDF file as doc-sign/src/pades and          *)
(* verification/pdf tell them apart: references, arrays of references,     *)
(* dictionaries, names, field titles and byte ranges; an object is a value *)
(* with the payload of its stream.                                         *)
(***************************************************************************)
Absent == [t |-> "absent"]
Ref(r) == [t |-> "reference", ref |-> r]
Arr(s) == [t |-> "array", items |-> s]
Dict(f) == [t |-> "dictionary", entries |-> f]
Name(x) == [t |-> "name", name |-> x]
Title(x) == [t |-> "title", title |-> x]
ByteRange(k) == [t |-> "range", end |-> k]

NoRef == <<0, 0>>
Unreadable == {NoRef}                 \* a list or tree that does not read
BadList == <<NoRef>>
NoEntries == [k \in {} |-> Absent]
BadEntries == [k \in {"?"} |-> Absent]

Obj(f) == [value |-> Dict(f), payload |-> "none"]
ArrayObj(s) == [value |-> Arr(s), payload |-> "none"]
StreamObj(f, p) == [value |-> Dict(f), payload |-> p]
Free == [value |-> Absent, payload |-> "free"]
Fresh(o) == [generation |-> 0, obj |-> o]
=============================================================================
