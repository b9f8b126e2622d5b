------------------------------- MODULE X509Ext -------------------------------
(***************************************************************************)
(* The certificate extensions the repository decides with: Basic           *)
(* Constraints, Key Usage, Extended Key Usage, Name Constraints and        *)
(* OCSP-nocheck.  They have two readers in cms/src/x509.rs, the strict     *)
(* profile of path validation and the lenient extractors, and the writer   *)
(* keeps a copy of the strict one in doc-sign/src/material.rs.  An         *)
(* extension list is a list of DER items; pathLen is kept as its octets    *)
(* without leading zeros (<<>> when absent), usages as sets of bits.       *)
(***************************************************************************)
EXTENDS Der

BASIC_CONSTRAINTS == <<1>>
KEY_USAGE == <<2>>
EXT_KEY_USAGE == <<3>>
NAME_CONSTRAINTS == <<4>>
OCSP_NO_CHECK == <<5>>
KP_OCSP_SIGNING == <<11>>
KP_TIME_STAMPING == <<12>>

MAX_PATH_LENGTH_OCTETS == 4
MAX_KEY_USAGE_OCTETS == 2

(* The nine Key Usage bits: 0 to 7 of the first octet, 8 for the second. *)
digital_signature == 7
non_repudiation == 6
key_cert_sign == 2
crl_sign == 1
decipher_only == 8

UsageBits(octets) ==
    {k \in 0 .. 7 : octets # <<>> /\ BitSet(octets[1], k)}
      \cup {decipher_only : k \in {7} \cap (IF Len(octets) > 1 /\ BitSet(octets[2], 7)
                                             THEN {7} ELSE {})}

NoConstraints == [present |-> FALSE, ca |-> FALSE, path_len |-> <<>>, critical |-> FALSE]
NoUsage == [present |-> FALSE, bits |-> {}, critical |-> FALSE]

-----------------------------------------------------------------------------
(* The strict profile. *)

ExtensionFields(ext) ==
    Walk(ext.list, <<Must({"OID"}), May({"BOOLEAN"}), Must({"OCTET STRING"})>>)

(* An Extension: an OID, a critical flag that is absent or canonical TRUE, a value. *)
ExtensionReads(ext) ==
    /\ ext.tag = "SEQUENCE"
    /\ Whole(ext.list, ExtensionFields(ext))
    /\ ext.list[1].octets # <<>>
    /\ Len(ext.list) = 3 => ext.list[2].octets = <<255>>

ExtensionOid(ext) == ext.list[1].octets
ExtensionCritical(ext) == Len(ext.list) = 3
ExtensionValue(ext) == ext.list[Len(ext.list)].list

PathLengthReads(octets) ==
    /\ octets # <<>>
    /\ octets[1] < 128
    /\ octets[1] = 0 /\ Len(octets) > 1 => octets[2] >= 128
    /\ Len(octets) - (IF octets[1] = 0 /\ Len(octets) > 1 THEN 1 ELSE 0)
         <= MAX_PATH_LENGTH_OCTETS

parse_path_length(octets) ==
    IF octets[1] = 0 /\ Len(octets) > 1 THEN Tail(octets) ELSE octets

BasicConstraintsFields(list) == Walk(list, <<May({"BOOLEAN"}), May({"INTEGER"})>>)

(* Mutant: any octet is taken for a BOOLEAN. *)
AnyBooleanRead(value) ==
    /\ parse_exact(value, "SEQUENCE")
    /\ Whole(value[1].list, BasicConstraintsFields(value[1].list))
    /\ \A i \in DOMAIN value[1].list :
         value[1].list[i].tag = "INTEGER" => PathLengthReads(value[1].list[i].octets)

(* cA may state its default FALSE; pathLen stands only beside a true cA. *)
BasicConstraintsRead(value) ==
    /\ parse_exact(value, "SEQUENCE")
    /\ Whole(value[1].list, BasicConstraintsFields(value[1].list))
    /\ \A i \in DOMAIN value[1].list :
         IF value[1].list[i].tag = "BOOLEAN"
         THEN value[1].list[i].octets \in {<<0>>, <<255>>}
         ELSE /\ PathLengthReads(value[1].list[i].octets)
              /\ i = 2 /\ value[1].list[1].octets = <<255>>

parse_path_basic_constraints(list, critical) ==
    [present |-> TRUE,
     ca |-> Len(list) > 0 /\ list[1].octets = <<255>>,
     path_len |-> IF Len(list) = 2 THEN parse_path_length(list[2].octets) ELSE <<>>,
     critical |-> critical]

(* A BIT STRING that is a DER named bit list: the last octet ends in its unused zeros. *)
KeyUsageReads(value) ==
    /\ parse_exact(value, "BIT STRING")
    /\ Len(value[1].octets) \in 2 .. MAX_KEY_USAGE_OCTETS + 1
    /\ value[1].octets[1] <= 7
    /\ Last(value[1].octets) # 0
    /\ trailing_zeros(Last(value[1].octets)) = value[1].octets[1]
    /\ Len(value[1].octets) = 3 => value[1].octets[3] = 128

parse_path_key_usage(octets, critical) ==
    [present |-> TRUE, bits |-> UsageBits(Tail(octets)), critical |-> critical]

ExtendedKeyUsageReads(value) ==
    /\ parse_exact(value, "SEQUENCE")
    /\ value[1].list # <<>>
    /\ \A i \in DOMAIN value[1].list :
         /\ value[1].list[i].tag = "OID"
         /\ value[1].list[i].octets # <<>>
         /\ \A j \in 1 .. i - 1 : value[1].list[j].octets # value[1].list[i].octets

parse_path_extended_key_usage(list) == {list[i].octets : i \in DOMAIN list}

OcspNoCheckReads(value, critical) ==
    ~critical /\ parse_exact(value, "NULL") /\ value[1].octets = <<>>

ExtensionAccepted(oid, value, critical) ==
    CASE oid = BASIC_CONSTRAINTS -> BasicConstraintsRead(value)
      [] oid = KEY_USAGE         -> KeyUsageReads(value)
      [] oid = EXT_KEY_USAGE     -> ExtendedKeyUsageReads(value)
      [] oid = NAME_CONSTRAINTS  -> TRUE
      [] oid = OCSP_NO_CHECK     -> OcspNoCheckReads(value, critical)
      [] OTHER                   -> ~critical

(* No malformed, repeated or unknown critical extension in the list. *)
PathExtensionsRead(list) ==
    \A i \in DOMAIN list :
      /\ ExtensionReads(list[i])
      /\ ExtensionAccepted(ExtensionOid(list[i]), ExtensionValue(list[i]),
                           ExtensionCritical(list[i]))
      /\ \A j \in 1 .. i - 1 : ExtensionOid(list[j]) # ExtensionOid(list[i])

Holding(list, oid) == {i \in DOMAIN list : ExtensionOid(list[i]) = oid}

(* The profile of an accepted list. *)
path_extension_profile(list) ==
    [constraints |->
       IF Holding(list, BASIC_CONSTRAINTS) = {} THEN NoConstraints
       ELSE LET i == CHOOSE i \in Holding(list, BASIC_CONSTRAINTS) : TRUE
            IN  parse_path_basic_constraints(ExtensionValue(list[i])[1].list,
                                             ExtensionCritical(list[i])),
     usage |->
       IF Holding(list, KEY_USAGE) = {} THEN NoUsage
       ELSE LET i == CHOOSE i \in Holding(list, KEY_USAGE) : TRUE
            IN  parse_path_key_usage(ExtensionValue(list[i])[1].octets,
                                     ExtensionCritical(list[i])),
     purposes |-> UNION {parse_path_extended_key_usage(ExtensionValue(list[i])[1].list) :
                           i \in Holding(list, EXT_KEY_USAGE)},
     extended_key_usage_present |-> Holding(list, EXT_KEY_USAGE) # {},
     name_constraints_present |-> Holding(list, NAME_CONSTRAINTS) # {},
     ocsp_no_check_present |-> Holding(list, OCSP_NO_CHECK) # {}]

-----------------------------------------------------------------------------
(***************************************************************************)
(* The lenient extractors.  They take the first extension of the OID they  *)
(* ask for, give up at an item they cannot read on the way to it, and read *)
(* whatever the value starts with.                                         *)
(***************************************************************************)
Stops(ext, oid) ==
    \/ ext.tag = "unreadable"
    \/ /\ ext.tag = "SEQUENCE"
       /\ \/ ext.list = <<>>
          \/ ext.list[1].tag = "unreadable"
          \/ ext.list[1].tag = "OID" /\ ext.list[1].octets = oid

(* The fields after the OID of the found extension: an optional flag, then the value. *)
ValueAt(fields) == IF fields # <<>> /\ fields[1].tag = "BOOLEAN" THEN 2 ELSE 1

NotFound == [found |-> FALSE, critical |-> FALSE, value |-> <<>>]

FoundExtension(fields) ==
    IF ValueAt(fields) <= Len(fields) /\ fields[ValueAt(fields)].tag = "OCTET STRING"
    THEN [found |-> TRUE,
          critical |-> ValueAt(fields) = 2 /\ fields[1].octets # <<>> /\ fields[1].octets[1] # 0,
          value |-> fields[ValueAt(fields)].list]
    ELSE NotFound

find_extension_with_meta(list, oid) ==
    LET stops == {i \in DOMAIN list : Stops(list[i], oid)}
        Reached(i) == list[i].tag = "SEQUENCE" /\ list[i].list # <<>>
                        /\ list[i].list[1].tag = "OID"
    IN  IF stops = {} \/ ~Reached(Min(stops)) THEN NotFound
        ELSE FoundExtension(Tail(list[Min(stops)].list))

StartsWith(value, tag) == value # <<>> /\ value[1].tag = tag

extract_key_usage_meta(meta) ==
    IF meta.found /\ StartsWith(meta.value, "BIT STRING") /\ meta.value[1].octets # <<>>
    THEN [present |-> TRUE, bits |-> UsageBits(Tail(meta.value[1].octets)),
          critical |-> meta.critical]
    ELSE NoUsage

extract_extended_key_usage_meta(meta) ==
    IF meta.found /\ StartsWith(meta.value, "SEQUENCE")
    THEN {meta.value[1].list[i].octets :
            i \in {i \in DOMAIN meta.value[1].list : meta.value[1].list[i].tag = "OID"}}
    ELSE {}

(* Four octets at most survive the wrapping shifts of the accumulator. *)
WrappedLength(octets) ==
    LET kept == SubSeq(octets, Len(octets) - Min({Len(octets), MAX_PATH_LENGTH_OCTETS}) + 1,
                       Len(octets))
        nonzero == {i \in DOMAIN kept : kept[i] # 0}
    IN  IF nonzero = {} THEN <<0>> ELSE SubSeq(kept, Min(nonzero), Len(kept))

(* The children up to the first unreadable one; the last of each kind counts. *)
ReadChildren(list) ==
    LET bad == {i \in DOMAIN list : list[i].tag = "unreadable"}
    IN  IF bad = {} THEN list ELSE SubSeq(list, 1, Min(bad) - 1)

LastOf(list, tag) == {i \in DOMAIN list : list[i].tag = tag
                        /\ \A j \in i + 1 .. Len(list) : list[j].tag # tag}

LenientConstraints(children, critical) ==
    [present |-> TRUE,
     ca |-> \E i \in LastOf(children, "BOOLEAN") :
               children[i].octets # <<>> /\ children[i].octets[1] # 0,
     path_len |-> IF LastOf(children, "INTEGER") = {} THEN <<>>
                  ELSE WrappedLength(children[Max(LastOf(children, "INTEGER"))].octets),
     critical |-> critical]

extract_basic_constraints(meta) ==
    IF meta.found /\ StartsWith(meta.value, "SEQUENCE")
    THEN LenientConstraints(ReadChildren(meta.value[1].list), meta.critical)
    ELSE NoConstraints

-----------------------------------------------------------------------------
(* Who may issue and who may sign. *)

(* n <= the path length stated by these octets. *)
WithinLength(n, octets) == octets = <<>> \/ Len(octets) > 1 \/ n <= octets[1]
=============================================================================
