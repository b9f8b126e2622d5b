-------------------------------- MODULE Der --------------------------------
(***************************************************************************)
(* DER values as the readers of this repository meet them: a TLV has a tag *)
(* and either content octets or a list of TLVs.  A TLV the reader cannot   *)
(* take out of its surrounding octets (a length past the end, a malformed  *)
(* header) is the item Unreadable.  An OCTET STRING or BIT STRING that     *)
(* wraps further DER carries it as its list.                               *)
(***************************************************************************)
EXTENDS Integers, Sequences, FiniteSets, SequencesExt

Prim(tag, octets) == [tag |-> tag, octets |-> octets, list |-> <<>>]
Struct(tag, list) == [tag |-> tag, octets |-> <<>>, list |-> list]
Unreadable == Prim("unreadable", <<>>)

AllReadable(list) == \A i \in DOMAIN list : list[i].tag # "unreadable"

(* A value that is exactly one TLV of the tag, with nothing after it. *)
parse_exact(list, tag) == Len(list) = 1 /\ list[1].tag = tag

(* Bit k of an octet, bit 7 being the most significant one. *)
BitSet(octet, k) == (octet \div 2 ^ k) % 2 = 1
trailing_zeros(octet) == CHOOSE k \in 0 .. 7 :
    BitSet(octet, k) /\ \A j \in 0 .. k - 1 : ~BitSet(octet, j)

(***************************************************************************)
(* The readers walk a list once: a mandatory field must be next, an        *)
(* optional one is taken when it is next.  A walk answers the position of  *)
(* every field (0 for an absent one), the position after the last field    *)
(* taken, and whether every mandatory field was there.                     *)
(***************************************************************************)
Must(tags) == [tags |-> tags, optional |-> FALSE]
May(tags) == [tags |-> tags, optional |-> TRUE]

TakeField(list, walk, field) ==
    IF walk.next <= Len(list) /\ list[walk.next].tag \in field.tags
    THEN [walk EXCEPT !.at = Append(@, walk.next), !.next = @ + 1]
    ELSE [walk EXCEPT !.at = Append(@, 0), !.ok = @ /\ field.optional]

Walk(list, fields) ==
    FoldLeft(LAMBDA walk, field : TakeField(list, walk, field),
             [ok |-> TRUE, next |-> 1, at |-> <<>>], fields)

(* The walk took every item of the list. *)
Whole(list, walk) == walk.ok /\ walk.next = Len(list) + 1
============================================================================
